-------------------------- MODULE LintService_proofs --------------------------
(***************************************************************************)
(* Theorems about LintService: what holds however many views, edits,       *)
(* timers and requests there are.                                          *)
(***************************************************************************)
EXTENDS LintService, Subsequences_proofs

\* The views whose lint timer is set: each will make one more request.
Armed == {v \in Views : lastTimeoutId[v] # 0}

\* Every timer set and every command makes at most one request.
RequestsCounted ==
    /\ IsFiniteSet(Armed)
    /\ issued + Cardinality(Armed) <= timers + lintNows

TypeInv == TypeOK /\ RequestsCounted

LEMMA Bounds ==
    /\ MaxEdits \in Nat /\ MaxTimers \in Nat /\ MaxLintNow \in Nat
    /\ MaxSwitches \in Nat /\ MaxRequests \in Nat
    /\ MaxRequests >= MaxTimers + MaxLintNow
BY BoundsAssumption, MaxRequestsAssumption

LEMMA CancelledQueueType ==
    ASSUME queue \in Seq(Item), NEW v \in Views
    PROVE  CancelledQueue(v) \in Seq(Item)
BY PickedType DEF CancelledQueue, WithoutUid, Kept

LEMMA IssueRequestType ==
    ASSUME TypeOK, NEW v \in Views, issued < MaxRequests,
           NEW rid \in 0..MaxTimers, NEW pending \in Seq(Item),
           IssueRequest(v, rid, pending)
    PROVE  /\ queue' \in Seq(Item) /\ taker' = taker /\ got' = got
           /\ issued' \in 0..MaxRequests /\ issued' = issued + 1
           /\ request' \in [1..MaxRequests -> [rid : 0..MaxTimers, ver : Versions]]
<1>1. [uid |-> v, num |-> issued + 1] \in Request
  BY Bounds DEF TypeOK, Request, Views
<1>2. queue' \in Seq(Item)
  BY <1>1 DEF IssueRequest, Item
<1>3. [rid |-> rid, ver |-> doc[v]] \in [rid : 0..MaxTimers, ver : Versions]
  BY DEF TypeOK
<1>. QED
  BY <1>2, <1>3, Bounds DEF IssueRequest, TypeOK

(***************************************************************************)
(* Setting a timer arms at most its view; firing it disarms the view.      *)
(***************************************************************************)
LEMMA ArmedGrows ==
    ASSUME TypeOK, IsFiniteSet(Armed), NEW v \in Views,
           NEW id, lastTimeoutId' = [lastTimeoutId EXCEPT ![v] = id]
    PROVE  /\ IsFiniteSet(Armed') /\ Cardinality(Armed) \in Nat
           /\ Cardinality(Armed') \in Nat
           /\ Cardinality(Armed') <= Cardinality(Armed) + 1
           /\ lastTimeoutId[v] # 0 /\ id = 0 =>
                Cardinality(Armed') = Cardinality(Armed) - 1
<1>1. Armed' \subseteq Armed \cup {v}
  BY DEF Armed, TypeOK
<1>2. IsFiniteSet(Armed \cup {v}) /\ Cardinality(Armed) \in Nat
      /\ Cardinality(Armed \cup {v}) <= Cardinality(Armed) + 1
  <2>1. Cardinality(Armed) \in Nat
    BY FS_CardinalityType
  <2>2. IsFiniteSet(Armed \cup {v})
        /\ Cardinality(Armed \cup {v}) \in {Cardinality(Armed), Cardinality(Armed) + 1}
    <3>. HIDE DEF Armed
    <3>. QED
      BY FS_AddElement
  <2>. QED
    BY <2>1, <2>2
<1>3. IsFiniteSet(Armed') /\ Cardinality(Armed') <= Cardinality(Armed \cup {v})
  BY <1>1, <1>2, FS_Subset
<1>4. Cardinality(Armed') \in Nat /\ Cardinality(Armed \cup {v}) \in Nat
  BY <1>2, <1>3, FS_CardinalityType
<1>5. ASSUME lastTimeoutId[v] # 0, id = 0
      PROVE  Cardinality(Armed') = Cardinality(Armed) - 1
  <2>1. v \in Armed /\ Armed' = Armed \ {v}
    BY <1>5 DEF Armed, TypeOK
  <2>. QED
    BY <2>1, FS_RemoveElement
<1>. QED
  BY <1>2, <1>3, <1>4, <1>5

LEMMA ArmedStays ==
    ASSUME UNCHANGED lastTimeoutId
    PROVE  Armed' = Armed
BY DEF Armed

LEMMA TypeInit == Init => TypeInv
<1>. SUFFICES ASSUME Init PROVE TypeInv
  OBVIOUS
<1>1. TypeOK
  <2>1. /\ queue = <<>> /\ taker = NoThread /\ got = Nothing
        /\ manager = "waiting" /\ issued = 0 /\ timers = 0 /\ lintNows = 0
    BY DEF Init, Q!AbsInit
  <2>2. queue \in Seq(Item) /\ got \in Item \cup {Nothing}
    BY <2>1
  <2>3. 0 \in Versions /\ 0 \in 0..MaxTimers /\ 0 \in 0..MaxRequests
    BY Bounds DEF Versions
  <2>4. request \in [1..MaxRequests -> [rid : 0..MaxTimers, ver : Versions]]
    BY <2>3 DEF Init
  <2>5. /\ reported \in [Views -> Versions \cup {-1}]
        /\ superseded \in [Views -> 0..MaxRequests]
        /\ off \in [Views -> BOOLEAN]
    BY <2>3 DEF Init
  <2>6. /\ doc \in [Views -> Versions]
        /\ alive \in [Views -> BOOLEAN] /\ enabled \in [Views -> BOOLEAN]
        /\ lastTimeoutId \in [Views -> 0..MaxTimers]
        /\ lastRequestId \in [Views -> 0..MaxTimers]
    BY <2>3 DEF Init
  <2>7. /\ lintResults \in [Views -> Result] /\ marks \in [Views -> [Parts -> Result]]
        /\ outcome \in Result
    BY DEF Init, Result
  <2>8. clears \in [Views -> Nat] /\ switches \in 0..MaxSwitches
    BY Bounds DEF Init
  <2>10. /\ screen \in [Views -> Screens] /\ listeners \in [Views -> Seq(Versions)]
         /\ handleScroll \in [Views -> BOOLEAN]
         /\ recalculating \in [Views -> BOOLEAN] /\ asked \in [Views -> BOOLEAN]
    BY DEF Init
  <2>9. shuttingDown \in BOOLEAN
    BY Zenon DEF Init
  <2>. QED
    BY <2>1, <2>2, <2>3, <2>4, <2>5, <2>6, <2>7, <2>8, <2>9, <2>10, Bounds,
       ThreadsAssumption DEF TypeOK
<1>2. Armed = {}
  BY DEF Init, Armed
<1>. QED
  BY <1>1, <1>2, FS_EmptySet, Bounds DEF TypeInv, RequestsCounted, Init


\* The part of TypeOK that is about the display.
DisplayOK ==
    /\ lintResults \in [Views -> Result]
    /\ marks \in [Views -> [Parts -> Result]]
    /\ clears \in [Views -> Nat]
    /\ screen \in [Views -> Screens]
    /\ listeners \in [Views -> Seq(Versions)]
    /\ handleScroll \in [Views -> BOOLEAN]
    /\ recalculating \in [Views -> BOOLEAN]

LEMMA DisplayTypes == TypeOK => DisplayOK
BY DEF TypeOK, DisplayOK

LEMMA DisplayStays == DisplayOK /\ UNCHANGED displayVars => DisplayOK'
BY DEF DisplayOK, displayVars, scrollVars

LEMMA ClearResultsType ==
    ASSUME TypeOK, NEW v \in Views, ClearResults(v), recalculating' \in [Views -> BOOLEAN]
    PROVE  DisplayOK'
<1>1. lintResults' \in [Views -> Result] /\ clears' \in [Views -> Nat]
  BY DEF TypeOK, ClearResults, Result
<1>. QED
  BY <1>1 DEF TypeOK, ClearResults, DisplayOK, scrollVars

LEMMA DrawType ==
    ASSUME DisplayOK, NEW v \in Views, NEW parts, NEW x \in Result, Draw(v, parts, x)
    PROVE  /\ marks' \in [Views -> [Parts -> Result]]
           /\ \A w \in Views \ {v} : marks'[w] = marks[w]
           /\ \A p \in Parts : marks'[v][p] = IF p \in parts THEN x ELSE marks[v][p]
<1>. DEFINE new == [p \in Parts |-> IF p \in parts THEN x ELSE marks[v][p]]
<1>1. new \in [Parts -> Result] /\ \A p \in Parts : new[p] = IF p \in parts THEN x ELSE marks[v][p]
  BY DEF DisplayOK
<1>2. marks' = [marks EXCEPT ![v] = new]
  BY DEF Draw
<1>. HIDE DEF new
<1>. QED
  BY <1>1, <1>2 DEF DisplayOK

LEMMA RequestLintType ==
    ASSUME TypeOK, NEW v \in Views, NEW clear \in BOOLEAN, RequestLint(v, clear)
    PROVE  /\ timers' = timers + 1 /\ timers' \in 0..MaxTimers
           /\ lastTimeoutId' = [lastTimeoutId EXCEPT ![v] = timers']
           /\ lastTimeoutId' \in [Views -> 0..MaxTimers]
           /\ DisplayOK'
<1>1. timers' = timers + 1 /\ timers' \in 0..MaxTimers
  BY Bounds DEF TypeOK, RequestLint
<1>2. lastTimeoutId' = [lastTimeoutId EXCEPT ![v] = timers']
      /\ lastTimeoutId' \in [Views -> 0..MaxTimers]
  BY <1>1 DEF TypeOK, RequestLint
<1>3. recalculating' \in [Views -> BOOLEAN]
  BY Zenon DEF TypeOK, RequestLint
<1>4. DisplayOK'
  <2>1. CASE ClearResults(v)
    BY <1>3, <2>1, ClearResultsType
  <2>2. CASE UNCHANGED <<lintResults, marks, clears, scrollVars>>
    BY <1>3, <2>2, DisplayTypes DEF DisplayOK, scrollVars
  <2>. QED
    BY <2>1, <2>2 DEF RequestLint
<1>. QED
  BY <1>1, <1>2, <1>4

LEMMA RequestLintCounted ==
    ASSUME TypeInv, NEW v \in Views, NEW clear \in BOOLEAN, RequestLint(v, clear),
           UNCHANGED <<issued, lintNows>>
    PROVE  RequestsCounted' /\ issued' <= timers' + lintNows'
<1>1. timers' = timers + 1 /\ lastTimeoutId' = [lastTimeoutId EXCEPT ![v] = timers']
  BY RequestLintType DEF TypeInv
<1>2. /\ IsFiniteSet(Armed') /\ Cardinality(Armed) \in Nat /\ Cardinality(Armed') \in Nat
      /\ Cardinality(Armed') <= Cardinality(Armed) + 1
  BY <1>1, ArmedGrows DEF TypeInv, RequestsCounted
<1>3. issued \in Nat /\ timers \in Nat /\ lintNows \in Nat
  BY Bounds DEF TypeInv, TypeOK
<1>4. issued + Cardinality(Armed) <= timers + lintNows
  BY DEF TypeInv, RequestsCounted
<1>. HIDE DEF Armed
<1>5. issued' + Cardinality(Armed') <= timers' + lintNows'
  BY <1>1, <1>2, <1>3, <1>4
<1>. QED
  BY <1>1, <1>2, <1>3, <1>4, <1>5 DEF RequestsCounted

LEMMA StillCounted ==
    ASSUME TypeInv, UNCHANGED <<issued, timers, lintNows, lastTimeoutId>>
    PROVE  RequestsCounted'
BY ArmedStays DEF TypeInv, RequestsCounted


(***************************************************************************)
(* What the displayer does to the listeners and the markers.               *)
(***************************************************************************)
LEMMA CancelPendingItemsType ==
    ASSUME DisplayOK, NEW v \in Views, CancelPendingItems(v)
    PROVE  listeners' \in [Views -> Seq(Versions)] /\ handleScroll' \in [Views -> BOOLEAN]
<1>. DEFINE left == IF handleScroll[v]
                    THEN SubSeq(listeners[v], 1, Len(listeners[v]) - 1) ELSE listeners[v]
<1>1. left \in Seq(Versions)
  <2>1. listeners[v] \in Seq(Versions)
    BY DEF DisplayOK
  <2>2. \A n \in 1..(Len(listeners[v]) - 1) : listeners[v][n] \in Versions
    BY <2>1
  <2>3. Len(listeners[v]) - 1 \in Int
    BY <2>1
  <2>4. SubSeq(listeners[v], 1, Len(listeners[v]) - 1) \in Seq(Versions)
    BY <2>2, <2>3
  <2>. QED
    BY <2>1, <2>4
<1>2. listeners' = [listeners EXCEPT ![v] = left] /\ handleScroll' = [handleScroll EXCEPT ![v] = FALSE]
  BY DEF CancelPendingItems
<1>. HIDE DEF left
<1>. QED
  BY <1>1, <1>2 DEF DisplayOK

LEMMA DisplayShows ==
    ASSUME DisplayOK, outcome \in Result, outcome # None, NEW v \in Views, Display(v)
    PROVE  /\ marks' \in [Views -> [Parts -> Result]]
           /\ listeners' \in [Views -> Seq(Versions)]
           /\ handleScroll' \in [Views -> BOOLEAN]
           /\ \A w \in Views \ {v} : /\ marks'[w] = marks[w]
                                     /\ listeners'[w] = listeners[w]
                                     /\ handleScroll'[w] = handleScroll[w]
           /\ \/ /\ \A p \in Parts : marks'[v][p] = outcome
                 /\ listeners'[v] = listeners[v] /\ handleScroll'[v] = handleScroll[v]
              \/ /\ \A p \in screen[v] : marks'[v][p] = outcome
                 /\ listeners'[v] = Append(listeners[v], outcome) /\ handleScroll'[v]
<1>1. outcome \in Versions
  BY DEF Result
<1>2. screen[v] \subseteq Parts
  BY ScreensAssumption DEF DisplayOK
<1>3. CASE Draw(v, Parts, outcome) /\ UNCHANGED <<listeners, handleScroll>>
  BY <1>3, DrawType DEF DisplayOK
<1>4. CASE /\ Draw(v, screen[v], outcome)
           /\ listeners' = [listeners EXCEPT ![v] = Append(@, outcome)]
           /\ handleScroll' = [handleScroll EXCEPT ![v] = TRUE]
  <2>1. Append(listeners[v], outcome) \in Seq(Versions)
    BY <1>1 DEF DisplayOK
  <2>2. /\ listeners' \in [Views -> Seq(Versions)]
        /\ listeners'[v] = Append(listeners[v], outcome)
        /\ \A w \in Views \ {v} : listeners'[w] = listeners[w]
    BY <1>4, <2>1 DEF DisplayOK
  <2>3. /\ handleScroll' \in [Views -> BOOLEAN] /\ handleScroll'[v]
        /\ \A w \in Views \ {v} : handleScroll'[w] = handleScroll[w]
    BY <1>4 DEF DisplayOK
  <2>4. /\ marks' \in [Views -> [Parts -> Result]]
        /\ \A w \in Views \ {v} : marks'[w] = marks[w]
        /\ \A p \in screen[v] : marks'[v][p] = outcome
    <3>1. Draw(v, screen[v], outcome)
      BY <1>4
    <3>. QED
      BY <1>2, <3>1, DrawType
  <2>. QED
    BY <2>2, <2>3, <2>4
<1>. QED
  BY <1>3, <1>4 DEF Display

LEMMA ShowResultsType ==
    ASSUME TypeOK, NEW v \in Views, ShowResults(v), UNCHANGED <<clears, screen>>
    PROVE  DisplayOK'
<1>1. DisplayOK /\ outcome \in Result
  BY DisplayTypes DEF TypeOK
<1>2. lintResults' \in [Views -> Result]
  BY <1>1 DEF ShowResults, DisplayOK
<1>3. CASE outcome = None
  BY <1>1, <1>2, <1>3 DEF ShowResults, DisplayOK
<1>4. CASE outcome # None
  <2>1. Display(v) /\ recalculating' = [recalculating EXCEPT ![v] = FALSE]
    BY <1>4 DEF ShowResults
  <2>2. recalculating' \in [Views -> BOOLEAN]
    BY <1>1, <2>1 DEF DisplayOK
  <2>. QED
    BY <1>1, <1>2, <1>4, <2>1, <2>2, DisplayShows DEF DisplayOK
<1>. QED
  BY <1>3, <1>4

LEMMA ScrollType ==
    ASSUME DisplayOK, NEW v \in Views, Scroll(v)
    PROVE  /\ screen' \in [Views -> Screens] /\ marks' \in [Views -> [Parts -> Result]]
           /\ \A w \in Views \ {v} : screen'[w] = screen[w] /\ marks'[w] = marks[w]
           /\ \/ UNCHANGED marks /\ (recalculating[v] \/ listeners[v] = <<>>)
              \/ \A p \in screen'[v] : marks'[v][p] = listeners[v][Len(listeners[v])]
<1>1. PICK s \in Screens : screen' = [screen EXCEPT ![v] = s]
  BY DEF Scroll
<1>2. /\ screen' \in [Views -> Screens] /\ screen'[v] = s
      /\ \A w \in Views \ {v} : screen'[w] = screen[w]
  BY <1>1 DEF DisplayOK
<1>3. CASE recalculating[v] \/ listeners[v] = <<>>
  BY <1>2, <1>3 DEF Scroll, DisplayOK
<1>4. CASE ~(recalculating[v] \/ listeners[v] = <<>>)
  <2>1. Draw(v, screen'[v], listeners[v][Len(listeners[v])])
    BY <1>4 DEF Scroll
  <2>2. listeners[v][Len(listeners[v])] \in Result
    BY <1>4 DEF DisplayOK, Result
  <2>3. screen'[v] \subseteq Parts
    BY <1>2, ScreensAssumption
  <2>. QED
    BY <1>2, <2>1, <2>2, <2>3, DrawType
<1>. QED
  BY <1>3, <1>4

(***************************************************************************)
(* Every step keeps the types, and the count of the requests.              *)
(***************************************************************************)
LEMMA TypeNext == TypeInv /\ [Next]_vars => TypeInv'
<1>. SUFFICES ASSUME TypeInv, [Next]_vars PROVE TypeInv'
  OBVIOUS
<1>. TypeOK /\ DisplayOK
  BY DisplayTypes DEF TypeInv
<1>1. ASSUME NEW v \in Views, Edit(v) PROVE TypeInv'
  <2>1. CASE enabled[v] /\ \E clear \in BOOLEAN : RequestLint(v, clear)
    <3>1. PICK clear \in BOOLEAN : RequestLint(v, clear)
      BY <2>1
    <3>2. RequestsCounted' /\ issued' <= timers' + lintNows'
      BY <1>1, <3>1, RequestLintCounted DEF Edit, queueVars, countVars
    <3>3. doc' \in [Views -> Versions]
      BY <1>1, Bounds DEF Edit, TypeOK, Versions
    <3>. QED
      BY <1>1, <3>1, <3>2, <3>3, RequestLintType
      DEF TypeInv, TypeOK, DisplayOK, Edit, queueVars, serviceVars, historyVars
  <2>2. CASE UNCHANGED <<timers, lastTimeoutId, displayVars>>
    <3>1. RequestsCounted'
      BY <1>1, <2>2, StillCounted DEF Edit
    <3>2. doc' \in [Views -> Versions]
      BY <1>1, Bounds DEF Edit, TypeOK, Versions
    <3>. QED
      BY <1>1, <2>2, <3>1, <3>2, DisplayStays
      DEF TypeInv, TypeOK, DisplayOK, Edit, queueVars, serviceVars, historyVars
  <2>. QED
    BY <1>1, <2>1, <2>2 DEF Edit
<1>2. ASSUME NEW v \in Views, LinterPrefChanged(v) PROVE TypeInv'
  <2>1. RequestsCounted' /\ issued' <= timers' + lintNows'
    BY <1>2, RequestLintCounted DEF LinterPrefChanged, queueVars, countVars
  <2>. QED
    BY <1>2, <2>1, RequestLintType
    DEF TypeInv, TypeOK, DisplayOK, LinterPrefChanged, queueVars, serviceVars, historyVars
<1>3. ASSUME NEW v \in Views, ContinueRequest(v) PROVE TypeInv'
  <2>1. /\ IsFiniteSet(Armed') /\ Cardinality(Armed) \in Nat
        /\ Cardinality(Armed') = Cardinality(Armed) - 1
    BY <1>3, ArmedGrows DEF ContinueRequest, TypeInv, RequestsCounted
  <2>2. issued \in Nat /\ timers \in 0..MaxTimers /\ lintNows \in 0..MaxLintNow
        /\ Cardinality(Armed') \in Nat /\ issued + Cardinality(Armed) <= timers + lintNows
    <3>1. Cardinality(Armed') \in Nat
      BY <2>1, FS_CardinalityType
    <3>. QED
      BY <3>1, Bounds DEF TypeInv, TypeOK, RequestsCounted
  <2>3. issued < MaxRequests /\ issued + 1 + Cardinality(Armed') <= timers + lintNows
    <3>. HIDE DEF Armed
    <3>. QED
      BY <2>1, <2>2, Bounds
  <2>4. /\ lastRequestId' \in [Views -> 0..MaxTimers]
        /\ lastTimeoutId' \in [Views -> 0..MaxTimers]
    BY <1>3, Bounds DEF ContinueRequest, TypeOK
  <2>5. CASE /\ alive[v]
             /\ IssueRequest(v, lastTimeoutId[v], CancelledQueue(v))
             /\ CancelPendingItems(v)
             /\ asked' = [asked EXCEPT ![v] = @ /\ listeners'[v] # <<>>]
             /\ superseded' = [superseded EXCEPT ![v] = issued]
             /\ off' = [off EXCEPT ![v] = @ /\ ~enabled[v]]
    <3>1. CancelledQueue(v) \in Seq(Item)
      BY CancelledQueueType DEF TypeOK
    <3>2. /\ queue' \in Seq(Item) /\ taker' = taker /\ got' = got
          /\ issued' \in 0..MaxRequests /\ issued' = issued + 1
          /\ request' \in [1..MaxRequests -> [rid : 0..MaxTimers, ver : Versions]]
      <4>1. lastTimeoutId[v] \in 0..MaxTimers
        BY DEF TypeOK
      <4>. QED
        BY <2>3, <2>5, <3>1, <4>1, IssueRequestType
    <3>3. RequestsCounted' /\ issued' <= timers' + lintNows'
      <4>1. UNCHANGED <<timers, lintNows>>
        BY <1>3 DEF ContinueRequest
      <4>. HIDE DEF Armed
      <4>. QED
        BY <2>1, <2>2, <2>3, <3>2, <4>1 DEF RequestsCounted
    <3>4. superseded' \in [Views -> 0..MaxRequests]
      BY <2>5 DEF TypeOK
    <3>5. off' \in [Views -> BOOLEAN] /\ asked' \in [Views -> BOOLEAN]
      BY <2>5, Zenon DEF TypeOK
    <3>6. listeners' \in [Views -> Seq(Versions)] /\ handleScroll' \in [Views -> BOOLEAN]
      BY <2>5, CancelPendingItemsType
    <3>. QED
      BY <1>3, <2>4, <3>2, <3>3, <3>4, <3>5, <3>6
      DEF TypeInv, TypeOK, ContinueRequest, serviceVars
  <2>6. CASE UNCHANGED <<queueVars, request, issued, superseded, off,
                         listeners, handleScroll, asked>>
    <3>1. RequestsCounted'
      <4>1. UNCHANGED <<timers, lintNows, issued>>
        BY <1>3, <2>6 DEF ContinueRequest
      <4>. HIDE DEF Armed
      <4>. QED
        BY <2>1, <2>2, <2>3, <4>1 DEF RequestsCounted
    <3>. QED
      BY <1>3, <2>4, <2>6, <3>1
      DEF TypeInv, TypeOK, ContinueRequest, queueVars, serviceVars
  <2>. QED
    BY <1>3, <2>5, <2>6 DEF ContinueRequest
<1>4. ASSUME NEW v \in Views, LintNow(v) PROVE TypeInv'
  <2>1. /\ IsFiniteSet(Armed') /\ Cardinality(Armed') \in Nat
        /\ issued + Cardinality(Armed') <= timers + lintNows
    BY <1>4, ArmedStays, FS_CardinalityType DEF LintNow, TypeInv, RequestsCounted
  <2>2. issued \in Nat /\ timers \in 0..MaxTimers /\ lintNows \in 0..MaxLintNow
        /\ lintNows < MaxLintNow /\ lintNows' = lintNows + 1 /\ timers' = timers
    BY <1>4, Bounds DEF LintNow, TypeOK
  <2>3. issued < MaxRequests /\ issued + 1 + Cardinality(Armed') <= timers + lintNows'
    <3>. HIDE DEF Armed
    <3>. QED
      BY <2>1, <2>2, Bounds
  <2>4. /\ queue' \in Seq(Item) /\ taker' = taker /\ got' = got
        /\ issued' \in 0..MaxRequests /\ issued' = issued + 1
        /\ request' \in [1..MaxRequests -> [rid : 0..MaxTimers, ver : Versions]]
    BY <1>4, <2>3, IssueRequestType DEF LintNow, TypeOK
  <2>5. RequestsCounted' /\ issued' <= timers' + lintNows' /\ lintNows' \in 0..MaxLintNow
    <3>. HIDE DEF Armed
    <3>. QED
      BY <2>1, <2>2, <2>3, <2>4, Bounds DEF RequestsCounted
  <2>6. asked' \in [Views -> BOOLEAN]
    BY <1>4 DEF LintNow, TypeOK
  <2>. QED
    BY <1>4, <2>4, <2>5, <2>6, DisplayStays
    DEF TypeInv, TypeOK, DisplayOK, LintNow, serviceVars
<1>5. ASSUME NEW v \in Views, ClearCommand(v) PROVE TypeInv'
  <2>1. DisplayOK'
    BY <1>5, ClearResultsType DEF ClearCommand, DisplayOK
  <2>. QED
    BY <1>5, <2>1, StillCounted
    DEF TypeInv, TypeOK, DisplayOK, ClearCommand, queueVars, serviceVars, countVars,
        historyVars
<1>6. ASSUME NEW v \in Views, SwitchOff(v) PROVE TypeInv'
  <2>1. queue' \in Seq(Item)
    BY <1>6, CancelledQueueType DEF SwitchOff, TypeOK
  <2>2. /\ enabled' \in [Views -> BOOLEAN] /\ off' \in [Views -> BOOLEAN]
        /\ switches' \in 0..MaxSwitches
    BY <1>6, Bounds DEF SwitchOff, TypeOK
  <2>3. DisplayOK'
    BY <1>6, ClearResultsType DEF SwitchOff, DisplayOK
  <2>. QED
    BY <1>6, <2>1, <2>2, <2>3, StillCounted
    DEF TypeInv, TypeOK, DisplayOK, SwitchOff, serviceVars
<1>7. ASSUME NEW v \in Views, SwitchOn(v) PROVE TypeInv'
  <2>1. enabled' \in [Views -> BOOLEAN] /\ switches' \in 0..MaxSwitches
    BY <1>7, Bounds DEF SwitchOn, TypeOK
  <2>2. CASE RequestLint(v, TRUE)
    <3>1. RequestsCounted' /\ issued' <= timers' + lintNows'
      BY <1>7, <2>2, RequestLintCounted DEF SwitchOn
    <3>. QED
      BY <1>7, <2>1, <2>2, <3>1, RequestLintType
      DEF TypeInv, TypeOK, DisplayOK, SwitchOn, queueVars, serviceVars, historyVars
  <2>3. CASE UNCHANGED <<timers, lastTimeoutId, displayVars>>
    BY <1>7, <2>1, <2>3, StillCounted, DisplayStays
    DEF TypeInv, TypeOK, DisplayOK, SwitchOn, queueVars, serviceVars, historyVars
  <2>. QED
    BY <1>7, <2>2, <2>3 DEF SwitchOn
<1>8. ASSUME NEW v \in Views, Close(v) PROVE TypeInv'
  <2>1. queue' \in Seq(Item)
    BY <1>8, CancelledQueueType DEF Close, TypeOK
  <2>2. alive' \in [Views -> BOOLEAN]
    BY <1>8, Bounds DEF Close, TypeOK
  <2>3. DisplayOK'
    BY <1>8, ClearResultsType DEF Close, DisplayOK
  <2>. QED
    BY <1>8, <2>1, <2>2, <2>3, StillCounted
    DEF TypeInv, TypeOK, DisplayOK, Close, serviceVars, countVars, historyVars
<1>9. ASSUME NEW v \in Views, DisplayClear(v) PROVE TypeInv'
  <2>1. clears' \in [Views -> Nat]
    <3>1. clears[v] - 1 \in Nat
      BY <1>9 DEF DisplayClear, TypeOK
    <3>. QED
      BY <1>9, <3>1 DEF DisplayClear, TypeOK
  <2>2. marks' \in [Views -> [Parts -> Result]]
    <3>1. None \in Result
      BY DEF Result
    <3>. QED
      BY <1>9, <3>1, DrawType DEF DisplayClear, DisplayOK
  <2>. QED
    BY <1>9, <2>1, <2>2, StillCounted
    DEF TypeInv, TypeOK, DisplayClear, queueVars, serviceVars, countVars, historyVars,
        scrollVars
<1>10. ASSUME Terminate PROVE TypeInv'
  <2>1. queue' \in Seq(Item)
    BY <1>10 DEF Terminate, Q!AbsPrepend, TypeOK, Item
  <2>. QED
    BY <1>10, <2>1, StillCounted, DisplayStays
    DEF TypeInv, TypeOK, DisplayOK, Terminate, Q!AbsPrepend, countVars, historyVars
<1>. USE DEF uiVars, displayVars, scrollVars, countVars, historyVars
<1>11. ASSUME GetBegin PROVE TypeInv'
  BY <1>11, StillCounted DEF TypeInv, TypeOK, GetBegin, Q!AbsReserve
<1>12. ASSUME GetEnd PROVE TypeInv'
  <2>1. Head(queue) \in Item /\ Tail(queue) \in Seq(Item)
    BY <1>12 DEF GetEnd, Q!AbsGet, TypeOK
  <2>2. got' # Quit => got' \in Request
    BY <1>12, <2>1 DEF GetEnd, Q!AbsGet, Item
  <2>. QED
    BY <1>12, <2>1, <2>2, StillCounted, ThreadsAssumption
    DEF TypeInv, TypeOK, GetEnd, Q!AbsGet
<1>13. ASSUME Lint PROVE TypeInv'
  <2>1. manager = "linting" => request[got.num].ver \in Versions
    BY DEF TypeOK, Request
  <2>2. outcome' \in Result /\ manager' \in {"waiting", "reporting"}
    BY <1>13, <2>1 DEF Lint, Result
  <2>. QED
    BY <1>13, <2>2, StillCounted DEF TypeInv, TypeOK, Lint, queueVars
<1>14. ASSUME Report PROVE TypeInv'
  <2>1. got \in Request /\ got.uid \in Views /\ request[got.num].ver \in Versions
    BY <1>14 DEF Report, TypeOK, Request, Views
  <2>2. DisplayOK' /\ reported' \in [Views -> Versions \cup {-1}]
    <3>1. CASE ShowResults(got.uid) /\ reported' = [reported EXCEPT ![got.uid] = request[got.num].ver]
      <4>1. DisplayOK'
        BY <1>14, <2>1, <3>1, ShowResultsType DEF Report
      <4>2. reported' \in [Views -> Versions \cup {-1}]
        BY <2>1, <3>1 DEF TypeOK
      <4>. QED
        BY <4>1, <4>2
    <3>2. CASE UNCHANGED <<lintResults, marks, recalculating, listeners, handleScroll, reported>>
      BY <1>14, <3>2 DEF TypeOK, DisplayOK, Report
    <3>. QED
      BY <1>14, <3>1, <3>2 DEF Report
  <2>3. outcome' \in Result
    BY <1>14 DEF Report, Result
  <2>. QED
    BY <1>14, <2>2, <2>3, StillCounted DEF TypeInv, TypeOK, DisplayOK, Report, queueVars
<1>15. ASSUME UNCHANGED vars PROVE TypeInv'
  BY <1>15, StillCounted DEF TypeInv, TypeOK, vars, queueVars, serviceVars
<1>16. ASSUME NEW v \in Views, Scroll(v) PROVE TypeInv'
  <2>1. screen' \in [Views -> Screens] /\ marks' \in [Views -> [Parts -> Result]]
    BY <1>16, ScrollType
  <2>. QED
    BY <1>16, <2>1, StillCounted DEF TypeInv, TypeOK, Scroll, queueVars, serviceVars
<1>. QED
  BY <1>1, <1>2, <1>3, <1>4, <1>5, <1>6, <1>7, <1>8, <1>9, <1>10, <1>11, <1>12,
     <1>13, <1>14, <1>15, <1>16 DEF Next, MainNext, LinterNext

(***************************************************************************)
(* Type correctness: no number of edits, timers, commands and closings     *)
(* makes the lint buffers, the queue and the linter thread of lint.js and  *)
(* koLintService.py leave their types, and requests never outnumber the    *)
(* timers that fired and the commands.                                     *)
(***************************************************************************)
THEOREM LintTypeCorrect == Spec => []TypeOK
<1>1. Spec => []TypeInv
  BY TypeInit, TypeNext, PTL DEF Spec
<1>2. TypeInv => TypeOK
  BY DEF TypeInv
<1>. QED
  BY <1>1, <1>2, PTL


-----------------------------------------------------------------------------
(***************************************************************************)
(* A closed view has no results, and nothing gives it any.                 *)
(***************************************************************************)
ClosedHasNone == \A v \in Views : ~alive[v] => lintResults[v] = None

LeftAlone ==
    \A v \in Views : ~alive[v] =>
        /\ ~alive'[v]
        /\ lintResults'[v] = None
        /\ \A p \in Parts : marks'[v][p] \in {marks[v][p], None}
        /\ issued' > issued => queue'[Len(queue')].uid # v

LEMMA LeftAloneNext ==
    TypeOK /\ TypeOK' /\ ClosedHasNone /\ [Next]_vars => LeftAlone /\ ClosedHasNone'
<1>. SUFFICES ASSUME TypeOK, TypeOK', ClosedHasNone, [Next]_vars
              PROVE  LeftAlone /\ ClosedHasNone'
  OBVIOUS
<1>. DEFINE Calm == LeftAlone /\ ClosedHasNone'
<1>1. ASSUME NEW w \in Views, alive[w] \/ UNCHANGED alive, ClearResults(w),
             \/ UNCHANGED alive
             \/ alive' = [alive EXCEPT ![w] = FALSE],
             UNCHANGED issued
      PROVE  Calm
  <2>1. lintResults' = [lintResults EXCEPT ![w] = None] /\ UNCHANGED marks
    BY <1>1 DEF ClearResults
  <2>2. \A v \in Views : ~alive[v] => ~alive'[v] /\ lintResults'[v] = None
    BY <1>1, <2>1 DEF ClosedHasNone, TypeOK
  <2>3. \A v \in Views : ~alive'[v] => lintResults'[v] = None
    BY <1>1, <2>1 DEF ClosedHasNone, TypeOK
  <2>4. ~(issued' > issued)
    BY <1>1 DEF TypeOK
  <2>. QED
    BY <2>1, <2>2, <2>3, <2>4 DEF ClosedHasNone, LeftAlone
<1>2. ASSUME UNCHANGED <<lintResults, marks, alive, issued>> PROVE Calm
  BY <1>2 DEF ClosedHasNone, LeftAlone, TypeOK
<1>3. ASSUME NEW w \in Views, NEW clear \in BOOLEAN, RequestLint(w, clear),
             UNCHANGED <<alive, issued>>
      PROVE  Calm
  <2>1. CASE ClearResults(w)
    BY <1>1, <1>3, <2>1
  <2>2. CASE UNCHANGED <<lintResults, marks>>
    BY <1>2, <1>3, <2>2
  <2>. QED
    BY <1>3, <2>1, <2>2 DEF RequestLint
<1>4. ASSUME NEW w \in Views, alive[w], NEW rid, NEW pending \in Seq(Item),
             IssueRequest(w, rid, pending), UNCHANGED <<lintResults, marks, alive>>
      PROVE  Calm
  <2>1. queue'[Len(queue')].uid = w
    BY <1>4 DEF IssueRequest
  <2>. QED
    BY <1>4, <2>1 DEF ClosedHasNone, LeftAlone, TypeOK
<1>5. ASSUME NEW w \in Views, DisplayClear(w) PROVE Calm
  <2>1. UNCHANGED <<lintResults, alive, issued>>
    BY <1>5 DEF DisplayClear, countVars
  <2>2. \A v \in Views, p \in Parts : marks'[v][p] \in {marks[v][p], None}
    <3>1. CASE Draw(w, Parts, None)
      BY <3>1, DrawType, DisplayTypes DEF Result
    <3>2. CASE UNCHANGED marks
      BY <3>2
    <3>. QED
      BY <1>5, <3>1, <3>2 DEF DisplayClear
  <2>. QED
    BY <2>1, <2>2 DEF ClosedHasNone, LeftAlone, TypeOK
<1>6. ASSUME Report PROVE Calm
  <2>1. got.uid \in Views
    BY <1>6 DEF Report, TypeOK, Request, Views
  <2>2. ASSUME Accepts(got.uid, got.num), ShowResults(got.uid) PROVE Calm
    <3>1. \A v \in Views \ {got.uid} :
            lintResults'[v] = lintResults[v] /\ marks'[v] = marks[v]
      <4>1. outcome \in Result /\ DisplayOK
        BY DisplayTypes DEF TypeOK
      <4>2. outcome = None \/ Display(got.uid)
        BY <2>2 DEF ShowResults
      <4>3. \A v \in Views \ {got.uid} : marks'[v] = marks[v]
        BY <2>1, <2>2, <4>1, <4>2, DisplayShows DEF ShowResults
      <4>. QED
        BY <2>1, <2>2, <4>1, <4>3 DEF ShowResults, DisplayOK
    <3>2. alive[got.uid] /\ UNCHANGED <<alive, issued>>
      BY <1>6, <2>2 DEF Accepts, Report, countVars
    <3>3. \A v \in Views : ~alive[v] => v # got.uid
      BY <3>2
    <3>4. \A v \in Views : ~alive[v] =>
            lintResults'[v] = None /\ marks'[v] = marks[v] /\ ~alive'[v]
      BY <3>1, <3>2, <3>3 DEF ClosedHasNone
    <3>5. ~(issued' > issued)
      BY <3>2 DEF TypeOK
    <3>. QED
      BY <3>2, <3>4, <3>5 DEF ClosedHasNone, LeftAlone
  <2>. QED
    BY <1>2, <1>6, <2>2 DEF Report, countVars
<1>. USE DEF displayVars, countVars
<1>7. ASSUME NEW w \in Views,
             Edit(w) \/ LinterPrefChanged(w) \/ SwitchOn(w)
      PROVE  Calm
  BY <1>2, <1>3, <1>7 DEF Edit, LinterPrefChanged, SwitchOn
<1>8. ASSUME NEW w \in Views, LintNow(w) PROVE Calm
  BY <1>4, <1>8 DEF LintNow, TypeOK
<1>9. ASSUME NEW w \in Views, ContinueRequest(w) PROVE Calm
  <2>1. CancelledQueue(w) \in Seq(Item)
    BY CancelledQueueType DEF TypeOK
  <2>. QED
    BY <1>2, <1>4, <1>9, <2>1 DEF ContinueRequest
<1>10. ASSUME NEW w \in Views, ClearCommand(w) \/ SwitchOff(w) \/ Close(w)
       PROVE  Calm
  BY <1>1, <1>10 DEF ClearCommand, SwitchOff, Close
<1>11. ASSUME Terminate \/ GetBegin \/ GetEnd \/ Lint \/ UNCHANGED vars
       PROVE  Calm
  BY <1>2, <1>11 DEF Terminate, GetBegin, GetEnd, Lint, uiVars, vars
<1>12. ASSUME NEW w \in Views, Scroll(w) PROVE Calm
  <2>1. /\ alive[w] /\ UNCHANGED <<lintResults, alive, issued>>
        /\ \A v \in Views \ {w} : marks'[v] = marks[v]
    BY <1>12, ScrollType, DisplayTypes DEF Scroll
  <2>2. \A v \in Views : ~alive[v] => marks'[v] = marks[v]
    BY <2>1
  <2>3. ~(issued' > issued)
    BY <2>1 DEF TypeOK
  <2>. QED
    BY <2>1, <2>2, <2>3 DEF ClosedHasNone, LeftAlone
<1>. QED
  BY <1>5, <1>6, <1>7, <1>8, <1>9, <1>10, <1>11, <1>12 DEF Next, MainNext, LinterNext

(***************************************************************************)
(* After destructor() a view's late timer makes no request, no late report *)
(* gives it results, and its markers at most go away.                      *)
(***************************************************************************)
THEOREM ClosedViewCorrect == Spec => ClosedViewIsLeftAlone
<1>1. Init => ClosedHasNone
  BY DEF Init, ClosedHasNone
<1>2. LeftAlone => [LeftAlone]_vars
  OBVIOUS
<1>3. ClosedViewIsLeftAlone <=> [][LeftAlone]_vars
  BY DEF ClosedViewIsLeftAlone, LeftAlone
<1>. QED
  BY <1>1, <1>2, <1>3, LintTypeCorrect, LeftAloneNext, PTL DEF Spec

-----------------------------------------------------------------------------
(***************************************************************************)
(* Once terminate() was called, the sentinel stays the next item to take   *)
(* until the thread has taken it.                                          *)
(***************************************************************************)
QuitFirst ==
    shuttingDown /\ manager # "ended" => queue # <<>> /\ Head(queue) = Quit

NoNewLint == shuttingDown /\ manager' = "linting" => manager = "linting"

LEMMA QuitFirstNext == TypeOK /\ QuitFirst /\ [Next]_vars => QuitFirst' /\ NoNewLint
<1>. SUFFICES ASSUME TypeOK, QuitFirst, [Next]_vars PROVE QuitFirst' /\ NoNewLint
  OBVIOUS
<1>. USE DEF serviceVars, queueVars, QuitFirst, NoNewLint
<1>1. ASSUME NEW v \in Views,
             \/ Edit(v) \/ LinterPrefChanged(v) \/ LintNow(v) \/ ClearCommand(v)
             \/ SwitchOff(v) \/ SwitchOn(v) \/ Close(v)
             \/ ContinueRequest(v) \/ DisplayClear(v) \/ Scroll(v)
      PROVE  QuitFirst' /\ NoNewLint
  <2>1. ~shuttingDown /\ UNCHANGED shuttingDown
    BY <1>1 DEF Edit, LinterPrefChanged, LintNow, ClearCommand, SwitchOff, SwitchOn,
       Close, ContinueRequest, DisplayClear, Scroll
  <2>. QED
    BY <2>1, Zenon
<1>2. ASSUME Terminate PROVE QuitFirst' /\ NoNewLint
  <2>1. queue' = <<Quit>> \o queue /\ queue \in Seq(Item) /\ Quit \in Item
    BY <1>2 DEF Terminate, Q!AbsPrepend, TypeOK, Item
  <2>2. queue' # <<>> /\ Head(queue') = Quit
    BY <2>1
  <2>. QED
    BY <1>2, <2>2 DEF Terminate
<1>3. ASSUME GetBegin PROVE QuitFirst' /\ NoNewLint
  BY <1>3 DEF GetBegin, Q!AbsReserve
<1>4. ASSUME GetEnd PROVE QuitFirst' /\ NoNewLint
  BY <1>4 DEF GetEnd, Q!AbsGet
<1>5. ASSUME Lint \/ Report PROVE QuitFirst' /\ NoNewLint
  BY <1>5 DEF Lint, Report
<1>6. ASSUME UNCHANGED vars PROVE QuitFirst' /\ NoNewLint
  BY <1>6 DEF vars
<1>. QED
  BY <1>1, <1>2, <1>3, <1>4, <1>5, <1>6 DEF Next, MainNext, LinterNext

(***************************************************************************)
(* prepend(None) overtakes every request: no lint starts after terminate() *)
(* was called.                                                             *)
(***************************************************************************)
THEOREM TerminateCorrect == Spec => NoLintAfterTerminate
<1>1. Init => QuitFirst
  BY DEF Init, QuitFirst
<1>2. NoNewLint => [NoNewLint]_vars
  OBVIOUS
<1>3. NoLintAfterTerminate <=> [][NoNewLint]_vars
  BY DEF NoLintAfterTerminate, NoNewLint
<1>. QED
  BY <1>1, <1>2, <1>3, LintTypeCorrect, QuitFirstNext, PTL DEF Spec


-----------------------------------------------------------------------------
(***************************************************************************)
(* The requests that may still be reported: those in the queue and the one *)
(* the thread works on.  Each step removes some of them or adds one.       *)
(***************************************************************************)
Working == manager \in {"linting", "reporting"}

Held == {x \in Request : \/ \E i \in DOMAIN queue : queue[i] = x
                         \/ Working /\ got = x}

Issued(v) == [uid |-> v, num |-> issued + 1]

LEMMA CancelledQueueKeeps ==
    ASSUME queue \in Seq(Item), NEW v \in Views
    PROVE  LET w == CancelledQueue(v) IN
           /\ \A j \in DOMAIN w : \E i \in DOMAIN queue : w[j] = queue[i]
           /\ \A i \in DOMAIN queue : queue[i] # Quit /\ queue[i].uid # v =>
                \E j \in DOMAIN w : w[j] = queue[i]
           /\ \A j, k \in DOMAIN w : j < k =>
                \E a, b \in DOMAIN queue : a < b /\ w[j] = queue[a] /\ w[k] = queue[b]
<1>1. CASE taker = NoThread
  <2>1. CancelledQueue(v) = Picked(queue, Kept(queue, v))
    BY <1>1 DEF CancelledQueue, WithoutUid
  <2>2. Kept(queue, v) \subseteq DOMAIN queue
    BY DEF Kept
  <2>3. \A i \in DOMAIN queue : queue[i] # Quit /\ queue[i].uid # v => i \in Kept(queue, v)
    BY DEF Kept
  <2>. QED
    BY <2>1, <2>2, <2>3, PickedKeeps
<1>2. CASE taker # NoThread
  BY <1>2 DEF CancelledQueue
<1>. QED
  BY <1>1, <1>2

LEMMA HeldIssue ==
    ASSUME TypeOK, TypeOK', NEW v \in Views, NEW rid, NEW pending \in Seq(Item),
           \A j \in DOMAIN pending : \E i \in DOMAIN queue : pending[j] = queue[i],
           IssueRequest(v, rid, pending), UNCHANGED manager
    PROVE  /\ Held' \subseteq Held \cup {Issued(v)}
           /\ Issued(v) \in Held' /\ Issued(v) \in Request
           /\ issued' = issued + 1 /\ issued + 1 \in 1..MaxRequests
           /\ request'[issued + 1] = [rid |-> rid, ver |-> doc[v]]
           /\ \A n \in 1..MaxRequests : n <= issued => request'[n] = request[n]
<1>1. issued' = issued + 1 /\ issued + 1 \in 1..MaxRequests
  BY Bounds DEF IssueRequest, TypeOK
<1>2. Issued(v) \in Request
  BY <1>1 DEF Issued, Request, Views
<1>3. queue' = Append(pending, Issued(v)) /\ UNCHANGED <<got, manager>>
  BY DEF IssueRequest, Issued
<1>4. \A j \in DOMAIN queue' : queue'[j] = Issued(v) \/ \E i \in DOMAIN queue : queue'[j] = queue[i]
  BY <1>2, <1>3 DEF Item
<1>5. queue'[Len(queue')] = Issued(v) /\ Len(queue') \in DOMAIN queue'
  BY <1>2, <1>3 DEF Item
<1>6. /\ request'[issued + 1] = [rid |-> rid, ver |-> doc[v]]
      /\ \A n \in 1..MaxRequests : n <= issued => request'[n] = request[n]
  BY <1>1 DEF IssueRequest, TypeOK
<1>7. Held' \subseteq Held \cup {Issued(v)}
  BY <1>3, <1>4 DEF Held, Working
<1>8. Issued(v) \in Held'
  BY <1>2, <1>5 DEF Held
<1>. QED
  BY <1>1, <1>2, <1>6, <1>7, <1>8

LEMMA HeldShrinks ==
    ASSUME TypeOK, TypeOK', [Next]_vars, UNCHANGED issued
    PROVE  Held' \subseteq Held /\ UNCHANGED request
<1>. DEFINE Fewer == Held' \subseteq Held /\ UNCHANGED request
<1>1. ASSUME UNCHANGED <<queue, got, manager, request>> PROVE Fewer
  BY <1>1 DEF Held, Working
<1>2. ASSUME NEW v \in Views, queue' = CancelledQueue(v),
             UNCHANGED <<got, manager, request>>
      PROVE  Fewer
  <2>1. \A j \in DOMAIN queue' : \E i \in DOMAIN queue : queue'[j] = queue[i]
    <3>1. queue \in Seq(Item)
      BY DEF TypeOK
    <3>2. \A j \in DOMAIN CancelledQueue(v) :
            \E i \in DOMAIN queue : CancelledQueue(v)[j] = queue[i]
      BY <3>1, CancelledQueueKeeps
    <3>. HIDE DEF CancelledQueue
    <3>. QED
      BY <1>2, <3>2
  <2>. QED
    BY <1>2, <2>1 DEF Held, Working
<1>. USE DEF queueVars, serviceVars, countVars, uiVars
<1>3. ASSUME NEW v \in Views,
             \/ Edit(v) \/ LinterPrefChanged(v) \/ ClearCommand(v)
             \/ SwitchOn(v) \/ DisplayClear(v) \/ Scroll(v)
      PROVE  Fewer
  BY <1>1, <1>3 DEF Edit, LinterPrefChanged, ClearCommand, SwitchOn, DisplayClear, Scroll
<1>4. ASSUME NEW v \in Views, LintNow(v) \/ ContinueRequest(v) PROVE Fewer
  <2>1. issued \in Nat /\ issued' # issued + 1
    BY DEF TypeOK
  <2>. QED
    BY <1>1, <1>4, <2>1 DEF LintNow, ContinueRequest, IssueRequest
<1>5. ASSUME NEW v \in Views, SwitchOff(v) \/ Close(v) PROVE Fewer
  BY <1>2, <1>5 DEF SwitchOff, Close
<1>6. ASSUME Terminate PROVE Fewer
  <2>1. queue' = <<Quit>> \o queue /\ UNCHANGED <<got, manager, request>>
    BY <1>6 DEF Terminate, Q!AbsPrepend
  <2>2. \A j \in DOMAIN queue' : queue'[j] = Quit \/ \E i \in DOMAIN queue : queue'[j] = queue[i]
    BY <2>1 DEF TypeOK, Item
  <2>. QED
    BY <2>1, <2>2, QuitAssumption DEF Held, Working
<1>7. ASSUME GetBegin PROVE Fewer
  BY <1>7 DEF GetBegin, Q!AbsReserve, Held, Working
<1>8. ASSUME GetEnd PROVE Fewer
  <2>1. queue # <<>> /\ got' = Head(queue) /\ queue' = Tail(queue) /\ UNCHANGED request
    BY <1>8 DEF GetEnd, Q!AbsGet
  <2>2. /\ got' = queue[1] /\ 1 \in DOMAIN queue
        /\ \A j \in DOMAIN queue' : queue'[j] = queue[j + 1] /\ j + 1 \in DOMAIN queue
    BY <2>1 DEF TypeOK
  <2>. QED
    BY <2>1, <2>2 DEF Held
<1>9. ASSUME Lint \/ Report PROVE Fewer
  BY <1>9 DEF Lint, Report, Held, Working
<1>10. ASSUME UNCHANGED vars PROVE Fewer
  BY <1>1, <1>10 DEF vars
<1>. QED
  BY <1>3, <1>4, <1>5, <1>6, <1>7, <1>8, <1>9, <1>10 DEF Next, MainNext, LinterNext

-----------------------------------------------------------------------------
(***************************************************************************)
(* The rid of a request is at most the rid its view expects, and less when *)
(* a timer of the view has fired since.                                    *)
(***************************************************************************)
RidsOrdered ==
    /\ \A x \in Held :
        /\ x.num <= issued
        /\ request[x.num].rid <= lastRequestId[x.uid]
        /\ x.num <= superseded[x.uid] => request[x.num].rid < lastRequestId[x.uid]
    /\ \A v \in Views :
        /\ lastRequestId[v] <= timers
        /\ lastTimeoutId[v] <= timers
        /\ lastTimeoutId[v] # 0 => lastRequestId[v] < lastTimeoutId[v]
        /\ superseded[v] <= issued

SkipsSuperseded == \A v \in Views : Reporting(v) => got.num > superseded[v]

LEMMA RidsNext ==
    TypeOK /\ TypeOK' /\ RidsOrdered /\ [Next]_vars => RidsOrdered' /\ SkipsSuperseded
<1>. SUFFICES ASSUME TypeOK, TypeOK', RidsOrdered, [Next]_vars
              PROVE  RidsOrdered' /\ SkipsSuperseded
  OBVIOUS
<1>1. ASSUME NEW v \in Views, Reporting(v) PROVE got.num > superseded[v]
  <2>1. got \in Held /\ got.uid = v /\ request[got.num].rid = lastRequestId[v]
    BY <1>1 DEF Reporting, Report, Accepts, Held, Working, TypeOK
  <2>2. got.num \in Nat /\ superseded[v] \in Nat
    BY <1>1, Bounds DEF Reporting, Report, TypeOK, Request
  <2>3. lastRequestId[v] \in Nat /\ ~(lastRequestId[v] < lastRequestId[v])
    BY Bounds DEF TypeOK
  <2>. QED
    BY <2>1, <2>2, <2>3 DEF RidsOrdered
<1>2. \A x \in Request : /\ x.uid \in Views /\ x.num \in 1..MaxRequests
                         /\ request[x.num].rid \in Nat /\ request'[x.num].rid \in Nat
  <2>1. \A n \in 1..MaxRequests : request[n].rid \in Nat /\ request'[n].rid \in Nat
    BY Bounds DEF TypeOK
  <2>. QED
    BY <2>1 DEF Request, Views
<1>3. \A v \in Views :
        /\ lastRequestId[v] \in Nat /\ lastTimeoutId[v] \in Nat /\ superseded[v] \in Nat
        /\ lastRequestId'[v] \in Nat /\ lastTimeoutId'[v] \in Nat /\ superseded'[v] \in Nat
  BY Bounds DEF TypeOK
<1>4. issued \in Nat /\ timers \in Nat /\ timers' \in Nat
  BY Bounds DEF TypeOK
<1>5. Held \subseteq Request
  BY DEF Held
<1>6. ASSUME UNCHANGED <<issued, superseded, lastRequestId, lastTimeoutId, timers>>
      PROVE  RidsOrdered'
  BY <1>6, HeldShrinks DEF RidsOrdered
<1>7. ASSUME NEW v \in Views, NEW clear \in BOOLEAN, RequestLint(v, clear),
             UNCHANGED <<issued, superseded, lastRequestId>>
      PROVE  RidsOrdered'
  <2>1. timers' = timers + 1 /\ lastTimeoutId' = [lastTimeoutId EXCEPT ![v] = timers']
    BY <1>7 DEF RequestLint
  <2>2. \A w \in Views :
          /\ lastRequestId[w] <= timers /\ lastTimeoutId[w] <= timers
          /\ lastTimeoutId[w] # 0 => lastRequestId[w] < lastTimeoutId[w]
          /\ lastTimeoutId'[w] = IF w = v THEN timers + 1 ELSE lastTimeoutId[w]
    BY <2>1 DEF RidsOrdered, TypeOK
  <2>3. \A w \in Views :
          /\ lastRequestId[w] <= timers' /\ lastTimeoutId'[w] <= timers'
          /\ lastTimeoutId'[w] # 0 => lastRequestId[w] < lastTimeoutId'[w]
    BY <1>3, <1>4, <2>1, <2>2
  <2>. QED
    BY <1>7, <2>3, HeldShrinks DEF RidsOrdered
<1>8. ASSUME NEW v \in Views, ContinueRequest(v) PROVE RidsOrdered'
  <2>1. /\ lastTimeoutId[v] # 0 /\ UNCHANGED <<timers, manager>>
        /\ lastRequestId' = [lastRequestId EXCEPT ![v] = lastTimeoutId[v]]
        /\ lastTimeoutId' = [lastTimeoutId EXCEPT ![v] = 0]
    BY <1>8 DEF ContinueRequest, serviceVars
  <2>2. \A w \in Views :
          /\ lastRequestId'[w] = IF w = v THEN lastTimeoutId[v] ELSE lastRequestId[w]
          /\ lastTimeoutId'[w] = IF w = v THEN 0 ELSE lastTimeoutId[w]
    BY <2>1 DEF TypeOK
  <2>3. /\ lastRequestId[v] < lastRequestId'[v]
        /\ \A w \in Views : /\ lastRequestId[w] <= lastRequestId'[w]
                            /\ lastRequestId'[w] <= timers' /\ lastTimeoutId'[w] <= timers'
                            /\ lastTimeoutId'[w] # 0 => lastRequestId'[w] < lastTimeoutId'[w]
    BY <1>3, <1>4, <2>1, <2>2 DEF RidsOrdered
  <2>4. CASE ~alive[v] /\ UNCHANGED <<issued, superseded>>
    <3>1. \A x \in Held' : x \in Held /\ x \in Request /\ request'[x.num] = request[x.num]
      BY <1>5, <2>4, HeldShrinks
    <3>2. \A x \in Held' :
            /\ x.num <= issued'
            /\ request'[x.num].rid <= lastRequestId'[x.uid]
            /\ x.num <= superseded'[x.uid] => request'[x.num].rid < lastRequestId'[x.uid]
      BY <1>2, <1>3, <2>3, <2>4, <3>1 DEF RidsOrdered
    <3>. QED
      BY <2>3, <2>4, <3>2 DEF RidsOrdered
  <2>5. CASE /\ IssueRequest(v, lastTimeoutId[v], CancelledQueue(v))
             /\ superseded' = [superseded EXCEPT ![v] = issued]
    <3>1. /\ Held' \subseteq Held \cup {Issued(v)}
          /\ issued' = issued + 1 /\ issued + 1 \in 1..MaxRequests
          /\ request'[issued + 1].rid = lastTimeoutId[v]
          /\ \A n \in 1..MaxRequests : n <= issued => request'[n] = request[n]
      <4>1. queue \in Seq(Item)
        BY DEF TypeOK
      <4>2. CancelledQueue(v) \in Seq(Item)
        BY <4>1, CancelledQueueType
      <4>3. \A j \in DOMAIN CancelledQueue(v) :
              \E i \in DOMAIN queue : CancelledQueue(v)[j] = queue[i]
        BY <4>1, CancelledQueueKeeps
      <4>4. UNCHANGED manager
        BY <2>1
      <4>. HIDE DEF Held, Issued
      <4>5. /\ Held' \subseteq Held \cup {Issued(v)}
            /\ issued' = issued + 1 /\ issued + 1 \in 1..MaxRequests
            /\ request'[issued + 1] = [rid |-> lastTimeoutId[v], ver |-> doc[v]]
            /\ \A n \in 1..MaxRequests : n <= issued => request'[n] = request[n]
        BY <2>5, <4>2, <4>3, <4>4, HeldIssue
      <4>. QED
        BY <4>5
    <3>2. \A w \in Views : superseded'[w] = IF w = v THEN issued ELSE superseded[w]
      BY <2>5 DEF TypeOK
    <3>3. ASSUME NEW x \in Held
          PROVE  /\ x.num <= issued'
                 /\ request'[x.num].rid <= lastRequestId'[x.uid]
                 /\ x.num <= superseded'[x.uid] => request'[x.num].rid < lastRequestId'[x.uid]
      <4>1. x \in Request /\ x.num <= issued /\ request'[x.num] = request[x.num]
        BY <1>2, <1>5, <3>1 DEF RidsOrdered
      <4>2. /\ request[x.num].rid <= lastRequestId[x.uid]
            /\ x.num <= superseded[x.uid] => request[x.num].rid < lastRequestId[x.uid]
        BY DEF RidsOrdered
      <4>3. x.uid = v => request[x.num].rid < lastRequestId'[x.uid]
        BY <1>2, <1>3, <2>3, <4>1, <4>2
      <4>4. x.uid # v => superseded'[x.uid] = superseded[x.uid]
                         /\ lastRequestId'[x.uid] = lastRequestId[x.uid]
        BY <1>2, <2>2, <3>2, <4>1
      <4>. QED
        BY <1>2, <1>3, <1>4, <3>1, <4>1, <4>2, <4>3, <4>4
    <3>4. LET x == Issued(v) IN
          /\ x.num <= issued' /\ ~(x.num <= superseded'[x.uid])
          /\ request'[x.num].rid <= lastRequestId'[x.uid]
      BY <1>3, <1>4, <2>2, <3>1, <3>2 DEF Issued
    <3>5. \A w \in Views : superseded'[w] <= issued'
      BY <1>3, <1>4, <3>1, <3>2 DEF RidsOrdered
    <3>. QED
      BY <2>3, <3>1, <3>3, <3>4, <3>5 DEF RidsOrdered
  <2>. QED
    BY <1>8, <2>4, <2>5 DEF ContinueRequest
<1>9. ASSUME NEW v \in Views, LintNow(v) PROVE RidsOrdered'
  <2>1. UNCHANGED <<timers, manager, superseded, lastRequestId, lastTimeoutId>>
    BY <1>9 DEF LintNow, serviceVars, historyVars
  <2>2. /\ Held' \subseteq Held \cup {Issued(v)}
        /\ issued' = issued + 1 /\ issued + 1 \in 1..MaxRequests
        /\ request'[issued + 1].rid = lastRequestId[v]
        /\ \A n \in 1..MaxRequests : n <= issued => request'[n] = request[n]
    <3>1. IssueRequest(v, lastRequestId[v], queue) /\ queue \in Seq(Item)
      BY <1>9 DEF LintNow, TypeOK
    <3>2. \A j \in DOMAIN queue : \E i \in DOMAIN queue : queue[j] = queue[i]
      OBVIOUS
    <3>3. UNCHANGED manager
      BY <2>1
    <3>. HIDE DEF Held, Issued
    <3>4. /\ Held' \subseteq Held \cup {Issued(v)}
          /\ issued' = issued + 1 /\ issued + 1 \in 1..MaxRequests
          /\ request'[issued + 1] = [rid |-> lastRequestId[v], ver |-> doc[v]]
          /\ \A n \in 1..MaxRequests : n <= issued => request'[n] = request[n]
      BY <3>1, <3>2, <3>3, HeldIssue
    <3>. QED
      BY <3>4
  <2>3. ASSUME NEW x \in Held
        PROVE  /\ x.num <= issued'
               /\ request'[x.num].rid <= lastRequestId'[x.uid]
               /\ x.num <= superseded'[x.uid] => request'[x.num].rid < lastRequestId'[x.uid]
    <3>1. x \in Request /\ x.num <= issued /\ request'[x.num] = request[x.num]
      BY <1>2, <1>5, <2>2 DEF RidsOrdered
    <3>. QED
      BY <1>2, <1>4, <2>1, <2>2, <3>1 DEF RidsOrdered
  <2>4. LET x == Issued(v) IN
        /\ x.num <= issued' /\ ~(x.num <= superseded'[x.uid])
        /\ request'[x.num].rid <= lastRequestId'[x.uid]
    BY <1>3, <1>4, <2>1, <2>2 DEF Issued, RidsOrdered
  <2>5. \A w \in Views : superseded'[w] <= issued'
    BY <1>3, <1>4, <2>1, <2>2 DEF RidsOrdered
  <2>. QED
    BY <2>1, <2>2, <2>3, <2>4, <2>5 DEF RidsOrdered
<1>. USE DEF countVars, historyVars, uiVars
<1>10. ASSUME NEW v \in Views, Edit(v) \/ LinterPrefChanged(v) \/ SwitchOn(v)
       PROVE  RidsOrdered'
  BY <1>6, <1>7, <1>10 DEF Edit, LinterPrefChanged, SwitchOn
<1>11. ASSUME NEW v \in Views,
              ClearCommand(v) \/ SwitchOff(v) \/ Close(v) \/ DisplayClear(v) \/ Scroll(v)
       PROVE  RidsOrdered'
  BY <1>6, <1>11 DEF ClearCommand, SwitchOff, Close, DisplayClear, Scroll
<1>12. ASSUME Terminate \/ GetBegin \/ GetEnd \/ Lint \/ Report \/ UNCHANGED vars
       PROVE  RidsOrdered'
  BY <1>6, <1>12 DEF Terminate, GetBegin, GetEnd, Lint, Report, vars
<1>. QED
  BY <1>1, <1>8, <1>9, <1>10, <1>11, <1>12
  DEF Next, MainNext, LinterNext, SkipsSuperseded

LEMMA RidsInit == Init => RidsOrdered
<1>. SUFFICES ASSUME Init PROVE RidsOrdered
  OBVIOUS
<1>1. Held = {}
  BY DEF Init, Q!AbsInit, Held, Working
<1>. QED
  BY <1>1 DEF Init, RidsOrdered

(***************************************************************************)
(* "Ignore results that are not the last one issued": a request made       *)
(* before the view's last timer fired is never reported after it, though   *)
(* remove_uid gives up while the thread is inside get.                     *)
(***************************************************************************)
THEOREM SupersededCorrect == Spec => SupersededRunIgnored
<1>1. SkipsSuperseded => [SkipsSuperseded]_vars
  OBVIOUS
<1>2. SupersededRunIgnored <=> [][SkipsSuperseded]_vars
  BY DEF SupersededRunIgnored, SkipsSuperseded
<1>. QED
  BY <1>1, <1>2, RidsInit, LintTypeCorrect, RidsNext, PTL DEF Spec


-----------------------------------------------------------------------------
(***************************************************************************)
(* For one view, what was asked for later is not older, and nothing that   *)
(* is still to be reported is older than what was reported.                *)
(***************************************************************************)
Ver(x) == request[x.num].ver

QueueOrdered ==
    \A i, j \in DOMAIN queue :
        i < j /\ queue[i] # Quit /\ queue[j] # Quit /\ queue[i].uid = queue[j].uid
            => Ver(queue[i]) <= Ver(queue[j])

GotIsOldest ==
    Working => \A j \in DOMAIN queue :
        queue[j] # Quit /\ queue[j].uid = got.uid => Ver(got) <= Ver(queue[j])

HeldBetween ==
    /\ \A v \in Views : reported[v] <= doc[v]
    /\ \A x \in Held : reported[x.uid] <= Ver(x) /\ Ver(x) <= doc[x.uid]

VersionsOrdered == QueueOrdered /\ GotIsOldest /\ HeldBetween

LEMMA VersionTypes ==
    ASSUME TypeOK
    PROVE  /\ \A v \in Views : doc[v] \in Nat /\ reported[v] \in Int
           /\ \A n \in 1..MaxRequests : request[n].ver \in Nat
<1>1. Versions \subseteq Nat /\ Versions \cup {-1} \subseteq Int
  BY Bounds DEF Versions
<1>2. \A v \in Views : doc[v] \in Versions /\ reported[v] \in Versions \cup {-1}
  BY DEF TypeOK
<1>3. \A n \in 1..MaxRequests : request[n].ver \in Versions
  BY DEF TypeOK
<1>. QED
  BY <1>1, <1>2, <1>3

LEMMA SubqueueOrdered ==
    ASSUME QueueOrdered, GotIsOldest, UNCHANGED <<request, got>>, Working' => Working,
           \A j \in DOMAIN queue' :
               queue'[j] = Quit \/ \E i \in DOMAIN queue : queue'[j] = queue[i],
           \A j, k \in DOMAIN queue' : j < k =>
               \/ queue'[j] = Quit \/ queue'[k] = Quit
               \/ \E a, b \in DOMAIN queue : a < b /\ queue'[j] = queue[a] /\ queue'[k] = queue[b]
    PROVE  QueueOrdered' /\ GotIsOldest'
<1>1. QueueOrdered'
  BY DEF QueueOrdered, Ver
<1>2. GotIsOldest'
  BY DEF GotIsOldest, Ver
<1>. QED
  BY <1>1, <1>2

LEMMA IssueOrdered ==
    ASSUME TypeOK, TypeOK', RidsOrdered, VersionsOrdered,
           NEW v \in Views, NEW rid, NEW pending \in Seq(Item),
           \A j \in DOMAIN pending : \E i \in DOMAIN queue : pending[j] = queue[i],
           \A j, k \in DOMAIN pending : j < k =>
               \E a, b \in DOMAIN queue :
                   a < b /\ pending[j] = queue[a] /\ pending[k] = queue[b],
           IssueRequest(v, rid, pending), UNCHANGED <<manager, doc, reported>>
    PROVE  VersionsOrdered'
<1>1. /\ Held' \subseteq Held \cup {Issued(v)}
      /\ issued' = issued + 1 /\ issued + 1 \in 1..MaxRequests
      /\ Issued(v) \in Request
      /\ request'[issued + 1] = [rid |-> rid, ver |-> doc[v]]
      /\ \A n \in 1..MaxRequests : n <= issued => request'[n] = request[n]
  <2>1. UNCHANGED manager
    OBVIOUS
  <2>. HIDE DEF Held, Issued
  <2>. QED
    BY <2>1, HeldIssue
<1>2. /\ \A x \in Held : /\ x \in Request /\ x.uid \in Views /\ x.num \in 1..MaxRequests
                         /\ x.num <= issued /\ request'[x.num] = request[x.num]
      /\ Issued(v).uid = v /\ request'[Issued(v).num].ver = doc[v]
  <2>1. Held \subseteq Request
    BY DEF Held
  <2>2. \A x \in Request : x.uid \in Views /\ x.num \in 1..MaxRequests
    BY DEF Request, Views
  <2>3. \A x \in Held : x.num <= issued
    BY DEF RidsOrdered
  <2>4. Issued(v).uid = v /\ Issued(v).num = issued + 1
    BY DEF Issued
  <2>. QED
    BY <1>1, <2>1, <2>2, <2>3, <2>4
<1>3. /\ \A w \in Views : doc[w] \in Nat /\ reported[w] \in Int
      /\ \A n \in 1..MaxRequests : request[n].ver \in Nat
  BY VersionTypes
<1>4. HeldBetween'
  <2>1. \A w \in Views : reported'[w] <= doc'[w]
    BY DEF VersionsOrdered, HeldBetween
  <2>2. \A x \in Held : /\ reported[x.uid] <= request'[x.num].ver
                       /\ request'[x.num].ver <= doc[x.uid]
    BY <1>2 DEF VersionsOrdered, HeldBetween, Ver
  <2>3. LET x == Issued(v) IN /\ reported[x.uid] <= request'[x.num].ver
                              /\ request'[x.num].ver <= doc[x.uid]
    BY <1>2, <1>3 DEF VersionsOrdered, HeldBetween
  <2>4. Held' \subseteq Held \cup {Issued(v)} /\ UNCHANGED <<doc, reported>>
    BY <1>1
  <2>. HIDE DEF Issued, Held
  <2>5. \A x \in Held' : /\ reported'[x.uid] <= request'[x.num].ver
                        /\ request'[x.num].ver <= doc'[x.uid]
    BY <2>2, <2>3, <2>4
  <2>. QED
    BY <2>1, <2>5 DEF HeldBetween, Ver
<1>5. queue' = Append(pending, Issued(v)) /\ got' = got /\ (Working' <=> Working)
  BY DEF IssueRequest, Issued, Working
<1>6. \A i \in DOMAIN queue : queue[i] # Quit => queue[i] \in Held
  <2>1. queue \in Seq(Item)
    BY DEF TypeOK
  <2>2. \A i \in DOMAIN queue : queue[i] \in Item
    BY <2>1
  <2>. QED
    BY <2>2 DEF Held, Item
<1>7. /\ DOMAIN queue' = 1..(Len(pending) + 1) /\ DOMAIN pending = 1..Len(pending)
      /\ Len(pending) \in Nat
      /\ \A j \in DOMAIN pending : queue'[j] = pending[j]
      /\ queue'[Len(pending) + 1] = Issued(v)
  BY <1>1, <1>5 DEF Item
<1>8. \A k \in DOMAIN queue' : k \in DOMAIN pending \/ k = Len(pending) + 1
  BY <1>7
<1>9. \A j, k \in DOMAIN queue' : j < k => j \in DOMAIN pending
  BY <1>7
<1>. DEFINE Old(x) == x # Quit => /\ x \in Held /\ request'[x.num].ver = request[x.num].ver
                                  /\ request[x.num].ver <= doc[x.uid]
<1>10. \A j \in DOMAIN pending : Old(queue'[j])
  BY <1>2, <1>6, <1>7 DEF VersionsOrdered, HeldBetween, Ver
<1>11. QueueOrdered'
  <2>. SUFFICES ASSUME NEW j \in DOMAIN queue', NEW k \in DOMAIN queue', j < k,
                       queue'[j] # Quit, queue'[k] # Quit, queue'[j].uid = queue'[k].uid
                PROVE  request'[queue'[j].num].ver <= request'[queue'[k].num].ver
    BY DEF QueueOrdered, Ver
  <2>1. j \in DOMAIN pending /\ Old(queue'[j])
    BY <1>9, <1>10
  <2>2. CASE k \in DOMAIN pending
    <3>1. PICK a \in DOMAIN queue, b \in DOMAIN queue :
            a < b /\ queue'[j] = queue[a] /\ queue'[k] = queue[b]
      BY <1>7, <2>1, <2>2
    <3>. QED
      BY <1>10, <2>1, <2>2, <3>1 DEF VersionsOrdered, QueueOrdered, Ver
  <2>3. CASE k = Len(pending) + 1
    BY <1>2, <1>7, <2>1, <2>3
  <2>. QED
    BY <1>8, <2>2, <2>3
<1>12. GotIsOldest'
  <2>. SUFFICES ASSUME Working', NEW k \in DOMAIN queue', queue'[k] # Quit,
                       queue'[k].uid = got'.uid
                PROVE  request'[got'.num].ver <= request'[queue'[k].num].ver
    BY DEF GotIsOldest, Ver
  <2>1. got' = got /\ Working /\ got \in Held /\ Old(got)
    BY <1>2, <1>5 DEF Held, Working, TypeOK, VersionsOrdered, HeldBetween, Ver
  <2>2. CASE k \in DOMAIN pending
    <3>1. PICK i \in DOMAIN queue : queue'[k] = queue[i]
      BY <1>7, <2>2
    <3>2. request[got.num].ver <= request[queue[i].num].ver
      BY <2>1, <3>1 DEF VersionsOrdered, GotIsOldest, Ver
    <3>3. request'[queue'[k].num].ver = request[queue'[k].num].ver
      BY <1>10, <2>2
    <3>4. request'[got.num].ver = request[got.num].ver
      BY <1>2, <2>1
    <3>. QED
      BY <2>1, <3>1, <3>2, <3>3, <3>4
  <2>3. CASE k = Len(pending) + 1
    <3>1. got # Quit
      BY <2>1, QuitAssumption, <1>2
    <3>. QED
      BY <1>2, <1>7, <2>1, <2>3, <3>1
  <2>. QED
    BY <1>8, <2>2, <2>3
<1>. QED
  BY <1>4, <1>11, <1>12 DEF VersionsOrdered

NeverOlder == \A v \in Views : reported'[v] >= reported[v]

LEMMA VersionsNext ==
    TypeOK /\ TypeOK' /\ RidsOrdered /\ VersionsOrdered /\ [Next]_vars
        => VersionsOrdered' /\ NeverOlder
<1>. SUFFICES ASSUME TypeOK, TypeOK', RidsOrdered, VersionsOrdered, [Next]_vars
              PROVE  VersionsOrdered' /\ NeverOlder
  OBVIOUS
<1>. QueueOrdered /\ GotIsOldest /\ HeldBetween
  BY DEF VersionsOrdered
<1>1. /\ \A v \in Views : doc[v] \in Nat /\ reported[v] \in Int
      /\ \A n \in 1..MaxRequests : request[n].ver \in Nat
  BY VersionTypes
<1>2. \A x \in Request : x.uid \in Views /\ x.num \in 1..MaxRequests
  BY DEF Request, Views
<1>3. Held \subseteq Request
  BY DEF Held
<1>4. ASSUME UNCHANGED reported PROVE NeverOlder
  BY <1>1, <1>4 DEF NeverOlder
<1>5. ASSUME UNCHANGED <<reported, issued>>,
             \A v \in Views : doc'[v] \in Nat /\ doc[v] <= doc'[v]
      PROVE  HeldBetween'
  <2>1. \A x \in Held' : x \in Held /\ x.uid \in Views /\ x.num \in 1..MaxRequests
    BY <1>2, <1>3, <1>5, HeldShrinks
  <2>2. UNCHANGED request
    BY <1>5, HeldShrinks
  <2>. QED
    BY <1>1, <1>5, <2>1, <2>2 DEF HeldBetween, Ver
<1>6. \A v \in Views : doc[v] <= doc[v]
  BY <1>1
<1>7. ASSUME UNCHANGED <<queue, got, request>>, Working' => Working
      PROVE  QueueOrdered' /\ GotIsOldest'
  BY <1>7, SubqueueOrdered
<1>8. ASSUME NEW v \in Views, queue' = CancelledQueue(v),
             UNCHANGED <<got, request, manager>>
      PROVE  QueueOrdered' /\ GotIsOldest'
  <2>1. queue \in Seq(Item)
    BY DEF TypeOK
  <2>2. /\ \A j \in DOMAIN queue' : \E i \in DOMAIN queue : queue'[j] = queue[i]
        /\ \A j, k \in DOMAIN queue' : j < k =>
             \E a, b \in DOMAIN queue : a < b /\ queue'[j] = queue[a] /\ queue'[k] = queue[b]
    BY <1>8, <2>1, CancelledQueueKeeps
  <2>3. Working' => Working
    BY <1>8 DEF Working
  <2>. QED
    BY <1>8, <2>2, <2>3, SubqueueOrdered
<1>. USE DEF queueVars, serviceVars, countVars, historyVars, uiVars
<1>9. ASSUME NEW v \in Views, Edit(v) PROVE VersionsOrdered' /\ NeverOlder
  <2>1. \A w \in Views : doc'[w] \in Nat /\ doc[w] <= doc'[w]
    <3>1. doc' = [doc EXCEPT ![v] = @ + 1]
      BY <1>9 DEF Edit
    <3>2. \A w \in Views : doc'[w] = IF w = v THEN doc[w] + 1 ELSE doc[w]
      BY <3>1 DEF TypeOK
    <3>. QED
      BY <1>1, <3>2
  <2>2. UNCHANGED <<queue, got, request, manager, reported, issued>>
    BY <1>9 DEF Edit
  <2>3. Working' => Working
    BY <2>2 DEF Working
  <2>. QED
    BY <1>4, <1>5, <1>7, <2>1, <2>2, <2>3 DEF VersionsOrdered
<1>10. ASSUME NEW v \in Views,
              \/ LinterPrefChanged(v) \/ ClearCommand(v) \/ SwitchOn(v) \/ DisplayClear(v)
              \/ Scroll(v)
       PROVE  VersionsOrdered' /\ NeverOlder
  <2>1. UNCHANGED <<queue, got, request, manager, reported, issued, doc>>
    BY <1>10 DEF LinterPrefChanged, ClearCommand, SwitchOn, DisplayClear, Scroll
  <2>2. Working' => Working
    BY <2>1 DEF Working
  <2>. QED
    BY <1>1, <1>4, <1>5, <1>6, <1>7, <2>1, <2>2 DEF VersionsOrdered
<1>11. ASSUME NEW v \in Views, SwitchOff(v) \/ Close(v)
       PROVE  VersionsOrdered' /\ NeverOlder
  <2>1. queue' = CancelledQueue(v)
        /\ UNCHANGED <<got, request, manager, reported, issued, doc>>
    BY <1>11 DEF SwitchOff, Close
  <2>. QED
    BY <1>1, <1>4, <1>5, <1>6, <1>8, <2>1 DEF VersionsOrdered
<1>12. ASSUME NEW v \in Views, LintNow(v) PROVE VersionsOrdered' /\ NeverOlder
  <2>1. /\ IssueRequest(v, lastRequestId[v], queue) /\ queue \in Seq(Item)
        /\ UNCHANGED <<manager, doc, reported>>
    BY <1>12 DEF LintNow, TypeOK
  <2>2. /\ \A j \in DOMAIN queue : \E i \in DOMAIN queue : queue[j] = queue[i]
        /\ \A j, k \in DOMAIN queue : j < k =>
             \E a, b \in DOMAIN queue : a < b /\ queue[j] = queue[a] /\ queue[k] = queue[b]
    OBVIOUS
  <2>3. VersionsOrdered'
    BY <2>1, <2>2, IssueOrdered
  <2>. QED
    BY <1>4, <2>1, <2>3
<1>13. ASSUME NEW v \in Views, ContinueRequest(v) PROVE VersionsOrdered' /\ NeverOlder
  <2>1. UNCHANGED <<manager, doc, reported>>
    BY <1>13 DEF ContinueRequest
  <2>2. CASE IssueRequest(v, lastTimeoutId[v], CancelledQueue(v))
    <3>1. queue \in Seq(Item)
      BY DEF TypeOK
    <3>2. CancelledQueue(v) \in Seq(Item)
      BY <3>1, CancelledQueueType
    <3>3. LET w == CancelledQueue(v) IN
          /\ \A j \in DOMAIN w : \E i \in DOMAIN queue : w[j] = queue[i]
          /\ \A j, k \in DOMAIN w : j < k =>
               \E a, b \in DOMAIN queue : a < b /\ w[j] = queue[a] /\ w[k] = queue[b]
      BY <3>1, CancelledQueueKeeps
    <3>4. VersionsOrdered'
      <4>. HIDE DEF CancelledQueue
      <4>. QED
        BY <2>1, <2>2, <3>2, <3>3, IssueOrdered
    <3>. QED
      BY <1>4, <2>1, <3>4
  <2>3. CASE UNCHANGED <<queueVars, request, issued>>
    <3>1. Working' => Working
      BY <2>1 DEF Working
    <3>. QED
      BY <1>1, <1>4, <1>5, <1>6, <1>7, <2>1, <2>3, <3>1 DEF VersionsOrdered
  <2>. QED
    BY <1>13, <2>2, <2>3 DEF ContinueRequest
<1>14. ASSUME Terminate PROVE VersionsOrdered' /\ NeverOlder
  <2>1. /\ queue' = <<Quit>> \o queue
        /\ UNCHANGED <<got, request, manager, reported, issued, doc>>
    BY <1>14 DEF Terminate, Q!AbsPrepend
  <2>2. /\ DOMAIN queue' = 1..(Len(queue) + 1) /\ DOMAIN queue = 1..Len(queue)
        /\ Len(queue) \in Nat /\ queue'[1] = Quit
        /\ \A j \in DOMAIN queue' : j = 1 \/ queue'[j] = queue[j - 1]
    BY <2>1 DEF TypeOK, Item
  <2>3. \A j \in DOMAIN queue' :
          queue'[j] = Quit \/ \E i \in DOMAIN queue : queue'[j] = queue[i]
    BY <2>2
  <2>4. \A j, k \in DOMAIN queue' : j < k =>
          \/ queue'[j] = Quit \/ queue'[k] = Quit
          \/ \E a, b \in DOMAIN queue : a < b /\ queue'[j] = queue[a] /\ queue'[k] = queue[b]
    <3>. SUFFICES ASSUME NEW j \in DOMAIN queue', NEW k \in DOMAIN queue', j < k,
                         queue'[j] # Quit, queue'[k] # Quit
                  PROVE  \E a, b \in DOMAIN queue :
                           a < b /\ queue'[j] = queue[a] /\ queue'[k] = queue[b]
      OBVIOUS
    <3>1. /\ j - 1 \in DOMAIN queue /\ k - 1 \in DOMAIN queue /\ j - 1 < k - 1
          /\ queue'[j] = queue[j - 1] /\ queue'[k] = queue[k - 1]
      BY <2>2
    <3>. QED
      BY <3>1
  <2>5. Working' => Working
    BY <2>1 DEF Working
  <2>6. QueueOrdered' /\ GotIsOldest'
    BY <2>1, <2>3, <2>4, <2>5, SubqueueOrdered
  <2>. QED
    BY <1>1, <1>4, <1>5, <1>6, <2>1, <2>6 DEF VersionsOrdered
<1>15. ASSUME GetBegin PROVE VersionsOrdered' /\ NeverOlder
  <2>1. UNCHANGED <<queue, got, request, reported, issued, doc>> /\ ~Working'
    BY <1>15 DEF GetBegin, Q!AbsReserve, Working
  <2>. QED
    BY <1>1, <1>4, <1>5, <1>6, <1>7, <2>1 DEF VersionsOrdered
<1>16. ASSUME GetEnd PROVE VersionsOrdered' /\ NeverOlder
  <2>1. /\ queue # <<>> /\ got' = Head(queue) /\ queue' = Tail(queue)
        /\ UNCHANGED <<request, reported, issued, doc>>
    BY <1>16 DEF GetEnd, Q!AbsGet
  <2>2. /\ got' = queue[1] /\ 1 \in DOMAIN queue
        /\ \A j \in DOMAIN queue' : queue'[j] = queue[j + 1] /\ j + 1 \in DOMAIN queue
        /\ \A j \in DOMAIN queue' : j \in Nat /\ 1 < j + 1
    BY <2>1 DEF TypeOK
  <2>3. \A j, k \in DOMAIN queue' : j < k => j + 1 < k + 1
    BY <2>2
  <2>4. QueueOrdered'
    BY <2>1, <2>2, <2>3 DEF QueueOrdered, Ver
  <2>5. Working' => got' # Quit
    BY <1>16 DEF GetEnd, Working
  <2>6. GotIsOldest'
    BY <2>1, <2>2, <2>5 DEF QueueOrdered, GotIsOldest, Ver
  <2>. QED
    BY <1>1, <1>4, <1>5, <1>6, <2>1, <2>4, <2>6 DEF VersionsOrdered
<1>17. ASSUME Lint PROVE VersionsOrdered' /\ NeverOlder
  <2>1. UNCHANGED <<queue, got, request, reported, issued, doc>> /\ Working
    BY <1>17 DEF Lint, Working
  <2>. QED
    BY <1>1, <1>4, <1>5, <1>6, <1>7, <2>1 DEF VersionsOrdered
<1>18. ASSUME Report PROVE VersionsOrdered' /\ NeverOlder
  <2>1. /\ UNCHANGED <<queue, got, request, issued, doc>> /\ Working /\ ~Working'
        /\ got \in Held /\ got.uid \in Views /\ got.num \in 1..MaxRequests
    BY <1>18, <1>2 DEF Report, Working, Held, TypeOK
  <2>2. QueueOrdered' /\ GotIsOldest'
    BY <1>7, <2>1
  <2>3. CASE reported' = [reported EXCEPT ![got.uid] = request[got.num].ver]
    <3>1. \A w \in Views : reported'[w] = IF w = got.uid THEN Ver(got) ELSE reported[w]
      BY <2>3 DEF TypeOK, Ver
    <3>2. reported[got.uid] <= Ver(got) /\ Ver(got) <= doc[got.uid] /\ Ver(got) \in Nat
      BY <1>1, <2>1 DEF HeldBetween, Ver
    <3>3. NeverOlder
      BY <1>1, <3>1, <3>2 DEF NeverOlder
    <3>4. \A x \in Held' : \E i \in DOMAIN queue : queue[i] = x /\ x # Quit
      BY <2>1, QuitAssumption DEF Held
    <3>5. \A x \in Held' : x.uid = got.uid => Ver(got) <= Ver(x)
      BY <2>1, <3>4 DEF GotIsOldest
    <3>6. \A x \in Held' : /\ x \in Held /\ x.uid \in Views
                           /\ reported[x.uid] <= Ver(x) /\ Ver(x) <= doc[x.uid]
      BY <1>2, <1>3, <2>1, HeldShrinks DEF HeldBetween
    <3>7. \A x : Ver(x)' = request[x.num].ver
      BY <2>1 DEF Ver
    <3>8. \A x \in Held' : reported'[x.uid] <= request[x.num].ver /\ request[x.num].ver <= doc[x.uid]
      BY <3>1, <3>5, <3>6 DEF Ver
    <3>9. \A w \in Views : reported'[w] <= doc[w]
      BY <3>1, <3>2 DEF HeldBetween
    <3>10. HeldBetween'
      BY <2>1, <3>8, <3>9 DEF HeldBetween, Ver
    <3>. QED
      BY <2>2, <3>3, <3>10 DEF VersionsOrdered
  <2>4. CASE UNCHANGED reported
    BY <1>1, <1>4, <1>5, <1>6, <2>1, <2>2, <2>4 DEF VersionsOrdered
  <2>. QED
    BY <1>18, <2>3, <2>4 DEF Report
<1>19. ASSUME UNCHANGED vars PROVE VersionsOrdered' /\ NeverOlder
  <2>1. UNCHANGED <<queue, got, request, manager, reported, issued, doc>>
    BY <1>19 DEF vars
  <2>2. Working' => Working
    BY <2>1 DEF Working
  <2>. QED
    BY <1>1, <1>4, <1>5, <1>6, <1>7, <2>1, <2>2 DEF VersionsOrdered
<1>. QED
  BY <1>9, <1>10, <1>11, <1>12, <1>13, <1>14, <1>15, <1>16, <1>17, <1>18, <1>19
  DEF Next, MainNext, LinterNext

LEMMA VersionsInit == Init => VersionsOrdered
<1>. SUFFICES ASSUME Init PROVE VersionsOrdered
  OBVIOUS
<1>1. Held = {} /\ ~Working /\ queue = <<>>
  BY DEF Init, Q!AbsInit, Held, Working
<1>2. \A v \in Views : reported[v] = -1 /\ doc[v] = 0
  BY DEF Init
<1>. QED
  BY <1>1, <1>2 DEF VersionsOrdered, QueueOrdered, GotIsOldest, HeldBetween

(***************************************************************************)
(* The results of an older text never replace those of a newer one,        *)
(* whatever timers and doRequest calls ask for, though several requests    *)
(* may carry the same rid.                                                 *)
(***************************************************************************)
THEOREM ReportsCorrect == Spec => ReportsInOrder
<1>1. NeverOlder => [NeverOlder]_vars
  OBVIOUS
<1>2. ReportsInOrder <=> [][NeverOlder]_vars
  BY DEF ReportsInOrder, NeverOlder
<1>. QED
  BY <1>1, <1>2, RidsInit, VersionsInit, LintTypeCorrect, RidsNext, VersionsNext,
     PTL DEF Spec


-----------------------------------------------------------------------------
(***************************************************************************)
(* What makes the results of an open view current: the requests that carry *)
(* the rid the view expects have its present text, and one of them is held *)
(* unless the results are current already.                                 *)
(***************************************************************************)
OutcomeOfGot == manager = "reporting" => outcome \in {Ver(got), None}

Latest(v) == {x \in Held : x.uid = v /\ request[x.num].rid = lastRequestId[v]}

LatestView(v) ==
    /\ ~enabled[v] => off[v]
    /\ alive[v] /\ ~off[v] /\ ~shuttingDown /\ lastTimeoutId[v] = 0 =>
        /\ \A x \in Latest(v) : Ver(x) = doc[v]
        /\ lintResults[v] \in {None, doc[v]} \/ \E x \in Held : x \in Latest(v)

LatestCurrent == \A v \in Views : LatestView(v)

LEMMA OutcomeNext ==
    TypeOK /\ TypeOK' /\ RidsOrdered /\ OutcomeOfGot /\ [Next]_vars => OutcomeOfGot'
<1>. SUFFICES ASSUME TypeOK, TypeOK', RidsOrdered, OutcomeOfGot, [Next]_vars,
                     manager' = "reporting"
              PROVE  outcome' \in {request'[got'.num].ver, None}
  BY DEF OutcomeOfGot, Ver
<1>1. ASSUME UNCHANGED <<manager, outcome, got, request>>
      PROVE  outcome' \in {request'[got'.num].ver, None}
  BY <1>1 DEF OutcomeOfGot, Ver
<1>2. ASSUME NEW v \in Views, NEW rid, NEW pending, IssueRequest(v, rid, pending),
             UNCHANGED <<manager, outcome>>
      PROVE  outcome' \in {request'[got'.num].ver, None}
  <2>1. got \in Held /\ got.num \in 1..MaxRequests /\ got.num <= issued
    BY <1>2 DEF Held, Working, TypeOK, RidsOrdered, Request
  <2>2. got' = got /\ request'[got.num] = request[got.num]
    <3>1. got.num # issued + 1
      <4>1. issued \in 0..MaxRequests
        BY DEF TypeOK
      <4>2. issued \in Nat /\ got.num \in Nat
        BY <2>1, <4>1, Bounds
      <4>. QED
        BY <2>1, <4>2
    <3>2. got' = got
      BY <1>2 DEF IssueRequest
    <3>3. request' = [request EXCEPT ![issued + 1] = [rid |-> rid, ver |-> doc[v]]]
      BY <1>2 DEF IssueRequest
    <3>4. got.num \in DOMAIN request
      BY <2>1 DEF TypeOK
    <3>. QED
      BY <3>1, <3>2, <3>3, <3>4
  <2>. QED
    BY <1>2, <2>2 DEF OutcomeOfGot, Ver
<1>. USE DEF queueVars, serviceVars, countVars, uiVars
<1>3. ASSUME NEW v \in Views,
             \/ Edit(v) \/ LinterPrefChanged(v) \/ ClearCommand(v) \/ SwitchOff(v)
             \/ SwitchOn(v) \/ Close(v) \/ DisplayClear(v) \/ Scroll(v)
      PROVE  outcome' \in {request'[got'.num].ver, None}
  <2>1. UNCHANGED <<manager, outcome, got, request>>
    BY <1>3 DEF Edit, LinterPrefChanged, ClearCommand, SwitchOff, SwitchOn, Close,
       DisplayClear, Scroll
  <2>. QED
    BY <1>1, <2>1
<1>4. ASSUME NEW v \in Views, LintNow(v) \/ ContinueRequest(v)
      PROVE  outcome' \in {request'[got'.num].ver, None}
  BY <1>1, <1>2, <1>4 DEF LintNow, ContinueRequest
<1>5. ASSUME Terminate PROVE outcome' \in {request'[got'.num].ver, None}
  BY <1>1, <1>5 DEF Terminate, Q!AbsPrepend
<1>6. ASSUME GetBegin \/ GetEnd \/ Report
      PROVE  outcome' \in {request'[got'.num].ver, None}
  BY <1>6 DEF GetBegin, GetEnd, Report
<1>7. ASSUME Lint PROVE outcome' \in {request'[got'.num].ver, None}
  BY <1>7 DEF Lint
<1>8. ASSUME UNCHANGED vars PROVE outcome' \in {request'[got'.num].ver, None}
  BY <1>1, <1>8 DEF vars
<1>. QED
  BY <1>3, <1>4, <1>5, <1>6, <1>7, <1>8 DEF Next, MainNext, LinterNext

\* What a step that leaves a view's requests alone does to the other facts.
RequestsKept(w) ==
    /\ \A x \in Held' : x.uid = w => x \in Held
    /\ \A x \in Held : x.uid = w => x \in Held' /\ request'[x.num] = request[x.num]

LEMMA ViewKept ==
    ASSUME NEW w \in Views, LatestView(w), RequestsKept(w),
           lastRequestId'[w] = lastRequestId[w], doc'[w] = doc[w],
           ~enabled'[w] => off'[w],
           alive'[w] => alive[w],
           ~off'[w] => ~off[w],
           ~shuttingDown' => ~shuttingDown,
           lastTimeoutId'[w] = 0 => lastTimeoutId[w] = 0,
           lintResults'[w] \in {lintResults[w], None}
    PROVE  LatestView(w)'
<1>1. \A x \in Held' : x \in Latest(w)' => x \in Latest(w) /\ request'[x.num] = request[x.num]
  BY DEF Latest, RequestsKept
<1>2. \A x \in Latest(w) : x \in Held' /\ x \in Latest(w)'
  BY DEF Latest, RequestsKept
<1>3. \A x \in Latest(w)' : x \in Held'
  BY DEF Latest
<1>. SUFFICES ASSUME alive'[w], ~off'[w], ~shuttingDown', lastTimeoutId'[w] = 0
              PROVE  /\ \A x \in Latest(w)' : request'[x.num].ver = doc'[w]
                     /\ \/ lintResults'[w] \in {None, doc'[w]}
                        \/ \E x \in Held' : x \in Latest(w)'
  BY DEF LatestView, Ver
<1>4. \A x \in Latest(w) : request[x.num].ver = doc[w]
  BY DEF LatestView, Ver
<1>5. lintResults[w] \in {None, doc[w]} \/ \E x \in Held : x \in Latest(w)
  BY DEF LatestView
<1>6. \A x \in Latest(w)' : request'[x.num].ver = doc'[w]
  BY <1>1, <1>3, <1>4
<1>. QED
  BY <1>2, <1>5, <1>6

LEMMA HeldStays ==
    ASSUME TypeOK, NEW w \in Views,
           \A i \in DOMAIN queue : queue[i] # Quit /\ queue[i].uid = w =>
               \E j \in DOMAIN queue' : queue'[j] = queue[i],
           Working /\ got.uid = w => Working' /\ got' = got
    PROVE  \A x \in Held : x.uid = w => x \in Held'
BY QuitAssumption DEF Held


(***************************************************************************)
(* What is done for one view leaves the requests of the others.            *)
(***************************************************************************)
LEMMA KeptByStutter ==
    ASSUME NEW w \in Views, UNCHANGED <<queue, got, manager, request, issued>>
    PROVE  RequestsKept(w)
BY DEF RequestsKept, Held, Working

LEMMA KeptByCancel ==
    ASSUME TypeOK, TypeOK', [Next]_vars, NEW w \in Views, NEW v \in Views, v # w,
           queue' = CancelledQueue(v), UNCHANGED <<got, manager, request, issued>>
    PROVE  RequestsKept(w)
<1>1. queue \in Seq(Item)
  BY DEF TypeOK
<1>2. \A i \in DOMAIN queue : queue[i] # Quit /\ queue[i].uid = w =>
        \E j \in DOMAIN queue' : queue'[j] = queue[i]
  BY <1>1, CancelledQueueKeeps
<1>3. Working /\ got.uid = w => Working' /\ got' = got
  BY DEF Working
<1>. QED
  BY <1>2, <1>3, HeldShrinks, HeldStays DEF RequestsKept

LEMMA HeldByIssue ==
    ASSUME TypeOK, TypeOK', RidsOrdered, NEW w \in Views, NEW v \in Views,
           NEW rid, NEW pending \in Seq(Item),
           \A j \in DOMAIN pending : \E i \in DOMAIN queue : pending[j] = queue[i],
           IssueRequest(v, rid, pending), UNCHANGED manager,
           \A i \in DOMAIN queue : queue[i] # Quit /\ queue[i].uid = w =>
               \E j \in DOMAIN pending : pending[j] = queue[i]
    PROVE  \A x \in Held : x.uid = w => x \in Held' /\ request'[x.num] = request[x.num]
<1>1. Held \subseteq Request /\ \A x \in Held : x.num \in 1..MaxRequests
  BY DEF Held, Request
<1>2. \A n \in 1..MaxRequests : n <= issued => request'[n] = request[n]
  BY HeldIssue
<1>3. \A x \in Held : request'[x.num] = request[x.num]
  BY <1>1, <1>2 DEF RidsOrdered
<1>4. \A j \in DOMAIN pending : j \in DOMAIN queue' /\ queue'[j] = pending[j]
  BY DEF IssueRequest
<1>5. \A i \in DOMAIN queue : queue[i] # Quit /\ queue[i].uid = w =>
        \E j \in DOMAIN queue' : queue'[j] = queue[i]
  BY <1>4
<1>6. Working /\ got.uid = w => Working' /\ got' = got
  BY DEF Working, IssueRequest
<1>. QED
  BY <1>3, <1>5, <1>6, HeldStays

LEMMA KeptByIssue ==
    ASSUME TypeOK, TypeOK', RidsOrdered, NEW w \in Views, NEW v \in Views, v # w,
           NEW rid, NEW pending \in Seq(Item),
           \A j \in DOMAIN pending : \E i \in DOMAIN queue : pending[j] = queue[i],
           IssueRequest(v, rid, pending), UNCHANGED manager,
           \A i \in DOMAIN queue : queue[i] # Quit /\ queue[i].uid = w =>
               \E j \in DOMAIN pending : pending[j] = queue[i]
    PROVE  RequestsKept(w)
<1>1. Held' \subseteq Held \cup {Issued(v)}
  BY HeldIssue
<1>2. Issued(v).uid # w
  BY DEF Issued
<1>. QED
  BY <1>1, <1>2, HeldByIssue DEF RequestsKept

\* Only what concerns a view itself takes a request of it away or adds one.
LEMMA StepKeepsRequests ==
    ASSUME TypeOK, TypeOK', RidsOrdered, [Next]_vars, NEW w \in Views, ~shuttingDown',
           ~(ContinueRequest(w) \/ LintNow(w) \/ SwitchOff(w) \/ Close(w)),
           ~(Report /\ got.uid = w)
    PROVE  RequestsKept(w)
<1>. USE DEF queueVars, serviceVars, countVars, historyVars, uiVars
<1>1. ASSUME NEW v \in Views,
             \/ Edit(v) \/ LinterPrefChanged(v) \/ ClearCommand(v) \/ SwitchOn(v)
             \/ DisplayClear(v) \/ Scroll(v)
      PROVE  RequestsKept(w)
  BY <1>1, KeptByStutter
  DEF Edit, LinterPrefChanged, ClearCommand, SwitchOn, DisplayClear, Scroll
<1>2. ASSUME NEW v \in Views, v # w, SwitchOff(v) \/ Close(v) PROVE RequestsKept(w)
  BY <1>2, KeptByCancel DEF SwitchOff, Close
<1>3. ASSUME NEW v \in Views, v # w, LintNow(v) PROVE RequestsKept(w)
  <2>1. IssueRequest(v, lastRequestId[v], queue) /\ queue \in Seq(Item) /\ UNCHANGED manager
    BY <1>3 DEF LintNow, TypeOK
  <2>2. \A i \in DOMAIN queue : \E j \in DOMAIN queue : queue[j] = queue[i]
    OBVIOUS
  <2>. QED
    BY <1>3, <2>1, <2>2, KeptByIssue
<1>4. ASSUME NEW v \in Views, v # w, ContinueRequest(v) PROVE RequestsKept(w)
  <2>1. UNCHANGED manager
    BY <1>4 DEF ContinueRequest
  <2>2. CASE IssueRequest(v, lastTimeoutId[v], CancelledQueue(v))
    <3>1. queue \in Seq(Item)
      BY DEF TypeOK
    <3>2. CancelledQueue(v) \in Seq(Item)
      BY <3>1, CancelledQueueType
    <3>3. LET q == CancelledQueue(v) IN
          /\ \A j \in DOMAIN q : \E i \in DOMAIN queue : q[j] = queue[i]
          /\ \A i \in DOMAIN queue : queue[i] # Quit /\ queue[i].uid = w =>
               \E j \in DOMAIN q : q[j] = queue[i]
      BY <1>4, <3>1, CancelledQueueKeeps
    <3>. HIDE DEF CancelledQueue
    <3>. QED
      BY <1>4, <2>1, <2>2, <3>2, <3>3, KeptByIssue
  <2>3. CASE UNCHANGED <<queueVars, request, issued>>
    BY <2>1, <2>3, KeptByStutter
  <2>. QED
    BY <1>4, <2>2, <2>3 DEF ContinueRequest
<1>5. ASSUME UNCHANGED issued, \A x \in Held : x.uid = w => x \in Held' PROVE RequestsKept(w)
  BY <1>5, HeldShrinks DEF RequestsKept
<1>6. ASSUME GetBegin PROVE RequestsKept(w)
  BY <1>5, <1>6 DEF GetBegin, Q!AbsReserve, Held, Working
<1>7. ASSUME GetEnd PROVE RequestsKept(w)
  <2>1. queue # <<>> /\ got' = Head(queue) /\ queue' = Tail(queue) /\ ~Working
        /\ (got' # Quit => Working')
    BY <1>7 DEF GetEnd, Q!AbsGet, Working
  <2>2. queue \in Seq(Item) /\ Len(queue) \in Nat /\ DOMAIN queue = 1..Len(queue)
    BY DEF TypeOK
  <2>3. got' = queue[1] /\ DOMAIN queue' = 1..(Len(queue) - 1)
    BY <2>1, <2>2
  <2>4. \A j \in 1..(Len(queue) - 1) : queue'[j] = queue[j + 1]
    BY <2>1, <2>2
  <2>5. \A i \in DOMAIN queue : i # 1 => i - 1 \in 1..(Len(queue) - 1) /\ (i - 1) + 1 = i
    BY <2>2
  <2>6. \A i \in DOMAIN queue :
          \/ i = 1 /\ queue[i] = got'
          \/ i - 1 \in DOMAIN queue' /\ queue'[i - 1] = queue[i]
    BY <2>3, <2>4, <2>5
  <2>7. \A x \in Held : x \in Held'
    BY <2>1, <2>6, QuitAssumption DEF Held
  <2>. QED
    BY <1>5, <1>7, <2>7 DEF GetEnd
<1>8. ASSUME Lint PROVE RequestsKept(w)
  <2>1. \A x \in Held : x \in Held'
    BY <1>8 DEF Lint, Held, Working
  <2>. QED
    BY <1>5, <1>8, <2>1 DEF Lint
<1>9. ASSUME Report, got.uid # w PROVE RequestsKept(w)
  <2>1. \A x \in Held : x.uid = w => x \in Held'
    BY <1>9 DEF Report, Held, Working
  <2>. QED
    BY <1>5, <1>9, <2>1 DEF Report
<1>10. ASSUME UNCHANGED vars PROVE RequestsKept(w)
  BY <1>10, KeptByStutter DEF vars
<1>. QED
  BY <1>1, <1>2, <1>3, <1>4, <1>6, <1>7, <1>8, <1>9, <1>10
  DEF Next, MainNext, LinterNext, Terminate


\* When its timer fires, a view waits for the request made then, and no other.
LEMMA ContinueLatest ==
    ASSUME TypeOK, TypeOK', RidsOrdered, NEW w \in Views, ContinueRequest(w), alive[w]
    PROVE  /\ Latest(w)' = {Issued(w)} /\ Issued(w) \in Held'
           /\ Issued(w).num = issued + 1
           /\ request'[issued + 1] = [rid |-> lastTimeoutId[w], ver |-> doc[w]]
<1>1. /\ lastTimeoutId[w] # 0
      /\ lastRequestId' = [lastRequestId EXCEPT ![w] = lastTimeoutId[w]]
      /\ IssueRequest(w, lastTimeoutId[w], CancelledQueue(w))
  BY DEF ContinueRequest
<1>2. UNCHANGED manager
  BY DEF ContinueRequest, serviceVars
<1>3. lastRequestId'[w] = lastTimeoutId[w]
  BY <1>1 DEF TypeOK
<1>4. queue \in Seq(Item)
  BY DEF TypeOK
<1>5. CancelledQueue(w) \in Seq(Item)
  BY <1>4, CancelledQueueType
<1>6. \A j \in DOMAIN CancelledQueue(w) :
        \E i \in DOMAIN queue : CancelledQueue(w)[j] = queue[i]
  BY <1>4, CancelledQueueKeeps
<1>7. Held \subseteq Request /\ \A x \in Held : x.num \in 1..MaxRequests
  BY DEF Held, Request
<1>. HIDE DEF CancelledQueue, Held, Issued
<1>8. /\ Held' \subseteq Held \cup {Issued(w)} /\ Issued(w) \in Held'
      /\ request'[issued + 1] = [rid |-> lastTimeoutId[w], ver |-> doc[w]]
      /\ \A n \in 1..MaxRequests : n <= issued => request'[n] = request[n]
  BY <1>1, <1>2, <1>5, <1>6, HeldIssue
<1>9. Issued(w).num = issued + 1 /\ Issued(w).uid = w
  BY DEF Issued
<1>10. \A x \in Held : request'[x.num] = request[x.num]
  BY <1>7, <1>8 DEF RidsOrdered
<1>11. \A x \in Held : x.uid = w => request[x.num].rid # lastTimeoutId[w]
  <2>1. \A n \in 1..MaxRequests : request[n].rid \in Nat
    BY Bounds DEF TypeOK
  <2>2. lastRequestId[w] \in Nat /\ lastTimeoutId[w] \in Nat
    BY Bounds DEF TypeOK
  <2>3. lastRequestId[w] < lastTimeoutId[w]
    BY <1>1 DEF RidsOrdered
  <2>4. \A x \in Held : x.uid = w => request[x.num].rid <= lastRequestId[w]
    BY DEF RidsOrdered
  <2>. QED
    BY <1>7, <2>1, <2>2, <2>3, <2>4
<1>12. \A x \in Latest(w)' : x \in Held' /\ x.uid = w /\ request'[x.num].rid = lastTimeoutId[w]
  BY <1>3 DEF Latest
<1>13. \A x \in Latest(w)' : x = Issued(w)
  BY <1>8, <1>10, <1>11, <1>12
<1>14. Issued(w) \in Latest(w)'
  <2>1. request'[Issued(w).num].rid = lastTimeoutId[w]
    BY <1>8, <1>9
  <2>. QED
    BY <1>3, <1>8, <1>9, <2>1 DEF Latest
<1>. QED
  BY <1>8, <1>9, <1>13, <1>14


LEMMA LatestNext ==
    TypeOK /\ TypeOK' /\ RidsOrdered /\ OutcomeOfGot /\ LatestCurrent /\ [Next]_vars
        => LatestCurrent'
<1>. SUFFICES ASSUME TypeOK, TypeOK', RidsOrdered, OutcomeOfGot, LatestCurrent,
                     [Next]_vars, NEW w \in Views
              PROVE  LatestView(w)'
  BY DEF LatestCurrent
<1>. LatestView(w)
  BY DEF LatestCurrent
<1>1. Held \subseteq Request /\ \A x \in Held : x.num \in 1..MaxRequests /\ x.uid \in Views
  BY DEF Held, Request, Views
<1>2. ASSUME UNCHANGED <<queue, got, manager, request, issued>> PROVE RequestsKept(w)
  BY <1>2, KeptByStutter
<1>3. ASSUME NEW v \in Views, v # w, queue' = CancelledQueue(v),
             UNCHANGED <<got, manager, request, issued>>
      PROVE  RequestsKept(w)
  BY <1>3, KeptByCancel
<1>4. ASSUME NEW v \in Views, NEW rid, NEW pending \in Seq(Item),
             \A j \in DOMAIN pending : \E i \in DOMAIN queue : pending[j] = queue[i],
             IssueRequest(v, rid, pending), UNCHANGED manager,
             \A i \in DOMAIN queue : queue[i] # Quit /\ queue[i].uid = w =>
                 \E j \in DOMAIN pending : pending[j] = queue[i]
      PROVE  \A x \in Held : x.uid = w => x \in Held' /\ request'[x.num] = request[x.num]
  BY <1>4, HeldByIssue
<1>5. ASSUME NEW v \in Views, v # w, NEW rid, NEW pending \in Seq(Item),
             \A j \in DOMAIN pending : \E i \in DOMAIN queue : pending[j] = queue[i],
             IssueRequest(v, rid, pending), UNCHANGED manager,
             \A i \in DOMAIN queue : queue[i] # Quit /\ queue[i].uid = w =>
                 \E j \in DOMAIN pending : pending[j] = queue[i]
      PROVE  RequestsKept(w)
  BY <1>5, KeptByIssue
<1>. USE DEF queueVars, serviceVars, displayVars, countVars, historyVars, uiVars
<1>6. ASSUME NEW v \in Views, ClearResults(v)
      PROVE  lintResults'[w] \in {lintResults[w], None}
  BY <1>6 DEF ClearResults, TypeOK
<1>7. ASSUME NEW v \in Views, NEW clear \in BOOLEAN, RequestLint(v, clear)
      PROVE  /\ lintResults'[w] \in {lintResults[w], None}
             /\ w = v => lastTimeoutId'[w] # 0
             /\ w # v => lastTimeoutId'[w] = lastTimeoutId[w]
  <2>1. lintResults'[w] \in {lintResults[w], None}
    BY <1>6, <1>7 DEF RequestLint
  <2>2. lastTimeoutId' = [lastTimeoutId EXCEPT ![v] = timers + 1] /\ timers \in Nat
    BY <1>7, Bounds DEF RequestLint, TypeOK
  <2>3. timers + 1 # 0
    BY <2>2
  <2>. QED
    BY <2>1, <2>2, <2>3 DEF TypeOK
<1>8. ASSUME NEW v \in Views, Edit(v) PROVE LatestView(w)'
  <2>1. /\ UNCHANGED <<queue, got, manager, request, issued, lastRequestId, enabled,
                       off, alive, shuttingDown>>
        /\ doc' = [doc EXCEPT ![v] = @ + 1]
    BY <1>8 DEF Edit
  <2>2. RequestsKept(w)
    BY <1>2, <2>1
  <2>3. enabled[w] \/ off[w]
    BY DEF LatestView
  <2>4. CASE w # v
    <3>1. doc'[w] = doc[w]
      BY <2>1, <2>4 DEF TypeOK
    <3>2. lastTimeoutId'[w] = lastTimeoutId[w] /\ lintResults'[w] \in {lintResults[w], None}
      BY <1>7, <1>8, <2>4 DEF Edit
    <3>. QED
      BY <2>1, <2>2, <2>3, <3>1, <3>2, ViewKept
  <2>5. CASE w = v
    <3>1. CASE enabled[v]
      <4>1. lastTimeoutId'[w] # 0
        BY <1>7, <1>8, <2>5, <3>1 DEF Edit
      <4>. QED
        BY <2>1, <2>3, <4>1 DEF LatestView
    <3>2. CASE ~enabled[v]
      <4>1. off'[w]
        BY <2>1, <2>3, <2>5, <3>2
      <4>. QED
        BY <4>1 DEF LatestView
    <3>. QED
      BY <3>1, <3>2
  <2>. QED
    BY <2>4, <2>5
<1>9. ASSUME NEW v \in Views, LinterPrefChanged(v) \/ SwitchOn(v)
      PROVE  LatestView(w)'
  <2>1. UNCHANGED <<queue, got, manager, request, issued, lastRequestId, doc,
                    off, alive, shuttingDown>>
    BY <1>9 DEF LinterPrefChanged, SwitchOn
  <2>2. RequestsKept(w)
    BY <1>2, <2>1
  <2>3. ~enabled'[w] => off'[w]
    <3>1. ~enabled'[w] => ~enabled[w]
      BY <1>9 DEF LinterPrefChanged, SwitchOn, TypeOK
    <3>. QED
      BY <2>1, <3>1 DEF LatestView
  <2>4. /\ lintResults'[w] \in {lintResults[w], None}
        /\ lastTimeoutId'[w] = 0 => lastTimeoutId[w] = 0
    <3>1. CASE RequestLint(v, TRUE)
      BY <1>7, <3>1
    <3>2. CASE UNCHANGED <<lintResults, lastTimeoutId>>
      BY <3>2
    <3>. QED
      BY <1>9, <3>1, <3>2 DEF LinterPrefChanged, SwitchOn
  <2>. QED
    BY <2>1, <2>2, <2>3, <2>4, ViewKept
<1>10. ASSUME NEW v \in Views, ClearCommand(v) \/ DisplayClear(v) \/ Scroll(v)
       PROVE  LatestView(w)'
  <2>1. UNCHANGED <<queue, got, manager, request, issued, lastRequestId, doc, enabled,
                    off, alive, shuttingDown, lastTimeoutId>>
    BY <1>10 DEF ClearCommand, DisplayClear, Scroll
  <2>2. lintResults'[w] \in {lintResults[w], None}
    BY <1>6, <1>10 DEF ClearCommand, DisplayClear, Scroll
  <2>3. RequestsKept(w)
    BY <1>2, <2>1
  <2>4. ~enabled[w] => off[w]
    BY DEF LatestView
  <2>. QED
    BY <2>1, <2>2, <2>3, <2>4, ViewKept
<1>11. ASSUME NEW v \in Views, SwitchOff(v) \/ Close(v) PROVE LatestView(w)'
  <2>1. /\ queue' = CancelledQueue(v)
        /\ UNCHANGED <<got, manager, request, issued, lastRequestId, doc,
                       shuttingDown, lastTimeoutId>>
        /\ lintResults'[w] \in {lintResults[w], None}
    BY <1>6, <1>11 DEF SwitchOff, Close
  <2>2. /\ w # v => enabled'[w] = enabled[w] /\ off'[w] = off[w] /\ alive'[w] = alive[w]
        /\ w = v => off'[w] \/ (~alive'[w] /\ enabled'[w] = enabled[w] /\ off'[w] = off[w])
    <3>1. CASE SwitchOff(v)
      <4>1. /\ enabled' = [enabled EXCEPT ![v] = FALSE]
            /\ off' = [off EXCEPT ![v] = TRUE] /\ alive' = alive
        BY <3>1 DEF SwitchOff
      <4>. QED
        BY <4>1 DEF TypeOK
    <3>2. CASE Close(v)
      <4>1. /\ enabled' = enabled /\ off' = off
            /\ alive' = [alive EXCEPT ![v] = FALSE]
        BY <3>2 DEF Close
      <4>. QED
        BY <4>1 DEF TypeOK
    <3>. QED
      BY <1>11, <3>1, <3>2
  <2>3. ~enabled[w] => off[w]
    BY DEF LatestView
  <2>4. CASE w # v
    <3>1. RequestsKept(w)
      BY <1>3, <2>1, <2>4
    <3>. QED
      BY <2>1, <2>2, <2>3, <2>4, <3>1, ViewKept
  <2>5. CASE w = v
    BY <2>2, <2>3, <2>5 DEF LatestView
  <2>. QED
    BY <2>4, <2>5
<1>12. ASSUME NEW v \in Views, LintNow(v) PROVE LatestView(w)'
  <2>1. /\ IssueRequest(v, lastRequestId[v], queue) /\ queue \in Seq(Item)
        /\ UNCHANGED <<manager, lastRequestId, doc, enabled, off, alive, shuttingDown,
                       lastTimeoutId, lintResults>>
    BY <1>12 DEF LintNow, TypeOK
  <2>2. UNCHANGED manager
    BY <2>1
  <2>3. /\ \A j \in DOMAIN queue : \E i \in DOMAIN queue : queue[j] = queue[i]
        /\ \A i \in DOMAIN queue : queue[i] # Quit /\ queue[i].uid = w =>
             \E j \in DOMAIN queue : queue[j] = queue[i]
    OBVIOUS
  <2>4. ~enabled[w] => off[w]
    BY DEF LatestView
  <2>5. CASE w # v
    <3>1. RequestsKept(w)
      BY <1>5, <2>1, <2>2, <2>3, <2>5
    <3>. QED
      BY <2>1, <2>4, <3>1, ViewKept
  <2>6. CASE w = v
    <3>. HIDE DEF Held, Issued
    <3>1. /\ Held' \subseteq Held \cup {Issued(v)}
          /\ request'[issued + 1] = [rid |-> lastRequestId[v], ver |-> doc[v]]
      BY <2>1, <2>2, <2>3, HeldIssue
    <3>2. \A x \in Held : x.uid = w => x \in Held' /\ request'[x.num] = request[x.num]
      BY <1>4, <2>1, <2>2, <2>3
    <3>3. Issued(v).num = issued + 1
      BY DEF Issued
    <3>4. ASSUME alive[w], ~off[w], ~shuttingDown, lastTimeoutId[w] = 0
          PROVE  /\ \A x \in Latest(w)' : request'[x.num].ver = doc[w]
                 /\ lintResults[w] \in {None, doc[w]} \/ \E x \in Held' : x \in Latest(w)'
      <4>1. /\ \A x \in Latest(w) : request[x.num].ver = doc[w]
            /\ lintResults[w] \in {None, doc[w]} \/ \E x \in Held : x \in Latest(w)
        BY <3>4 DEF LatestView, Ver
      <4>2. \A x \in Latest(w)' : x \in Held' /\ x.uid = w /\ request'[x.num].rid = lastRequestId[w]
        BY <2>1 DEF Latest
      <4>3. \A x \in Latest(w)' : x \in Latest(w) \/ x = Issued(v)
        BY <3>1, <3>2, <4>2 DEF Latest
      <4>4. \A x \in Latest(w)' : request'[x.num].ver = doc[w]
        <5>1. ASSUME NEW x \in Latest(w)', x \in Latest(w)
              PROVE  request'[x.num].ver = doc[w]
          BY <3>2, <4>1, <5>1 DEF Latest
        <5>2. request'[Issued(v).num].ver = doc[w]
          BY <2>6, <3>1, <3>3
        <5>. QED
          BY <4>3, <5>1, <5>2
      <4>5. \A x \in Latest(w) : x \in Held' /\ x \in Latest(w)'
        BY <2>1, <3>2 DEF Latest
      <4>. QED
        BY <4>1, <4>4, <4>5
    <3>. QED
      BY <2>1, <2>4, <3>4 DEF LatestView, Ver
  <2>. QED
    BY <2>5, <2>6
<1>13. ASSUME NEW v \in Views, ContinueRequest(v) PROVE LatestView(w)'
  <2>1. /\ lastTimeoutId[v] # 0
        /\ lastRequestId' = [lastRequestId EXCEPT ![v] = lastTimeoutId[v]]
        /\ lastTimeoutId' = [lastTimeoutId EXCEPT ![v] = 0]
        /\ UNCHANGED <<manager, doc, enabled, alive, shuttingDown, lintResults>>
    BY <1>13 DEF ContinueRequest
  <2>2. UNCHANGED manager
    BY <2>1
  <2>3. /\ w # v => lastRequestId'[w] = lastRequestId[w] /\ lastTimeoutId'[w] = lastTimeoutId[w]
        /\ lastRequestId'[v] = lastTimeoutId[v]
    BY <2>1 DEF TypeOK
  <2>4. ~enabled[w] => off[w]
    BY DEF LatestView
  <2>5. CASE /\ alive[v]
             /\ IssueRequest(v, lastTimeoutId[v], CancelledQueue(v))
             /\ off' = [off EXCEPT ![v] = @ /\ ~enabled[v]]
    <3>1. queue \in Seq(Item)
      BY DEF TypeOK
    <3>2. CancelledQueue(v) \in Seq(Item)
      BY <3>1, CancelledQueueType
    <3>3. \A j \in DOMAIN CancelledQueue(v) :
            \E i \in DOMAIN queue : CancelledQueue(v)[j] = queue[i]
      BY <3>1, CancelledQueueKeeps
    <3>4. \A i \in DOMAIN queue : queue[i] # Quit /\ queue[i].uid # v =>
            \E j \in DOMAIN CancelledQueue(v) : CancelledQueue(v)[j] = queue[i]
      BY <3>1, CancelledQueueKeeps
    <3>. HIDE DEF CancelledQueue, Held, Issued
    <3>5. CASE w # v
      <4>1. RequestsKept(w)
        BY <1>5, <2>2, <2>5, <3>2, <3>3, <3>4, <3>5
      <4>2. off'[w] = off[w]
        BY <2>5, <3>5 DEF TypeOK
      <4>. QED
        BY <2>1, <2>3, <2>4, <3>5, <4>1, <4>2, ViewKept
    <3>6. CASE w = v
      <4>1. /\ Latest(w)' = {Issued(w)} /\ Issued(w) \in Held'
            /\ request'[Issued(w).num].ver = doc[w]
        <5>1. ContinueRequest(w) /\ alive[w]
          BY <1>13, <2>5, <3>6
        <5>2. /\ Latest(w)' = {Issued(w)} /\ Issued(w) \in Held'
              /\ Issued(w).num = issued + 1
              /\ request'[issued + 1] = [rid |-> lastTimeoutId[w], ver |-> doc[w]]
          BY <5>1, ContinueLatest
        <5>. HIDE DEF Latest, Issued
        <5>. QED
          BY <5>2
      <4>2. \A x \in Latest(w)' : request'[x.num].ver = doc'[w]
        BY <2>1, <4>1
      <4>3. ~enabled'[w] => off'[w]
        BY <2>1, <2>4, <2>5, <3>6 DEF TypeOK
      <4>. QED
        BY <4>1, <4>2, <4>3 DEF LatestView, Ver
    <3>. QED
      BY <3>5, <3>6
  <2>6. CASE ~alive[v] /\ UNCHANGED <<queueVars, request, issued, off>>
    <3>1. CASE w # v
      <4>1. RequestsKept(w)
        BY <1>2, <2>2, <2>6
      <4>. QED
        BY <2>1, <2>3, <2>4, <2>6, <3>1, <4>1, ViewKept
    <3>2. CASE w = v
      BY <2>1, <2>4, <2>6, <3>2 DEF LatestView
    <3>. QED
      BY <3>1, <3>2
  <2>. QED
    BY <1>13, <2>5, <2>6 DEF ContinueRequest
<1>14. ASSUME Terminate PROVE LatestView(w)'
  <2>1. shuttingDown' /\ UNCHANGED <<enabled, off>>
    BY <1>14 DEF Terminate
  <2>. QED
    BY <2>1 DEF LatestView
<1>15. ASSUME UNCHANGED <<issued, lastRequestId, doc, enabled, off, alive, shuttingDown,
                          lastTimeoutId, lintResults>>,
              \A x \in Held : x.uid = w => x \in Held'
       PROVE  LatestView(w)'
  <2>1. RequestsKept(w)
    BY <1>15, HeldShrinks DEF RequestsKept
  <2>2. ~enabled[w] => off[w]
    BY DEF LatestView
  <2>. QED
    BY <1>15, <2>1, <2>2, ViewKept
<1>16. ASSUME GetBegin PROVE LatestView(w)'
  <2>1. \A x \in Held : x \in Held'
    BY <1>16 DEF GetBegin, Q!AbsReserve, Held, Working
  <2>. QED
    BY <1>15, <1>16, <2>1 DEF GetBegin
<1>17. ASSUME GetEnd PROVE LatestView(w)'
  <2>1. queue # <<>> /\ got' = Head(queue) /\ queue' = Tail(queue) /\ ~Working
        /\ (got' # Quit => Working')
    BY <1>17 DEF GetEnd, Q!AbsGet, Working
  <2>2. \A i \in DOMAIN queue :
          \/ i = 1 /\ queue[i] = got'
          \/ i - 1 \in DOMAIN queue' /\ queue'[i - 1] = queue[i]
    <3>1. queue \in Seq(Item) /\ Len(queue) \in Nat /\ DOMAIN queue = 1..Len(queue)
      BY DEF TypeOK
    <3>2. got' = queue[1] /\ DOMAIN queue' = 1..(Len(queue) - 1)
      BY <2>1, <3>1
    <3>3. \A j \in 1..(Len(queue) - 1) : queue'[j] = queue[j + 1]
      BY <2>1, <3>1
    <3>4. \A i \in DOMAIN queue : i # 1 => i - 1 \in 1..(Len(queue) - 1) /\ (i - 1) + 1 = i
      BY <3>1
    <3>. QED
      BY <3>2, <3>3, <3>4
  <2>3. \A x \in Held : x \in Held'
    BY <2>1, <2>2, QuitAssumption DEF Held
  <2>. QED
    BY <1>15, <1>17, <2>3 DEF GetEnd
<1>18. ASSUME Lint PROVE LatestView(w)'
  <2>1. CASE shuttingDown
    <3>1. UNCHANGED <<shuttingDown, enabled, off>>
      BY <1>18 DEF Lint
    <3>. QED
      BY <2>1, <3>1 DEF LatestView
  <2>2. CASE ~shuttingDown
    <3>1. \A x \in Held : x \in Held'
      BY <1>18, <2>2 DEF Lint, Held, Working
    <3>. QED
      BY <1>15, <1>18, <3>1 DEF Lint
  <2>. QED
    BY <2>1, <2>2
<1>19. ASSUME Report PROVE LatestView(w)'
  <2>1. /\ UNCHANGED <<queue, got, request, issued, lastRequestId, doc, enabled, off,
                       alive, shuttingDown, lastTimeoutId>>
        /\ manager = "reporting" /\ Working
        /\ got \in Held /\ got.uid \in Views
        /\ outcome \in {Ver(got), None}
    BY <1>19, <1>1 DEF Report, Working, Held, TypeOK, OutcomeOfGot
  <2>2. \A x \in Held : x # got => x \in Held'
    BY <2>1 DEF Held
  <2>3. CASE w # got.uid
    <3>1. lintResults'[w] = lintResults[w]
      BY <1>19, <2>1, <2>3 DEF Report, ShowResults, TypeOK
    <3>2. \A x \in Held : x.uid = w => x \in Held'
      BY <2>2, <2>3
    <3>3. RequestsKept(w)
      BY <2>1, <3>2, HeldShrinks DEF RequestsKept
    <3>4. ~enabled[w] => off[w]
      BY DEF LatestView
    <3>. QED
      BY <2>1, <3>1, <3>3, <3>4, ViewKept
  <2>4. CASE w = got.uid
    <3>1. ~enabled'[w] => off'[w]
      BY <2>1 DEF LatestView
    <3>2. ASSUME alive'[w], ~off'[w], ~shuttingDown', lastTimeoutId'[w] = 0
          PROVE  /\ \A x \in Latest(w)' : request'[x.num].ver = doc[w]
                 /\ lintResults'[w] \in {None, doc[w]} \/ \E x \in Held' : x \in Latest(w)'
      <4>1. /\ \A x \in Latest(w) : request[x.num].ver = doc[w]
            /\ lintResults[w] \in {None, doc[w]} \/ \E x \in Held : x \in Latest(w)
        BY <2>1, <3>2 DEF LatestView, Ver
      <4>2. \A x \in Latest(w)' : x \in Latest(w)
        BY <2>1, HeldShrinks DEF Latest
      <4>3. \A x \in Latest(w) : x # got => x \in Held' /\ x \in Latest(w)'
        BY <2>1, <2>2 DEF Latest
      <4>4. CASE got \in Latest(w)
        <5>1. ShowResults(got.uid)
          BY <1>19, <2>1, <2>4, <3>2, <4>4 DEF Report, Accepts, Latest
        <5>2. lintResults'[w] = outcome
          BY <2>1, <2>4, <5>1 DEF ShowResults, TypeOK
        <5>. QED
          BY <2>1, <4>1, <4>2, <4>4, <5>2 DEF Ver
      <4>5. CASE got \notin Latest(w)
        <5>1. ~Accepts(got.uid, got.num)
          BY <2>1, <2>4, <4>5 DEF Accepts, Latest
        <5>2. lintResults' = lintResults
          BY <1>19, <5>1 DEF Report
        <5>. QED
          BY <2>1, <4>1, <4>2, <4>3, <4>5, <5>2
      <4>. QED
        BY <4>4, <4>5
    <3>. QED
      BY <2>1, <3>1, <3>2 DEF LatestView, Ver
  <2>. QED
    BY <2>3, <2>4
<1>20. ASSUME UNCHANGED vars PROVE LatestView(w)'
  <2>1. \A x \in Held : x \in Held'
    BY <1>20 DEF vars, Held, Working
  <2>. QED
    BY <1>15, <1>20, <2>1 DEF vars
<1>. QED
  BY <1>8, <1>9, <1>10, <1>11, <1>12, <1>13, <1>14, <1>16, <1>17, <1>18, <1>19, <1>20
  DEF Next, MainNext, LinterNext

LEMMA LatestInit == Init => OutcomeOfGot /\ LatestCurrent
<1>. SUFFICES ASSUME Init PROVE OutcomeOfGot /\ LatestCurrent
  OBVIOUS
<1>1. manager = "waiting" /\ Held = {}
  BY DEF Init, Q!AbsInit, Held, Working
<1>2. \A v \in Views : Latest(v) = {} /\ lintResults[v] = None /\ enabled[v]
  BY <1>1 DEF Init, Latest
<1>. QED
  BY <1>1, <1>2 DEF OutcomeOfGot, LatestCurrent, LatestView

LEMMA LatestImpliesCurrent == TypeOK /\ LatestCurrent => ResultsCurrent
<1>. SUFFICES ASSUME TypeOK, LatestCurrent, NEW v \in Views,
                     alive[v], ~off[v], ~shuttingDown, ~Outstanding(v)
              PROVE  lintResults[v] \in {None, doc[v]}
  BY DEF ResultsCurrent
<1>1. lastTimeoutId[v] = 0
  BY DEF Outstanding
<1>2. \A x \in Held : x.uid # v
  BY QuitAssumption DEF Outstanding, Held, Working
<1>. QED
  BY <1>1, <1>2 DEF LatestCurrent, LatestView, Latest

(***************************************************************************)
(* When nothing is left to do for an open view, its results are those of   *)
(* its present text: no order of edits, timers, commands, preferences and  *)
(* late reports leaves older results standing.                             *)
(***************************************************************************)
THEOREM ResultsCorrect == Spec => []ResultsCurrent
<1>1. Init => LatestCurrent /\ OutcomeOfGot
  BY LatestInit
<1>2. Spec => [](TypeOK /\ LatestCurrent)
  BY <1>1, RidsInit, LintTypeCorrect, RidsNext, OutcomeNext, LatestNext, PTL DEF Spec
<1>. QED
  BY <1>2, LatestImpliesCurrent, PTL

-----------------------------------------------------------------------------
(***************************************************************************)
(* Requests are queued, taken and reported in the order in which they were *)
(* made, so that no request is in two places at once.                      *)
(***************************************************************************)
NumsOrdered ==
    /\ \A i, j \in DOMAIN queue :
         i < j /\ queue[i] # Quit /\ queue[j] # Quit => queue[i].num < queue[j].num
    /\ Working => \A j \in DOMAIN queue : queue[j] # Quit => got.num < queue[j].num

LEMMA SubqueueNums ==
    ASSUME NumsOrdered, UNCHANGED got, Working' => Working,
           \A j \in DOMAIN queue' :
               queue'[j] = Quit \/ \E i \in DOMAIN queue : queue'[j] = queue[i],
           \A j, k \in DOMAIN queue' : j < k =>
               \/ queue'[j] = Quit \/ queue'[k] = Quit
               \/ \E a, b \in DOMAIN queue : a < b /\ queue'[j] = queue[a] /\ queue'[k] = queue[b]
    PROVE  NumsOrdered'
<1>1. \A j, k \in DOMAIN queue' :
        j < k /\ queue'[j] # Quit /\ queue'[k] # Quit => queue'[j].num < queue'[k].num
  BY DEF NumsOrdered
<1>2. Working' => \A j \in DOMAIN queue' : queue'[j] # Quit => got'.num < queue'[j].num
  BY DEF NumsOrdered
<1>. QED
  BY <1>1, <1>2 DEF NumsOrdered

LEMMA IssueNums ==
    ASSUME TypeOK, TypeOK', RidsOrdered, NumsOrdered,
           NEW v \in Views, NEW rid, NEW pending \in Seq(Item),
           \A j \in DOMAIN pending : \E i \in DOMAIN queue : pending[j] = queue[i],
           \A j, k \in DOMAIN pending : j < k =>
               \E a, b \in DOMAIN queue :
                   a < b /\ pending[j] = queue[a] /\ pending[k] = queue[b],
           IssueRequest(v, rid, pending), UNCHANGED manager
    PROVE  NumsOrdered'
<1>1. Issued(v) \in Request /\ Issued(v).num = issued + 1 /\ issued \in Nat
  BY Bounds DEF IssueRequest, TypeOK, Issued, Request, Views
<1>2. queue' = Append(pending, Issued(v)) /\ got' = got /\ (Working' <=> Working)
  BY DEF IssueRequest, Issued, Working
<1>3. \A x \in Held : x.num \in Nat /\ x.num < issued + 1
  <2>1. \A x \in Held : x.num \in Nat
    BY DEF Held, Request
  <2>2. \A x \in Held : x.num <= issued
    BY DEF RidsOrdered
  <2>. QED
    BY <1>1, <2>1, <2>2
<1>4. \A i \in DOMAIN queue : queue[i] # Quit => queue[i].num < issued + 1
  <2>1. queue \in Seq(Item)
    BY DEF TypeOK
  <2>2. \A i \in DOMAIN queue : queue[i] \in Item
    BY <2>1
  <2>3. \A i \in DOMAIN queue : queue[i] # Quit => queue[i] \in Held
    BY <2>2 DEF Held, Item
  <2>. QED
    BY <1>3, <2>3
<1>5. Working => got.num < issued + 1
  BY <1>3 DEF Held, Working, TypeOK
<1>6. /\ DOMAIN queue' = 1..(Len(pending) + 1) /\ DOMAIN pending = 1..Len(pending)
      /\ Len(pending) \in Nat
      /\ \A j \in DOMAIN pending : queue'[j] = pending[j]
      /\ queue'[Len(pending) + 1] = Issued(v)
  BY <1>1, <1>2 DEF Item
<1>7. \A k \in DOMAIN queue' : k \in DOMAIN pending \/ k = Len(pending) + 1
  BY <1>6
<1>8. \A j, k \in DOMAIN queue' : j < k => j \in DOMAIN pending
  BY <1>6
<1>9. ASSUME NEW j \in DOMAIN queue', NEW k \in DOMAIN queue', j < k,
             queue'[j] # Quit, queue'[k] # Quit
      PROVE  queue'[j].num < queue'[k].num
  <2>1. j \in DOMAIN pending
    BY <1>8, <1>9
  <2>2. CASE k \in DOMAIN pending
    <3>1. PICK a \in DOMAIN queue, b \in DOMAIN queue :
            a < b /\ queue'[j] = queue[a] /\ queue'[k] = queue[b]
      BY <1>6, <1>9, <2>1, <2>2
    <3>. QED
      BY <1>9, <3>1 DEF NumsOrdered
  <2>3. CASE k = Len(pending) + 1
    <3>1. PICK a \in DOMAIN queue : queue'[j] = queue[a]
      BY <1>6, <2>1
    <3>. QED
      BY <1>1, <1>4, <1>6, <1>9, <2>3, <3>1
  <2>. QED
    BY <1>7, <2>2, <2>3
<1>10. ASSUME Working', NEW k \in DOMAIN queue', queue'[k] # Quit
       PROVE  got'.num < queue'[k].num
  <2>1. CASE k \in DOMAIN pending
    <3>1. PICK b \in DOMAIN queue : queue'[k] = queue[b]
      BY <1>6, <2>1
    <3>. QED
      BY <1>2, <1>10, <3>1 DEF NumsOrdered
  <2>2. CASE k = Len(pending) + 1
    BY <1>1, <1>2, <1>5, <1>6, <1>10, <2>2
  <2>. QED
    BY <1>7, <2>1, <2>2
<1>. QED
  BY <1>9, <1>10 DEF NumsOrdered

LEMMA NumsNext ==
    TypeOK /\ TypeOK' /\ RidsOrdered /\ NumsOrdered /\ [Next]_vars => NumsOrdered'
<1>. SUFFICES ASSUME TypeOK, TypeOK', RidsOrdered, NumsOrdered, [Next]_vars
              PROVE  NumsOrdered'
  OBVIOUS
<1>. USE DEF queueVars, serviceVars, countVars, uiVars
<1>1. ASSUME UNCHANGED <<queue, got>>, Working' => Working PROVE NumsOrdered'
  BY <1>1 DEF NumsOrdered
<1>2. ASSUME NEW v \in Views, queue' = CancelledQueue(v), UNCHANGED <<got, manager>>
      PROVE  NumsOrdered'
  <2>1. queue \in Seq(Item)
    BY DEF TypeOK
  <2>2. /\ \A j \in DOMAIN queue' : \E i \in DOMAIN queue : queue'[j] = queue[i]
        /\ \A j, k \in DOMAIN queue' : j < k =>
             \E a, b \in DOMAIN queue : a < b /\ queue'[j] = queue[a] /\ queue'[k] = queue[b]
    BY <1>2, <2>1, CancelledQueueKeeps
  <2>3. Working' => Working
    BY <1>2 DEF Working
  <2>. QED
    BY <1>2, <2>2, <2>3, SubqueueNums
<1>3. ASSUME NEW v \in Views,
             \/ Edit(v) \/ LinterPrefChanged(v) \/ ClearCommand(v) \/ SwitchOn(v)
             \/ DisplayClear(v) \/ Scroll(v)
      PROVE  NumsOrdered'
  <2>1. UNCHANGED <<queue, got, manager>>
    BY <1>3 DEF Edit, LinterPrefChanged, ClearCommand, SwitchOn, DisplayClear, Scroll
  <2>. QED
    BY <1>1, <2>1 DEF Working
<1>4. ASSUME NEW v \in Views, SwitchOff(v) \/ Close(v) PROVE NumsOrdered'
  BY <1>2, <1>4 DEF SwitchOff, Close
<1>5. ASSUME NEW v \in Views, LintNow(v) PROVE NumsOrdered'
  <2>1. IssueRequest(v, lastRequestId[v], queue) /\ queue \in Seq(Item) /\ UNCHANGED manager
    BY <1>5 DEF LintNow, TypeOK
  <2>2. /\ \A j \in DOMAIN queue : \E i \in DOMAIN queue : queue[j] = queue[i]
        /\ \A j, k \in DOMAIN queue : j < k =>
             \E a, b \in DOMAIN queue : a < b /\ queue[j] = queue[a] /\ queue[k] = queue[b]
    OBVIOUS
  <2>. QED
    BY <2>1, <2>2, IssueNums
<1>6. ASSUME NEW v \in Views, ContinueRequest(v) PROVE NumsOrdered'
  <2>1. UNCHANGED manager
    BY <1>6 DEF ContinueRequest
  <2>2. CASE IssueRequest(v, lastTimeoutId[v], CancelledQueue(v))
    <3>1. queue \in Seq(Item)
      BY DEF TypeOK
    <3>2. CancelledQueue(v) \in Seq(Item)
      BY <3>1, CancelledQueueType
    <3>3. LET q == CancelledQueue(v) IN
          /\ \A j \in DOMAIN q : \E i \in DOMAIN queue : q[j] = queue[i]
          /\ \A j, k \in DOMAIN q : j < k =>
               \E a, b \in DOMAIN queue : a < b /\ q[j] = queue[a] /\ q[k] = queue[b]
      BY <3>1, CancelledQueueKeeps
    <3>. HIDE DEF CancelledQueue
    <3>. QED
      BY <2>1, <2>2, <3>2, <3>3, IssueNums
  <2>3. CASE UNCHANGED queueVars
    BY <1>1, <2>1, <2>3 DEF Working
  <2>. QED
    BY <1>6, <2>2, <2>3 DEF ContinueRequest
<1>7. ASSUME Terminate PROVE NumsOrdered'
  <2>1. queue' = <<Quit>> \o queue /\ UNCHANGED <<got, manager>>
    BY <1>7 DEF Terminate, Q!AbsPrepend
  <2>2. /\ DOMAIN queue' = 1..(Len(queue) + 1) /\ DOMAIN queue = 1..Len(queue)
        /\ Len(queue) \in Nat /\ queue'[1] = Quit
        /\ \A j \in DOMAIN queue' : j = 1 \/ queue'[j] = queue[j - 1]
    BY <2>1 DEF TypeOK, Item
  <2>3. \A j \in DOMAIN queue' :
          queue'[j] = Quit \/ \E i \in DOMAIN queue : queue'[j] = queue[i]
    BY <2>2
  <2>4. ASSUME NEW j \in DOMAIN queue', NEW k \in DOMAIN queue', j < k,
               queue'[j] # Quit, queue'[k] # Quit
        PROVE  \E a, b \in DOMAIN queue : a < b /\ queue'[j] = queue[a] /\ queue'[k] = queue[b]
    <3>1. /\ j - 1 \in DOMAIN queue /\ k - 1 \in DOMAIN queue /\ j - 1 < k - 1
          /\ queue'[j] = queue[j - 1] /\ queue'[k] = queue[k - 1]
      BY <2>2, <2>4
    <3>. QED
      BY <3>1
  <2>5. Working' => Working
    BY <2>1 DEF Working
  <2>. QED
    BY <2>1, <2>3, <2>4, <2>5, SubqueueNums
<1>8. ASSUME GetBegin PROVE NumsOrdered'
  BY <1>1, <1>8 DEF GetBegin, Q!AbsReserve, Working
<1>9. ASSUME GetEnd PROVE NumsOrdered'
  <2>1. queue # <<>> /\ got' = Head(queue) /\ queue' = Tail(queue)
    BY <1>9 DEF GetEnd, Q!AbsGet
  <2>2. /\ got' = queue[1] /\ 1 \in DOMAIN queue
        /\ \A j \in DOMAIN queue' : queue'[j] = queue[j + 1] /\ j + 1 \in DOMAIN queue
        /\ \A j \in DOMAIN queue' : j \in Nat /\ 1 < j + 1
    BY <2>1 DEF TypeOK
  <2>3. \A j, k \in DOMAIN queue' : j < k => j + 1 < k + 1
    BY <2>2
  <2>4. Working' => got' # Quit
    BY <1>9 DEF GetEnd, Working
  <2>. QED
    BY <2>2, <2>3, <2>4 DEF NumsOrdered
<1>10. ASSUME Lint \/ Report PROVE NumsOrdered'
  BY <1>1, <1>10 DEF Lint, Report, Working
<1>11. ASSUME UNCHANGED vars PROVE NumsOrdered'
  BY <1>1, <1>11 DEF vars, Working
<1>. QED
  BY <1>3, <1>4, <1>5, <1>6, <1>7, <1>8, <1>9, <1>10, <1>11
  DEF Next, MainNext, LinterNext

-----------------------------------------------------------------------------
(***************************************************************************)
(* What the markers of an open view depend on, as long as doRequest has    *)
(* not interfered: there is at most one listener, and none while the       *)
(* request that the view waits for is on its way; and that request is the  *)
(* only one that can still be accepted.  When it is done, the markers are  *)
(* those of the results, everywhere or on screen, where the listener keeps *)
(* them up to date.                                                        *)
(***************************************************************************)
Shows(v, parts) == \A p \in parts : marks[v][p] \in {None, lintResults[v]}

Settled(v) ==
    /\ ~recalculating[v]
    /\ \/ listeners[v] = <<>> /\ Shows(v, Parts)
       \/ listeners[v] = <<lintResults[v]>> /\ Shows(v, screen[v])

Done(v) == lastTimeoutId[v] = 0 /\ Latest(v) = {} /\ lintResults[v] # None

Minded(v) == alive[v] /\ ~asked[v] /\ ~shuttingDown

DisplayView(v) ==
    Minded(v) =>
        /\ listeners[v] = <<>> \/ (Len(listeners[v]) = 1 /\ handleScroll[v])
        /\ \A x \in Latest(v) : x.num = superseded[v] + 1 /\ listeners[v] = <<>>
        /\ Done(v) => Settled(v)

DisplayInv == \A v \in Views : DisplayView(v)

LEMMA DisplayKept ==
    ASSUME NEW w \in Views, DisplayView(w), Minded(w)' => Minded(w),
           listeners'[w] = listeners[w], handleScroll'[w] = handleScroll[w],
           superseded'[w] = superseded[w],
           \A x \in Latest(w)' : x \in Latest(w),
           Done(w)' =>
               /\ Done(w) /\ lintResults'[w] = lintResults[w]
               /\ recalculating'[w] = recalculating[w] /\ screen'[w] = screen[w]
               /\ \A p \in Parts : marks'[w][p] \in {marks[w][p], None},
           screen[w] \subseteq Parts
    PROVE  DisplayView(w)'
<1>. SUFFICES ASSUME Minded(w)'
              PROVE  /\ listeners'[w] = <<>> \/ (Len(listeners'[w]) = 1 /\ handleScroll'[w])
                     /\ \A x \in Latest(w)' : x.num = superseded'[w] + 1 /\ listeners'[w] = <<>>
                     /\ Done(w)' => Settled(w)'
  BY DEF DisplayView
<1>1. /\ listeners[w] = <<>> \/ (Len(listeners[w]) = 1 /\ handleScroll[w])
      /\ \A x \in Latest(w) : x.num = superseded[w] + 1 /\ listeners[w] = <<>>
      /\ Done(w) => Settled(w)
  BY DEF DisplayView
<1>2. ASSUME Done(w)' PROVE Settled(w)'
  <2>1. /\ Settled(w) /\ lintResults'[w] = lintResults[w]
        /\ recalculating'[w] = recalculating[w] /\ screen'[w] = screen[w]
        /\ \A p \in Parts : marks'[w][p] \in {marks[w][p], None}
    BY <1>1, <1>2
  <2>. QED
    BY <2>1 DEF Settled, Shows
<1>. QED
  BY <1>1, <1>2

LEMMA DisplayNext ==
    TypeOK /\ TypeOK' /\ RidsOrdered /\ NumsOrdered /\ OutcomeOfGot /\ DisplayInv
        /\ [Next]_vars => DisplayInv'
<1>. SUFFICES ASSUME TypeOK, TypeOK', RidsOrdered, NumsOrdered, OutcomeOfGot, DisplayInv,
                     [Next]_vars, NEW w \in Views, Minded(w)'
              PROVE  DisplayView(w)'
  BY DEF DisplayInv, DisplayView
<1>. DisplayView(w) /\ DisplayOK /\ screen[w] \subseteq Parts
  BY DisplayTypes, ScreensAssumption DEF DisplayInv, TypeOK
<1>1. ASSUME Minded(w), RequestsKept(w), lastRequestId'[w] = lastRequestId[w],
             lastTimeoutId'[w] = 0 => lastTimeoutId[w] = 0,
             superseded'[w] = superseded[w], listeners'[w] = listeners[w],
             handleScroll'[w] = handleScroll[w], screen'[w] = screen[w],
             lintResults'[w] \in {lintResults[w], None},
             lastTimeoutId'[w] = 0 => recalculating'[w] = recalculating[w],
             \A p \in Parts : marks'[w][p] \in {marks[w][p], None}
      PROVE  DisplayView(w)'
  <2>1. \A x : x \in Latest(w)' <=> x \in Latest(w)
    BY <1>1 DEF Latest, RequestsKept
  <2>2. Done(w)' => Done(w) /\ lintResults'[w] = lintResults[w]
                    /\ recalculating'[w] = recalculating[w]
    BY <1>1, <2>1 DEF Done
  <2>. HIDE DEF Latest, Done, Minded
  <2>. QED
    BY <1>1, <2>1, <2>2, DisplayKept
<1>2. ASSUME NEW v \in Views, ClearResults(v)
      PROVE  /\ lintResults'[w] \in {lintResults[w], None} /\ UNCHANGED <<marks, scrollVars>>
             /\ w = v => lintResults'[w] = None
  BY <1>2 DEF ClearResults, TypeOK
<1>3. ASSUME NEW v \in Views, NEW clear \in BOOLEAN, RequestLint(v, clear)
      PROVE  /\ lintResults'[w] \in {lintResults[w], None} /\ UNCHANGED <<marks, scrollVars>>
             /\ lastTimeoutId'[w] = 0 => lastTimeoutId[w] = 0 /\ w # v
             /\ w # v => recalculating'[w] = recalculating[w]
  <2>1. lastTimeoutId' = [lastTimeoutId EXCEPT ![v] = timers + 1] /\ timers + 1 # 0
    BY <1>3, Bounds DEF RequestLint, TypeOK
  <2>2. lintResults'[w] \in {lintResults[w], None} /\ UNCHANGED <<marks, scrollVars>>
    BY <1>2, <1>3 DEF RequestLint
  <2>3. w # v => recalculating'[w] = recalculating[w]
    BY <1>3 DEF RequestLint, TypeOK
  <2>. QED
    BY <2>1, <2>2, <2>3 DEF TypeOK
<1>. USE DEF queueVars, serviceVars, displayVars, scrollVars, countVars, historyVars, uiVars
<1>4. ~shuttingDown'
  BY DEF Minded
<1>5. ASSUME ~(ContinueRequest(w) \/ LintNow(w) \/ SwitchOff(w) \/ Close(w)),
             ~(Report /\ got.uid = w)
      PROVE  RequestsKept(w)
  BY <1>4, <1>5, StepKeepsRequests
<1>6. ASSUME RequestsKept(w),
             UNCHANGED <<lastRequestId, lastTimeoutId, superseded, asked, shuttingDown,
                         alive, recalculating>>,
             screen'[w] = screen[w], listeners'[w] = listeners[w],
             handleScroll'[w] = handleScroll[w],
             lintResults'[w] \in {lintResults[w], None},
             \A p \in Parts : marks'[w][p] \in {marks[w][p], None}
      PROVE  DisplayView(w)'
  <2>1. Minded(w)
    BY <1>6 DEF Minded
  <2>. QED
    BY <1>1, <1>6, <2>1
<1>7. ASSUME NEW v \in Views, Edit(v) \/ LinterPrefChanged(v) \/ SwitchOn(v), RequestsKept(w)
      PROVE  DisplayView(w)'
  <2>1. UNCHANGED <<lastRequestId, superseded, asked, shuttingDown, alive>>
    BY <1>7 DEF Edit, LinterPrefChanged, SwitchOn
  <2>2. \/ \E clear \in BOOLEAN : RequestLint(v, clear)
        \/ UNCHANGED <<lastTimeoutId, displayVars>>
    BY <1>7 DEF Edit, LinterPrefChanged, SwitchOn
  <2>3. /\ lintResults'[w] \in {lintResults[w], None} /\ UNCHANGED <<marks, scrollVars>>
        /\ lastTimeoutId'[w] = 0 => lastTimeoutId[w] = 0 /\ recalculating'[w] = recalculating[w]
    BY <1>3, <2>2
  <2>4. Minded(w)
    BY <2>1 DEF Minded
  <2>. QED
    BY <1>1, <1>7, <2>1, <2>3, <2>4
<1>8. ASSUME NEW v \in Views, ClearCommand(v) \/ DisplayClear(v) \/ SwitchOff(v) \/ Close(v),
             RequestsKept(w)
      PROVE  DisplayView(w)'
  <2>1. /\ UNCHANGED <<lastRequestId, lastTimeoutId, superseded, asked, shuttingDown,
                       recalculating, scrollVars>>
    BY <1>2, <1>8 DEF ClearCommand, DisplayClear, SwitchOff, Close
  <2>2. lintResults'[w] \in {lintResults[w], None}
    BY <1>2, <1>8 DEF ClearCommand, DisplayClear, SwitchOff, Close
  <2>3. \A p \in Parts : marks'[w][p] \in {marks[w][p], None}
    <3>1. CASE UNCHANGED marks
      BY <3>1
    <3>2. CASE Draw(v, Parts, None)
      BY <3>2, DrawType DEF Result
    <3>. QED
      BY <1>2, <1>8, <3>1, <3>2 DEF ClearCommand, DisplayClear, SwitchOff, Close
  <2>4. Minded(w)
    <3>1. alive'[w] => alive[w]
      BY <1>8 DEF ClearCommand, DisplayClear, SwitchOff, Close, TypeOK
    <3>. QED
      BY <2>1, <3>1 DEF Minded
  <2>. QED
    BY <1>1, <1>8, <2>1, <2>2, <2>3, <2>4
<1>9. ASSUME NEW v \in Views, v # w, LintNow(v) \/ ContinueRequest(v), RequestsKept(w)
      PROVE  DisplayView(w)'
  <2>1. UNCHANGED <<shuttingDown, alive, lintResults, marks, screen, recalculating>>
    BY <1>9 DEF LintNow, ContinueRequest
  <2>2. /\ lastRequestId'[w] = lastRequestId[w] /\ lastTimeoutId'[w] = lastTimeoutId[w]
        /\ superseded'[w] = superseded[w] /\ asked'[w] = asked[w]
    <3>1. /\ lastRequestId \in [Views -> 0..MaxTimers]
          /\ lastTimeoutId \in [Views -> 0..MaxTimers]
          /\ superseded \in [Views -> 0..MaxRequests] /\ asked \in [Views -> BOOLEAN]
      BY DEF TypeOK
    <3>2. CASE LintNow(v)
      BY <1>9, <3>1, <3>2 DEF LintNow
    <3>3. CASE ContinueRequest(v)
      BY <1>9, <3>1, <3>3 DEF ContinueRequest
    <3>. QED
      BY <1>9, <3>2, <3>3
  <2>3. listeners'[w] = listeners[w] /\ handleScroll'[w] = handleScroll[w]
    <3>1. CASE LintNow(v)
      BY <3>1 DEF LintNow, displayVars, scrollVars
    <3>2. CASE ContinueRequest(v)
      <4>1. CancelPendingItems(v) \/ UNCHANGED <<listeners, handleScroll>>
        BY <3>2 DEF ContinueRequest
      <4>2. listeners \in [Views -> Seq(Versions)] /\ handleScroll \in [Views -> BOOLEAN]
        BY DEF TypeOK
      <4>. QED
        BY <1>9, <4>1, <4>2 DEF CancelPendingItems
    <3>. QED
      BY <1>9, <3>1, <3>2
  <2>4. Minded(w)
    BY <2>1, <2>2 DEF Minded
  <2>. QED
    BY <1>1, <1>9, <2>1, <2>2, <2>3, <2>4
<1>10. ASSUME NEW v \in Views, Scroll(v), RequestsKept(w) PROVE DisplayView(w)'
  <2>1. UNCHANGED <<lastRequestId, lastTimeoutId, superseded, asked, shuttingDown, alive,
                    recalculating, lintResults, listeners, handleScroll>>
    BY <1>10 DEF Scroll
  <2>2. CASE w # v
    <3>1. screen'[w] = screen[w] /\ marks'[w] = marks[w]
      BY <1>10, <2>2, ScrollType
    <3>. QED
      BY <1>6, <1>10, <2>1, <3>1
  <2>3. CASE w = v
    <3>1. Minded(w) /\ screen'[w] \subseteq Parts
      BY <2>1, ScreensAssumption DEF Minded, TypeOK
    <3>2. \A x : x \in Latest(w)' <=> x \in Latest(w)
      BY <1>10, <2>1 DEF Latest, RequestsKept
    <3>3. Done(w)' => Done(w) /\ Settled(w)
      BY <2>1, <3>1, <3>2 DEF Done, DisplayView
    <3>4. ASSUME Settled(w) PROVE Settled(w)'
      <4>1. CASE listeners[w] = <<>> /\ Shows(w, Parts)
        <5>1. UNCHANGED marks
          BY <1>10, <2>3, <4>1 DEF Scroll
        <5>. QED
          BY <2>1, <3>4, <4>1, <5>1 DEF Settled, Shows
      <4>2. CASE listeners[w] = <<lintResults[w]>> /\ Shows(w, screen[w])
        <5>1. ~recalculating[w] /\ listeners[w] # <<>>
              /\ listeners[w][Len(listeners[w])] = lintResults[w]
          BY <3>4, <4>2 DEF Settled
        <5>2. \A p \in screen'[w] : marks'[w][p] = lintResults[w]
          BY <1>10, <2>3, <5>1, ScrollType
        <5>. QED
          BY <2>1, <4>2, <5>1, <5>2 DEF Settled, Shows
      <4>. QED
        BY <3>4, <4>1, <4>2 DEF Settled
    <3>. HIDE DEF Latest, Done, Settled, Minded
    <3>. QED
      BY <2>1, <3>1, <3>2, <3>3, <3>4 DEF DisplayView
  <2>. QED
    BY <2>2, <2>3
<1>11. ASSUME Report, got.uid # w, RequestsKept(w) PROVE DisplayView(w)'
  <2>1. /\ UNCHANGED <<lastRequestId, lastTimeoutId, superseded, asked, shuttingDown,
                       alive, screen>>
        /\ got.uid \in Views /\ outcome \in Result
    BY <1>11 DEF Report, TypeOK, Request, Views
  <2>2. /\ lintResults'[w] = lintResults[w] /\ recalculating'[w] = recalculating[w]
        /\ marks'[w] = marks[w] /\ listeners'[w] = listeners[w]
        /\ handleScroll'[w] = handleScroll[w]
    <3>1. CASE ShowResults(got.uid)
      <4>1. lintResults'[w] = lintResults[w] /\ recalculating'[w] = recalculating[w]
        BY <1>11, <2>1, <3>1 DEF ShowResults, DisplayOK
      <4>2. outcome = None => UNCHANGED <<marks, listeners, handleScroll>>
        BY <3>1 DEF ShowResults
      <4>3. outcome # None => Display(got.uid)
        BY <3>1 DEF ShowResults
      <4>. QED
        BY <1>11, <2>1, <4>1, <4>2, <4>3, DisplayShows
    <3>2. CASE UNCHANGED <<lintResults, marks, recalculating, listeners, handleScroll>>
      BY <3>2
    <3>. QED
      BY <1>11, <3>1, <3>2 DEF Report
  <2>3. Minded(w)
    BY <2>1 DEF Minded
  <2>. QED
    BY <1>1, <1>11, <2>1, <2>2, <2>3
<1>12. ASSUME GetBegin \/ GetEnd \/ Lint \/ UNCHANGED vars, RequestsKept(w)
       PROVE  DisplayView(w)'
  <2>1. UNCHANGED <<lastRequestId, lastTimeoutId, superseded, asked, shuttingDown, alive,
                    displayVars>>
    BY <1>12 DEF GetBegin, GetEnd, Lint, vars
  <2>. QED
    BY <1>6, <1>12, <2>1
<1>13. ASSUME LintNow(w) PROVE DisplayView(w)'
  <2>1. asked'[w]
    BY <1>13 DEF LintNow, TypeOK
  <2>. QED
    BY <2>1 DEF Minded
<1>14. ASSUME SwitchOff(w) \/ Close(w) PROVE DisplayView(w)'
  <2>1. CASE Close(w)
    <3>1. ~alive'[w]
      BY <2>1 DEF Close, TypeOK
    <3>. QED
      BY <3>1 DEF Minded
  <2>2. CASE SwitchOff(w)
    <3>1. UNCHANGED <<alive, asked, shuttingDown, lastRequestId, superseded, issued, request,
                      listeners, handleScroll>>
      BY <1>2, <2>2 DEF SwitchOff
    <3>2. lintResults'[w] = None
      BY <1>2, <2>2 DEF SwitchOff
    <3>3. \A x \in Latest(w)' : x \in Latest(w)
      BY <3>1, HeldShrinks DEF Latest
    <3>4. Minded(w) /\ ~Done(w)'
      BY <3>1, <3>2 DEF Minded, Done
    <3>. HIDE DEF Latest, Done, Minded
    <3>. QED
      BY <3>1, <3>3, <3>4, DisplayKept
  <2>. QED
    BY <1>14, <2>1, <2>2
<1>15. ASSUME ContinueRequest(w) PROVE DisplayView(w)'
  <2>1. UNCHANGED <<alive, shuttingDown>> /\ alive[w]
    BY <1>15 DEF ContinueRequest, Minded
  <2>2. /\ CancelPendingItems(w)
        /\ asked' = [asked EXCEPT ![w] = @ /\ listeners'[w] # <<>>]
        /\ superseded' = [superseded EXCEPT ![w] = issued]
    BY <1>15, <2>1 DEF ContinueRequest
  <2>3. asked'[w] = (asked[w] /\ listeners'[w] # <<>>) /\ superseded'[w] = issued
    BY <2>2 DEF TypeOK
  <2>4. listeners'[w] = <<>>
    <3>1. CASE asked[w]
      BY <2>3, <3>1 DEF Minded
    <3>2. CASE ~asked[w]
      <4>1. listeners[w] = <<>> \/ (Len(listeners[w]) = 1 /\ handleScroll[w])
        BY <2>1, <3>2 DEF Minded, DisplayView
      <4>2. listeners[w] \in Seq(Versions)
        BY DEF DisplayOK
      <4>3. listeners'[w] = IF handleScroll[w]
                            THEN SubSeq(listeners[w], 1, Len(listeners[w]) - 1)
                            ELSE listeners[w]
        BY <2>2 DEF CancelPendingItems, DisplayOK
      <4>4. CASE listeners[w] = <<>>
        <5>1. SubSeq(listeners[w], 1, Len(listeners[w]) - 1) = <<>>
          BY <4>2, <4>4
        <5>. QED
          BY <4>3, <4>4, <5>1
      <4>5. CASE Len(listeners[w]) = 1 /\ handleScroll[w]
        BY <4>2, <4>3, <4>5
      <4>. QED
        BY <4>1, <4>4, <4>5
    <3>. QED
      BY <3>1, <3>2
  <2>5. Latest(w)' = {Issued(w)} /\ Issued(w).num = issued + 1
    BY <1>15, <2>1, ContinueLatest
  <2>6. ~Done(w)'
    BY <2>5 DEF Done
  <2>. HIDE DEF Done, Latest, Issued
  <2>. QED
    BY <2>3, <2>4, <2>5, <2>6 DEF DisplayView
<1>16. ASSUME Report, got.uid = w PROVE DisplayView(w)'
  <2>1. /\ UNCHANGED <<queue, got, request, issued, lastRequestId, lastTimeoutId, superseded,
                       asked, shuttingDown, alive, screen>>
        /\ Working /\ ~Working' /\ got \in Held /\ got \in Request /\ outcome \in Result
    BY <1>16 DEF Report, Working, Held, TypeOK
  <2>2. Minded(w)
    BY <2>1 DEF Minded
  <2>3. \A x \in Latest(w)' : x \in Latest(w) /\ \E i \in DOMAIN queue : queue[i] = x /\ x # Quit
    <3>1. \A x \in Held' : x \in Held /\ \E i \in DOMAIN queue : queue[i] = x /\ x # Quit
      BY <2>1, HeldShrinks, QuitAssumption DEF Held
    <3>. QED
      BY <2>1, <3>1 DEF Latest
  <2>4. CASE ~Accepts(w, got.num)
    <3>1. UNCHANGED <<lintResults, marks, recalculating, listeners, handleScroll>>
      BY <1>16, <2>4 DEF Report
    <3>2. got \notin Latest(w)
      BY <2>2, <2>4 DEF Latest, Accepts, Minded
    <3>3. \A x \in Latest(w) : x \in Latest(w)'
      BY <2>1, <3>2 DEF Latest, Held
    <3>4. Done(w)' => Done(w)
      BY <2>1, <3>1, <3>3 DEF Done
    <3>. HIDE DEF Latest, Done, Minded
    <3>. QED
      BY <2>1, <2>2, <2>3, <3>1, <3>4, DisplayKept
  <2>5. CASE Accepts(w, got.num)
    <3>1. ShowResults(w)
      BY <1>4, <1>16, <2>1, <2>5 DEF Report
    <3>2. got \in Latest(w)
      BY <1>16, <2>1, <2>5 DEF Latest, Accepts
    <3>3. listeners[w] = <<>> /\ \A x \in Latest(w) : x.num = got.num
      BY <2>2, <3>2 DEF DisplayView
    <3>4. Latest(w)' = {}
      <4>1. \A i \in DOMAIN queue : queue[i] # Quit => got.num < queue[i].num
        BY <2>1 DEF NumsOrdered
      <4>2. got.num \in Nat /\ ~(got.num < got.num)
        BY <2>1 DEF Request
      <4>. QED
        BY <2>3, <3>3, <4>1, <4>2
    <3>5. lintResults'[w] = outcome
      BY <3>1 DEF ShowResults, DisplayOK
    <3>6. CASE outcome = None
      <4>1. listeners'[w] = <<>> /\ ~Done(w)'
        BY <3>1, <3>3, <3>5, <3>6 DEF ShowResults, Done
      <4>. HIDE DEF Latest, Done
      <4>. QED
        BY <3>4, <4>1 DEF DisplayView
    <3>7. CASE outcome # None
      <4>1. Display(w) /\ ~recalculating'[w]
        BY <3>1, <3>7 DEF ShowResults, DisplayOK
      <4>2. \/ /\ \A p \in Parts : marks'[w][p] = outcome
               /\ listeners'[w] = <<>>
            \/ /\ \A p \in screen[w] : marks'[w][p] = outcome
               /\ listeners'[w] = Append(listeners[w], outcome) /\ handleScroll'[w]
        BY <2>1, <3>3, <3>7, <4>1, DisplayShows
      <4>3. Append(listeners[w], outcome) = <<outcome>> /\ Len(<<outcome>>) = 1
        BY <3>3
      <4>4. Settled(w)'
        BY <2>1, <3>5, <4>1, <4>2, <4>3 DEF Settled, Shows
      <4>5. listeners'[w] = <<>> \/ (Len(listeners'[w]) = 1 /\ handleScroll'[w])
        BY <4>2, <4>3
      <4>. HIDE DEF Latest, Settled
      <4>. QED
        BY <3>4, <4>4, <4>5 DEF DisplayView
    <3>. QED
      BY <3>6, <3>7
  <2>. QED
    BY <2>4, <2>5
<1>17. CASE ~(ContinueRequest(w) \/ LintNow(w) \/ SwitchOff(w) \/ Close(w))
            /\ ~(Report /\ got.uid = w)
  <2>1. RequestsKept(w)
    BY <1>5, <1>17
  <2>2. ~Terminate
    BY <1>4 DEF Terminate
  <2>. QED
    BY <1>7, <1>8, <1>9, <1>10, <1>11, <1>12, <1>17, <2>1, <2>2
    DEF Next, MainNext, LinterNext
<1>. QED
  BY <1>13, <1>14, <1>15, <1>16, <1>17

LEMMA DisplayInit == Init => NumsOrdered /\ DisplayInv
<1>. SUFFICES ASSUME Init PROVE NumsOrdered /\ DisplayInv
  OBVIOUS
<1>1. queue = <<>> /\ manager = "waiting" /\ Held = {}
  BY DEF Init, Q!AbsInit, Held, Working
<1>2. \A v \in Views : Latest(v) = {} /\ lintResults[v] = None /\ listeners[v] = <<>>
  BY <1>1 DEF Init, Latest
<1>. QED
  BY <1>1, <1>2 DEF NumsOrdered, Working, DisplayInv, DisplayView, Done

LEMMA DisplayImpliesAgree == TypeOK /\ DisplayInv => MarksAgree
<1>. SUFFICES ASSUME TypeOK, DisplayInv, NEW v \in Views, alive[v], ~asked[v],
                     ~shuttingDown, ~Outstanding(v), lintResults[v] # None,
                     NEW p \in screen[v]
              PROVE  marks[v][p] \in {None, lintResults[v]}
  BY DEF MarksAgree
<1>1. lastTimeoutId[v] = 0
  BY DEF Outstanding
<1>2. \A x \in Held : x.uid # v
  BY QuitAssumption DEF Outstanding, Held, Working
<1>3. Done(v) /\ Minded(v)
  BY <1>1, <1>2 DEF Done, Latest, Minded
<1>4. Settled(v) /\ p \in Parts
  BY <1>3, ScreensAssumption DEF DisplayInv, DisplayView, TypeOK
<1>. QED
  BY <1>4 DEF Settled, Shows

(***************************************************************************)
(* Once nothing is outstanding for a view, the markers on its screen are   *)
(* those of the results it holds, however the user scrolled: the timer's   *)
(* _continueRequest removes the listener with the older results before the *)
(* request is made.  doRequest does not, and the property excepts it.      *)
(***************************************************************************)
THEOREM MarksCorrect == Spec => []MarksAgree
<1>1. Init => DisplayInv /\ NumsOrdered /\ OutcomeOfGot
  BY DisplayInit, LatestInit
<1>2. Spec => [](TypeOK /\ DisplayInv)
  BY <1>1, RidsInit, LintTypeCorrect, RidsNext, OutcomeNext, NumsNext, DisplayNext,
     PTL DEF Spec
<1>. QED
  BY <1>2, DisplayImpliesAgree, PTL

=============================================================================
