--------------------------- MODULE AsyncOps_proofs ---------------------------
(***************************************************************************)
(* Proofs about AsyncOps, for any finite set of operations on any URIs.    *)
(***************************************************************************)
EXTENDS AsyncOps, FiniteSetTheorems, TLAPS

USE DEF dictVars, viewVars

(***************************************************************************)
(* Adding an operation counts it on each of its URIs.                      *)
(***************************************************************************)
LEMMA CountedLemma ==
    ASSUME NEW R \in SUBSET Ops, NEW o \in Ops \ R, NEW d, Counts(d, R)
    PROVE  Counts(Counted(d, Affected[o]), R \cup {o})
<1> DEFINE e == Counted(d, Affected[o])
           Q == R \cup {o}
<1>1. Affected[o] \subseteq Uris
  BY OpsAssumption
<1>2. DOMAIN e = DOMAIN d \cup Affected[o]
  BY DEF Counted
<1>3. \A u : OpsOn(Q, u) = IF u \in Affected[o] THEN OpsOn(R, u) \cup {o} ELSE OpsOn(R, u)
  BY DEF OpsOn
<1>4. DOMAIN e = {u \in Uris : OpsOn(Q, u) # {}}
  BY <1>1, <1>2, <1>3 DEF Counts
<1>5. ASSUME NEW u \in DOMAIN e PROVE e[u] = Cardinality(OpsOn(Q, u))
  <2>1. IsFiniteSet(OpsOn(R, u)) /\ o \notin OpsOn(R, u)
    <3>1. OpsOn(R, u) \subseteq Ops
      BY DEF OpsOn
    <3> QED
      BY <3>1, OpsAssumption, FS_Subset DEF OpsOn
  <2>2. u \in DOMAIN d => d[u] = Cardinality(OpsOn(R, u))
    BY DEF Counts
  <2>3. u \notin DOMAIN d => OpsOn(R, u) = {}
    BY <1>1, <1>2 DEF Counts
  <2>4. Cardinality(OpsOn(R, u) \cup {o}) = Cardinality(OpsOn(R, u)) + 1
    BY <2>1, FS_AddElement
  <2>5. Cardinality({}) = 0
    BY FS_EmptySet
  <2>6. e[u] = IF u \notin DOMAIN d THEN 1 ELSE IF u \in Affected[o] THEN d[u] + 1 ELSE d[u]
    BY <1>2 DEF Counted
  <2>7. CASE u \notin DOMAIN d
    <3>1. OpsOn(Q, u) = OpsOn(R, u) \cup {o} /\ e[u] = 1
      BY <1>2, <1>3, <2>6, <2>7
    <3> QED
      BY <2>3, <2>4, <2>5, <2>7, <3>1
  <2>8. CASE u \in DOMAIN d /\ u \in Affected[o]
    <3>1. OpsOn(Q, u) = OpsOn(R, u) \cup {o} /\ e[u] = d[u] + 1
      BY <1>3, <2>6, <2>8
    <3> QED
      BY <2>2, <2>4, <2>8, <3>1
  <2>9. CASE u \in DOMAIN d /\ u \notin Affected[o]
    <3>1. OpsOn(Q, u) = OpsOn(R, u) /\ e[u] = d[u]
      BY <1>3, <2>6, <2>9
    <3> QED
      BY <2>2, <2>9, <3>1
  <2> QED
    BY <2>7, <2>8, <2>9
<1> QED
  BY <1>4, <1>5 DEF Counts

(***************************************************************************)
(* Removing it takes it off each of them, and an URI off the dictionary    *)
(* with its last operation.                                                *)
(***************************************************************************)
LEMMA UncountedLemma ==
    ASSUME NEW R \in SUBSET Ops, NEW o \in R, NEW d, Counts(d, R)
    PROVE  Counts(Uncounted(d, Affected[o]), R \ {o})
<1> DEFINE e == Uncounted(d, Affected[o])
           Q == R \ {o}
<1>1. \A u : OpsOn(Q, u) = OpsOn(R, u) \ {o}
  BY DEF OpsOn
<1>2. \A u : o \in OpsOn(R, u) <=> u \in Affected[o]
  BY DEF OpsOn
<1>3. ASSUME NEW u \in DOMAIN d
      PROVE  /\ IsFiniteSet(OpsOn(Q, u))
             /\ d[u] = Cardinality(OpsOn(R, u))
             /\ Cardinality(OpsOn(R, u)) \in Nat /\ Cardinality(OpsOn(Q, u)) \in Nat
             /\ Cardinality(OpsOn(Q, u)) =
                    IF u \in Affected[o] THEN d[u] - 1 ELSE d[u]
             /\ OpsOn(Q, u) = {} <=> Cardinality(OpsOn(Q, u)) = 0
  <2>1. IsFiniteSet(OpsOn(R, u))
    <3>1. OpsOn(R, u) \subseteq Ops
      BY DEF OpsOn
    <3> QED
      BY <3>1, OpsAssumption, FS_Subset
  <2>2. d[u] = Cardinality(OpsOn(R, u))
    BY DEF Counts
  <2>3. IsFiniteSet(OpsOn(Q, u))
    <3>1. OpsOn(Q, u) \subseteq OpsOn(R, u)
      BY <1>1
    <3> QED
      BY <2>1, <3>1, FS_Subset
  <2>4. Cardinality(OpsOn(R, u) \ {o}) = IF o \in OpsOn(R, u) THEN Cardinality(OpsOn(R, u)) - 1
                                                             ELSE Cardinality(OpsOn(R, u))
    BY <2>1, FS_RemoveElement
  <2>5. Cardinality(OpsOn(R, u)) \in Nat /\ Cardinality(OpsOn(Q, u)) \in Nat
    BY <2>1, <2>3, FS_CardinalityType
  <2>6. OpsOn(Q, u) = {} <=> Cardinality(OpsOn(Q, u)) = 0
    BY <2>3, FS_EmptySet
  <2> QED
    BY <1>1, <1>2, <2>2, <2>3, <2>4, <2>5, <2>6
<1>4. DOMAIN e = {u \in DOMAIN d : u \notin Affected[o] \/ d[u] > 1}
  BY DEF Uncounted
<1>5. ASSUME NEW u \in DOMAIN d PROVE u \in DOMAIN e <=> OpsOn(Q, u) # {}
  <2>1. d[u] \in Nat /\ d[u] > 0
    <3>1. OpsOn(R, u) # {} /\ IsFiniteSet(OpsOn(R, u))
      <4>1. OpsOn(R, u) \subseteq Ops
        BY DEF OpsOn
      <4> QED
        BY <4>1, OpsAssumption, FS_Subset DEF Counts
    <3>2. Cardinality(OpsOn(R, u)) # 0 /\ Cardinality(OpsOn(R, u)) \in Nat
      BY <3>1, FS_EmptySet, FS_CardinalityType
    <3> QED
      BY <1>3, <3>2
  <2>2. Cardinality(OpsOn(Q, u)) = IF u \in Affected[o] THEN d[u] - 1 ELSE d[u]
    BY <1>3
  <2>3. OpsOn(Q, u) = {} <=> Cardinality(OpsOn(Q, u)) = 0
    BY <1>3
  <2>4. u \in DOMAIN e <=> u \notin Affected[o] \/ d[u] > 1
    BY <1>4
  <2> HIDE DEF e, Q
  <2> QED
    BY <2>1, <2>2, <2>3, <2>4
<1>6. ASSUME NEW u \in Uris, u \notin DOMAIN d PROVE OpsOn(Q, u) = {}
  BY <1>1, <1>6 DEF Counts
<1>7. DOMAIN d \subseteq Uris /\ DOMAIN e \subseteq DOMAIN d
  BY <1>4 DEF Counts
<1>8. DOMAIN e = {u \in Uris : OpsOn(Q, u) # {}}
  BY <1>5, <1>6, <1>7
<1>9. ASSUME NEW u \in DOMAIN e PROVE e[u] = Cardinality(OpsOn(Q, u))
  <2>1. e[u] = IF u \in Affected[o] THEN d[u] - 1 ELSE d[u]
    BY <1>4 DEF Uncounted
  <2> QED
    BY <1>3, <1>7, <2>1
<1> QED
  BY <1>8, <1>9 DEF Counts

(***************************************************************************)
(* Every step keeps the types of the threads and of what the views know.   *)
(***************************************************************************)
LEMMA ThreadsStep ==
    ThreadsOK /\ [Next]_vars => ThreadsOK'
<1> SUFFICES ASSUME ThreadsOK, [Next]_vars PROVE ThreadsOK'
  OBVIOUS
<1>1. CASE Deliver
  BY <1>1 DEF Deliver, ThreadsOK, States, Results
<1>2. ASSUME NEW o \in Ops, Run(o) PROVE ThreadsOK'
  BY <1>2 DEF Run, Goto, ThreadsOK, States, Results
<1>3. ASSUME NEW o \in Ops, Stop(o) PROVE ThreadsOK'
  BY <1>3 DEF Stop, ThreadsOK, States, Results
<1>4. ASSUME NEW o \in Ops, Callback(o) PROVE ThreadsOK'
  BY <1>4 DEF Callback, Goto, ThreadsOK, States, Results
<1>5. ASSUME NEW o \in Ops, Register(o) PROVE ThreadsOK'
  BY <1>5 DEF Register, Goto, ThreadsOK, States, Results
<1>6. ASSUME NEW o \in Ops, Begin(o) PROVE ThreadsOK'
  BY <1>6 DEF Begin, Posted, Goto, ThreadsOK, States, Results
<1>7. ASSUME NEW o \in Ops, Finish(o) PROVE ThreadsOK'
  BY <1>7 DEF Finish, Return, Goto, ThreadsOK, States, Results
<1>8. ASSUME NEW o \in Ops, Fail(o) PROVE ThreadsOK'
  BY <1>8 DEF Fail, Return, Goto, ThreadsOK, States, Results
<1>9. ASSUME NEW o \in Ops, Unregister(o) PROVE ThreadsOK'
  BY <1>9 DEF Unregister, Goto, ThreadsOK, States, Results
<1>10. ASSUME NEW o \in Ops, End(o) PROVE ThreadsOK'
  BY <1>10 DEF End, Posted, Goto, ThreadsOK, States, Results
<1>11. ASSUME NEW o \in Ops, NEW u \in Uris, Change(o, u) PROVE ThreadsOK'
  BY <1>11 DEF Change, ThreadsOK, States, Results
<1>12. CASE UNCHANGED vars
  BY <1>12 DEF vars, ThreadsOK, States, Results
<1> QED
  BY <1>1, <1>2, <1>3, <1>4, <1>5, <1>6, <1>7, <1>8, <1>9, <1>10, <1>11, <1>12
     DEF Next, MainNext, ThreadNext, ThreadStep

LEMMA PostedLemma ==
    ASSUME notices \in Seq(SUBSET Uris), NEW o \in Ops
    PROVE  Posted(o) \in Seq(SUBSET Uris)
<1>1. Affected[o] \in SUBSET Uris
  BY OpsAssumption
<1> QED
  BY <1>1 DEF Posted

LEMMA ViewsStep ==
    ThreadsOK /\ ViewsOK /\ [Next]_vars => ViewsOK'
<1> SUFFICES ASSUME ThreadsOK, ViewsOK, [Next]_vars PROVE ViewsOK'
  OBVIOUS
<1>1. CASE Deliver
  BY <1>1, OpsAssumption DEF Deliver, ThreadsOK, States, ViewsOK
<1>2. ASSUME NEW o \in Ops, Run(o) PROVE ViewsOK'
  BY <1>2, OpsAssumption DEF Run, Goto, ThreadsOK, States, ViewsOK
<1>3. ASSUME NEW o \in Ops, Stop(o) PROVE ViewsOK'
  BY <1>3, OpsAssumption DEF Stop, ThreadsOK, States, ViewsOK
<1>4. ASSUME NEW o \in Ops, Callback(o) PROVE ViewsOK'
  BY <1>4, OpsAssumption DEF Callback, Goto, ThreadsOK, States, ViewsOK
<1>5. ASSUME NEW o \in Ops, Register(o) PROVE ViewsOK'
  BY <1>5, OpsAssumption DEF Register, Goto, ThreadsOK, States, ViewsOK
<1>6. ASSUME NEW o \in Ops, Begin(o) PROVE ViewsOK'
  BY <1>6, PostedLemma DEF Begin, Goto, ThreadsOK, States, ViewsOK
<1>7. ASSUME NEW o \in Ops, Finish(o) PROVE ViewsOK'
  BY <1>7, OpsAssumption DEF Finish, Return, Goto, ThreadsOK, States, ViewsOK
<1>8. ASSUME NEW o \in Ops, Fail(o) PROVE ViewsOK'
  BY <1>8, OpsAssumption DEF Fail, Return, Goto, ThreadsOK, States, ViewsOK
<1>9. ASSUME NEW o \in Ops, Unregister(o) PROVE ViewsOK'
  BY <1>9, OpsAssumption DEF Unregister, Goto, ThreadsOK, States, ViewsOK
<1>10. ASSUME NEW o \in Ops, End(o) PROVE ViewsOK'
  BY <1>10, PostedLemma DEF End, Goto, ThreadsOK, States, ViewsOK
<1>11. ASSUME NEW o \in Ops, NEW u \in Uris, Change(o, u) PROVE ViewsOK'
  BY <1>11, OpsAssumption DEF Change, ThreadsOK, States, ViewsOK
<1>12. CASE UNCHANGED vars
  BY <1>12 DEF vars, ThreadsOK, States, ViewsOK
<1> QED
  BY <1>1, <1>2, <1>3, <1>4, <1>5, <1>6, <1>7, <1>8, <1>9, <1>10, <1>11, <1>12
     DEF Next, MainNext, ThreadNext, ThreadStep

(***************************************************************************)
(* Only Register and Unregister touch the dictionaries, and each counts    *)
(* what it adds to the list or takes from it.                              *)
(***************************************************************************)
LEMMA CountsStep ==
    ThreadsOK /\ CountersAgree /\ [Next]_vars => CountersAgree'
<1> SUFFICES ASSUME ThreadsOK, CountersAgree, [Next]_vars PROVE CountersAgree'
  OBVIOUS
<1>1. CASE Deliver
  BY <1>1 DEF Deliver, ThreadsOK, CountersAgree
<1>2. ASSUME NEW o \in Ops, Run(o) PROVE CountersAgree'
  BY <1>2 DEF Run, Goto, ThreadsOK, CountersAgree
<1>3. ASSUME NEW o \in Ops, Stop(o) PROVE CountersAgree'
  BY <1>3 DEF Stop, ThreadsOK, CountersAgree
<1>4. ASSUME NEW o \in Ops, Callback(o) PROVE CountersAgree'
  BY <1>4 DEF Callback, Goto, ThreadsOK, CountersAgree
<1>5. ASSUME NEW o \in Ops, Register(o) PROVE CountersAgree'
  <2>1. o \in Ops \ running /\ running \subseteq Ops
    BY <1>5 DEF Register, Goto, ThreadsOK
  <2>2. Counts(Counted(affected, Affected[o]), running \cup {o})
    BY <2>1, CountedLemma DEF CountersAgree
  <2>3. CASE o \in Locking
    <3>1. Counts(Counted(locked, Affected[o]), (running \cap Locking) \cup {o})
      BY <2>1, CountedLemma DEF CountersAgree
    <3>2. (running \cap Locking) \cup {o} = (running \cup {o}) \cap Locking
      BY <2>3
    <3> QED
      BY <1>5, <2>2, <2>3, <3>1, <3>2 DEF Register, CountersAgree
  <2>4. CASE o \notin Locking
    <3>1. (running \cup {o}) \cap Locking = running \cap Locking
      BY <2>4
    <3> QED
      BY <1>5, <2>2, <2>4, <3>1 DEF Register, CountersAgree
  <2> QED
    BY <2>3, <2>4
<1>6. ASSUME NEW o \in Ops, Begin(o) PROVE CountersAgree'
  BY <1>6 DEF Begin, Posted, Goto, ThreadsOK, CountersAgree
<1>7. ASSUME NEW o \in Ops, Finish(o) PROVE CountersAgree'
  BY <1>7 DEF Finish, Return, Goto, ThreadsOK, CountersAgree
<1>8. ASSUME NEW o \in Ops, Fail(o) PROVE CountersAgree'
  BY <1>8 DEF Fail, Return, Goto, ThreadsOK, CountersAgree
<1>9. ASSUME NEW o \in Ops, Unregister(o) PROVE CountersAgree'
  <2>1. o \in running /\ running \subseteq Ops
    BY <1>9 DEF Unregister, Goto, ThreadsOK
  <2>2. Counts(Uncounted(affected, Affected[o]), running \ {o})
    BY <2>1, UncountedLemma DEF CountersAgree
  <2>3. CASE o \in Locking
    <3>1. Counts(Uncounted(locked, Affected[o]), (running \cap Locking) \ {o})
      BY <2>1, <2>3, UncountedLemma DEF CountersAgree
    <3>2. (running \cap Locking) \ {o} = (running \ {o}) \cap Locking
      OBVIOUS
    <3> QED
      BY <1>9, <2>2, <2>3, <3>1, <3>2 DEF Unregister, CountersAgree
  <2>4. CASE o \notin Locking
    <3>1. (running \ {o}) \cap Locking = running \cap Locking
      BY <2>4
    <3> QED
      BY <1>9, <2>2, <2>4, <3>1 DEF Unregister, CountersAgree
  <2> QED
    BY <2>3, <2>4
<1>10. ASSUME NEW o \in Ops, End(o) PROVE CountersAgree'
  BY <1>10 DEF End, Posted, Goto, ThreadsOK, CountersAgree
<1>11. ASSUME NEW o \in Ops, NEW u \in Uris, Change(o, u) PROVE CountersAgree'
  BY <1>11 DEF Change, ThreadsOK, CountersAgree
<1>12. CASE UNCHANGED vars
  BY <1>12 DEF vars, ThreadsOK, CountersAgree
<1> QED
  BY <1>1, <1>2, <1>3, <1>4, <1>5, <1>6, <1>7, <1>8, <1>9, <1>10, <1>11, <1>12
     DEF Next, MainNext, ThreadNext, ThreadStep

(***************************************************************************)
(* A dictionary that counts has no numbers but positive ones.              *)
(***************************************************************************)
LEMMA CounterLemma ==
    ASSUME NEW R \in SUBSET Ops, NEW d, Counts(d, R)
    PROVE  IsCounter(d)
<1>1. DOMAIN d \subseteq Uris
  BY DEF Counts
<1>2. ASSUME NEW u \in DOMAIN d PROVE d[u] \in Nat /\ d[u] > 0
  <2>1. OpsOn(R, u) # {} /\ IsFiniteSet(OpsOn(R, u))
    <3>1. OpsOn(R, u) \subseteq Ops
      BY DEF OpsOn
    <3> QED
      BY <3>1, OpsAssumption, FS_Subset DEF Counts
  <2>2. Cardinality(OpsOn(R, u)) # 0 /\ Cardinality(OpsOn(R, u)) \in Nat
    BY <2>1, FS_EmptySet, FS_CardinalityType
  <2> QED
    BY <2>2 DEF Counts
<1> QED
  BY <1>1, <1>2 DEF IsCounter

LEMMA CountersInductive == Spec => [](ThreadsOK /\ ViewsOK /\ CountersAgree)
<1>1. Init => ThreadsOK
  BY DEF Init, ThreadsOK, States, Results
<1>2. Init => ViewsOK
  BY DEF Init, ViewsOK
<1>3. Init => CountersAgree
  BY DEF Init, CountersAgree, Counts, OpsOn
<1> QED
  BY <1>1, <1>2, <1>3, ThreadsStep, ViewsStep, CountsStep, PTL DEF Spec

(***************************************************************************)
(* The dictionaries agree with the list of running operations.             *)
(***************************************************************************)
THEOREM CountersCorrect == Spec => []CountersAgree
  BY CountersInductive, PTL

(***************************************************************************)
(* The types; those of the dictionaries follow from what they count.       *)
(***************************************************************************)
THEOREM AsyncTypeCorrect == Spec => []TypeOK
<1>1. ThreadsOK /\ ViewsOK /\ CountersAgree => TypeOK
  <2> SUFFICES ASSUME ThreadsOK, ViewsOK, CountersAgree PROVE TypeOK
    OBVIOUS
  <2>1. running \subseteq Ops
    BY DEF ThreadsOK
  <2>2. IsCounter(affected)
    BY <2>1, CounterLemma DEF CountersAgree
  <2>3. IsCounter(locked)
    <3>1. running \cap Locking \in SUBSET Ops
      BY <2>1
    <3> QED
      BY <3>1, CounterLemma DEF CountersAgree
  <2> QED
    BY <2>2, <2>3 DEF TypeOK
<1> QED
  BY <1>1, CountersInductive, PTL

(***************************************************************************)
(* A changed file is pending until its view was updated: the operation     *)
(* that changed it is still in the list, and counted on its URIs.          *)
(***************************************************************************)
THEOREM NoFalseWarningCorrect == Spec => []NoFalseWarning
<1>1. ThreadsOK /\ ViewsOK /\ CountersAgree => NoFalseWarning
  <2> SUFFICES ASSUME ThreadsOK, ViewsOK, CountersAgree, NEW s \in stale
               PROVE  s[2] \in DOMAIN affected
    BY DEF NoFalseWarning
  <2>1. s[1] \in running /\ s[2] \in Affected[s[1]] /\ s[2] \in Uris
    BY OpsAssumption DEF ThreadsOK, ViewsOK
  <2>2. s[1] \in OpsOn(running, s[2])
    BY <2>1 DEF OpsOn
  <2> QED
    BY <2>1, <2>2 DEF CountersAgree, Counts
<1> QED
  BY <1>1, CountersInductive, PTL

(***************************************************************************)
(* While an operation that was asked to stop runs, its status says so, and *)
(* there is no result yet.                                                 *)
(***************************************************************************)
AskedInv ==
    /\ \A o \in asked :
        /\ pc[o] \notin {"new", "starting", "listed"}
        /\ pc[o] = "running" => status[o] = "stopping"
        /\ result[o] # "successful"
    /\ \A o \in Ops :
        pc[o] \in {"new", "starting", "listed", "running"} => result[o] = "none"

LEMMA AskedStep ==
    ThreadsOK /\ AskedInv /\ [Next]_vars => AskedInv'
<1> SUFFICES ASSUME ThreadsOK, AskedInv, [Next]_vars PROVE AskedInv'
  OBVIOUS
<1>1. CASE Deliver
  BY <1>1 DEF Deliver, ThreadsOK, AskedInv, States, Results
<1>2. ASSUME NEW o \in Ops, Run(o) PROVE AskedInv'
  BY <1>2 DEF Run, Goto, ThreadsOK, AskedInv, States, Results
<1>3. ASSUME NEW o \in Ops, Stop(o) PROVE AskedInv'
  BY <1>3 DEF Stop, ThreadsOK, AskedInv, States, Results
<1>4. ASSUME NEW o \in Ops, Callback(o) PROVE AskedInv'
  BY <1>4 DEF Callback, Goto, ThreadsOK, AskedInv, States, Results
<1>5. ASSUME NEW o \in Ops, Register(o) PROVE AskedInv'
  BY <1>5 DEF Register, Goto, ThreadsOK, AskedInv, States, Results
<1>6. ASSUME NEW o \in Ops, Begin(o) PROVE AskedInv'
  BY <1>6 DEF Begin, Posted, Goto, ThreadsOK, AskedInv, States, Results
<1>7. ASSUME NEW o \in Ops, Finish(o) PROVE AskedInv'
  BY <1>7 DEF Finish, Return, Goto, ThreadsOK, AskedInv, States, Results
<1>8. ASSUME NEW o \in Ops, Fail(o) PROVE AskedInv'
  BY <1>8 DEF Fail, Return, Goto, ThreadsOK, AskedInv, States, Results
<1>9. ASSUME NEW o \in Ops, Unregister(o) PROVE AskedInv'
  BY <1>9 DEF Unregister, Goto, ThreadsOK, AskedInv, States, Results
<1>10. ASSUME NEW o \in Ops, End(o) PROVE AskedInv'
  BY <1>10 DEF End, Posted, Goto, ThreadsOK, AskedInv, States, Results
<1>11. ASSUME NEW o \in Ops, NEW u \in Uris, Change(o, u) PROVE AskedInv'
  BY <1>11 DEF Change, ThreadsOK, AskedInv, States, Results
<1>12. CASE UNCHANGED vars
  BY <1>12 DEF vars, ThreadsOK, AskedInv, States, Results
<1> QED
  BY <1>1, <1>2, <1>3, <1>4, <1>5, <1>6, <1>7, <1>8, <1>9, <1>10, <1>11, <1>12
     DEF Next, MainNext, ThreadNext, ThreadStep

(***************************************************************************)
(* A stop during the run is reported as one, or as an error.               *)
(***************************************************************************)
THEOREM StopCorrect == Spec => []StopIsReported
<1>1. Init => AskedInv
  BY DEF Init, AskedInv
<1>2. AskedInv => StopIsReported
  BY DEF AskedInv, StopIsReported
<1> QED
  BY <1>1, <1>2, AskedStep, CountersInductive, PTL DEF Spec

(***************************************************************************)
(* One URI, all of whose operations notify.                                *)
(***************************************************************************)
Shown(w) == (w \in throbber <=> w \in DOMAIN affected) \/ Notified(w)

LEMMA ShownStep ==
    ASSUME NEW w \in Uris, \A o \in Ops : w \in Affected[o] => o \in Updating
    PROVE  ThreadsOK /\ ViewsOK /\ Shown(w) /\ [Next]_vars => Shown(w)'
<1> SUFFICES ASSUME ThreadsOK, ViewsOK, Shown(w), [Next]_vars PROVE Shown(w)'
  OBVIOUS
<1> USE DEF ThreadsOK, States
<1>1. CASE Deliver
  <2>1. CASE w \in Head(notices)
    BY <1>1, <2>1 DEF Deliver, Shown
  <2>2. CASE w \notin Head(notices)
    <3>1. w \in throbber' <=> w \in throbber
      BY <1>1, <2>2 DEF Deliver
    <3>2. ASSUME NEW i \in DOMAIN notices, w \in notices[i]
          PROVE  i - 1 \in DOMAIN notices' /\ notices'[i - 1] = notices[i]
      <4>1. notices # <<>> /\ notices' = Tail(notices) /\ notices \in Seq(SUBSET Uris)
        BY <1>1 DEF Deliver, ViewsOK
      <4>2. i # 1
        BY <2>2, <3>2, <4>1
      <4> QED
        BY <4>1, <4>2
    <3>3. Notified(w) => Notified(w)'
      BY <1>1, <3>2 DEF Deliver, Notified
    <3> QED
      BY <1>1, <3>1, <3>3 DEF Deliver, Shown
  <2> QED
    BY <2>1, <2>2
<1>2. ASSUME NEW o \in Ops, Run(o) PROVE Shown(w)'
  BY <1>2 DEF Run, Goto, Shown, Notified
<1>3. ASSUME NEW o \in Ops, Stop(o) PROVE Shown(w)'
  BY <1>3 DEF Stop, Shown, Notified
<1>4. ASSUME NEW o \in Ops, Callback(o) PROVE Shown(w)'
  BY <1>4 DEF Callback, Goto, Shown, Notified
<1>5. ASSUME NEW o \in Ops, Register(o) PROVE Shown(w)'
  <2>1. CASE w \in Affected[o]
    BY <1>5, <2>1 DEF Register, Goto, Shown, Notified
  <2>2. CASE w \notin Affected[o]
    <3>1. w \in DOMAIN affected' <=> w \in DOMAIN affected
      BY <1>5, <2>2 DEF Register, Counted
    <3>2. Notified(w) => Notified(w)'
      BY <1>5, <2>2 DEF Register, Goto, Notified
    <3> QED
      BY <1>5, <3>1, <3>2 DEF Register, Shown
  <2> QED
    BY <2>1, <2>2
<1>6. ASSUME NEW o \in Ops, Begin(o) PROVE Shown(w)'
  <2>1. CASE w \in Affected[o]
    <3>1. notices' = Append(notices, Affected[o])
      BY <1>6, <2>1 DEF Begin, Posted
    <3>2. Len(notices) + 1 \in DOMAIN notices' /\ notices'[Len(notices) + 1] = Affected[o]
      BY <3>1, OpsAssumption DEF ViewsOK
    <3> QED
      BY <2>1, <3>2 DEF Shown, Notified
  <2>2. CASE w \notin Affected[o]
    <3>1. \A i \in DOMAIN notices : i \in DOMAIN notices' /\ notices'[i] = notices[i]
      BY <1>6, OpsAssumption DEF Begin, Posted, ViewsOK
    <3>2. Notified(w) => Notified(w)'
      BY <1>6, <2>2, <3>1 DEF Begin, Goto, Notified
    <3> QED
      BY <1>6, <3>2 DEF Begin, Shown
  <2> QED
    BY <2>1, <2>2
<1>7. ASSUME NEW o \in Ops, Finish(o) PROVE Shown(w)'
  BY <1>7 DEF Finish, Return, Goto, Shown, Notified
<1>8. ASSUME NEW o \in Ops, Fail(o) PROVE Shown(w)'
  BY <1>8 DEF Fail, Return, Goto, Shown, Notified
<1>9. ASSUME NEW o \in Ops, Unregister(o) PROVE Shown(w)'
  <2>1. CASE w \in Affected[o]
    BY <1>9, <2>1 DEF Unregister, Goto, Shown, Notified
  <2>2. CASE w \notin Affected[o]
    <3>1. w \in DOMAIN affected' <=> w \in DOMAIN affected
      BY <1>9, <2>2 DEF Unregister, Uncounted
    <3>2. Notified(w) => Notified(w)'
      BY <1>9, <2>2 DEF Unregister, Goto, Notified
    <3> QED
      BY <1>9, <3>1, <3>2 DEF Unregister, Shown
  <2> QED
    BY <2>1, <2>2
<1>10. ASSUME NEW o \in Ops, End(o) PROVE Shown(w)'
  <2>1. CASE w \in Affected[o]
    <3>1. notices' = Append(notices, Affected[o])
      BY <1>10, <2>1 DEF End, Posted
    <3>2. Len(notices) + 1 \in DOMAIN notices' /\ notices'[Len(notices) + 1] = Affected[o]
      BY <3>1, OpsAssumption DEF ViewsOK
    <3> QED
      BY <2>1, <3>2 DEF Shown, Notified
  <2>2. CASE w \notin Affected[o]
    <3>1. \A i \in DOMAIN notices : i \in DOMAIN notices' /\ notices'[i] = notices[i]
      BY <1>10, OpsAssumption DEF End, Posted, ViewsOK
    <3>2. Notified(w) => Notified(w)'
      BY <1>10, <2>2, <3>1 DEF End, Goto, Notified
    <3> QED
      BY <1>10, <3>2 DEF End, Shown
  <2> QED
    BY <2>1, <2>2
<1>11. ASSUME NEW o \in Ops, NEW u \in Uris, Change(o, u) PROVE Shown(w)'
  BY <1>11 DEF Change, Shown, Notified
<1>12. CASE UNCHANGED vars
  BY <1>12 DEF vars, Shown, Notified
<1> QED
  BY <1>1, <1>2, <1>3, <1>4, <1>5, <1>6, <1>7, <1>8, <1>9, <1>10, <1>11, <1>12
     DEF Next, MainNext, ThreadNext, ThreadStep

(***************************************************************************)
(* The throbber agrees with the dictionary, or will be brought up to date. *)
(***************************************************************************)
THEOREM ThrobberCorrect == Spec => []ThrobberAgrees
<1>1. Init => ThrobberAgrees
  BY DEF Init, ThrobberAgrees
<1>2. ThreadsOK /\ ViewsOK /\ ThrobberAgrees /\ [Next]_vars => ThrobberAgrees'
  BY ShownStep DEF ThrobberAgrees, Shown
<1> QED
  BY <1>1, <1>2, CountersInductive, PTL DEF Spec
==============================================================================
