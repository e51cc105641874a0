-------------------------- MODULE Collaboration_proofs --------------------------
(***************************************************************************)
(* Proofs about collaborative editing.  The first part is about MobWrite,  *)
(* for any clients and texts and any number of edits, lost messages and    *)
(* deleted views; the second about the timers of SyncTask, for any files   *)
(* and any number of calls of share.                                       *)
(***************************************************************************)
EXTENDS MobWrite, SyncTask, Subsequences_proofs, TLAPS

------------------------------------------------------------------------------
(***************************************************************************)
(* What a client has on its stack: raw texts, then deltas, each from the   *)
(* text that the edit before it leads to, up to the shadow.                *)
(***************************************************************************)
After(e) == IF e.kind = "d" THEN e.v + 1 ELSE e.v

InOrder(k) ==
    LET s == k.stack IN
    /\ \A i \in 1..Len(s) : s[i].kind = "r" \/ (s[i].kind = "d" /\ s[i].id \in 1..k.ids)
    /\ \A i, j \in 1..Len(s) : i < j =>
         /\ After(s[i]) <= s[j].v
         /\ s[j].kind = "r" => s[i].kind = "r"
         /\ s[i].kind = "d" => s[i].id < s[j].id
    /\ \A i \in 1..Len(s) - 1 :
         s[i + 1].kind = "d" => s[i + 1].v = After(s[i]) /\ s[i + 1].from = s[i].to
    /\ s # <<>> => After(s[Len(s)]) = k.cv /\ s[Len(s)].to = k.shadow
    /\ ~k.ok => \A i \in 1..Len(s) : s[i].kind = "r"

(***************************************************************************)
(* A request m of client k, of which some edits have been handled.         *)
(***************************************************************************)
Handled(k, m) == Len(k.stack) - Len(m.edits)

IsRequest(k, m) ==
    /\ k.stack # <<>>
    /\ m.version = k.sv
    /\ Len(m.edits) <= Len(k.stack)
    /\ \A i \in 1..Len(m.edits) : m.edits[i] = k.stack[Handled(k, m) + i]

EndsRaw(m) == m.edits # <<>> /\ m.edits[Len(m.edits)].kind = "R"

Stacked(w) == w # NoView => \A i \in 1..Len(w.stack) : w.stack[i].v <= w.ssv

(***************************************************************************)
(* What holds of a client k, its view w, its message m and job j in phase  *)
(* ph, s being the deltas seen, whether its text was replaced or not.      *)
(***************************************************************************)
Sound(k, w, m, j, ph, s) ==
    /\ ph # "reading" => InOrder(k)
    /\ ph \in {"sent", "serving"} => IsRequest(k, m)
    /\ ph = "sent" => Handled(k, m) = 0
    /\ ph = "serving" =>
         /\ j.view # NoView
         /\ j.view.ok => \A i \in 1..Handled(k, m) : k.stack[i].v <= j.view.scv
    /\ ph = "answered" => EndsRaw(m) \/ \A i \in 1..Len(k.stack) : k.stack[i].v <= m.version
    /\ ph = "reading" => EndsRaw(m) \/ k.stack = <<>>
    /\ Stacked(w) /\ Stacked(j.view)
    /\ s \subseteq 1..k.ids

(***************************************************************************)
(* As long as nobody has set the text.                                     *)
(***************************************************************************)
StartsRaw(k) == k.stack # <<>> /\ k.stack[1].kind = "r"

Untold(k, m, j, ph) ==
    /\ ph \in {"idle", "sent", "serving"}
    /\ j.text = Unread
    /\ IF k.stack = <<>> THEN ~k.ok ELSE StartsRaw(k)
    /\ ph = "serving" => Handled(k, m) = 0

(***************************************************************************)
(* The version and the text of a client after p edits of its stack.        *)
(***************************************************************************)
VersionAt(k, p) ==
    IF p > 0 THEN After(k.stack[p]) ELSE IF k.stack = <<>> THEN k.cv ELSE k.stack[1].v

TextAt(k, p) ==
    IF p > 0 THEN k.stack[p].to ELSE IF k.stack = <<>> THEN k.shadow ELSE k.stack[1].from

Merged(k, p, s) == \A i \in 1..Len(k.stack) : k.stack[i].id \in s <=> i <= p

(***************************************************************************)
(* How a view stands to its client between two requests: it was deleted    *)
(* and is new, it is where the client's stack begins, or the last answer   *)
(* was lost, and its backup is where the p edits that it merged lead.      *)
(***************************************************************************)
Forgotten(w) == w = NoView \/ (w.ssv = 0 /\ w.bsv = 0)

InStep(k, w) == w.ssv = k.sv /\ w.scv = VersionAt(k, 0) /\ w.shadow = TextAt(k, 0)

Ahead(k, w, p) ==
    w.ssv = k.sv + 1 /\ w.bsv = k.sv /\ w.scv = VersionAt(k, p) /\ w.backup = TextAt(k, p)

Related(k, w, s) ==
    \/ StartsRaw(k)
    \/ k.stack = <<>> /\ ~k.ok
    \/ /\ ~StartsRaw(k) /\ k.sv > 0
       /\ \/ Forgotten(w)
          \/ w # NoView /\ InStep(k, w) /\ Merged(k, 0, s)
          \/ w # NoView /\ \E p \in 1..Len(k.stack) : Ahead(k, w, p) /\ Merged(k, p, s)

(***************************************************************************)
(* How the server's copy w of the view stands to the client while it       *)
(* serves the request: it knows the text after p of the edits, or nothing. *)
(***************************************************************************)
StandsAt(k, w, p, s) ==
    /\ w.ssv = k.sv /\ w.stack = <<>> /\ w.ok
    /\ w.scv = VersionAt(k, p) /\ w.shadow = TextAt(k, p)
    /\ p > 0 => w.backup = w.shadow /\ w.bsv = k.sv
    /\ StartsRaw(k) => p > 0
    /\ ~StartsRaw(k) => k.sv > 0 /\ Merged(k, p, s)

Adrift(k, w) == ~StartsRaw(k) /\ k.sv > 0 /\ w.ssv = 0 /\ w.bsv = 0 /\ w.stack = <<>>

Served(k, m, w, s) ==
    IF Handled(k, m) = 0 THEN Related(k, w, s) /\ w.ok
    ELSE \/ Adrift(k, w) /\ ~w.ok
         \/ \E p \in Handled(k, m)..Len(k.stack) :
              /\ StandsAt(k, w, p, s)
              /\ StartsRaw(k) => p = Handled(k, m)

(***************************************************************************)
(* An answer m: the server's text, or a delta from the client's shadow to  *)
(* that of the view.                                                       *)
(***************************************************************************)
IsReply(k, w, m) ==
    /\ Len(m.edits) = 1
    /\ LET e == m.edits[1] IN
         \/ e.kind = "R"
         \/ /\ e.kind = "d" /\ m.version = k.cv /\ e.v = k.sv /\ e.from = k.shadow
            /\ w # NoView => w.ssv = k.sv + 1 /\ w.scv = k.cv /\ w.shadow = e.to

Known(k, w, m, j, ph, s) ==
    /\ ph \in {"idle", "sent", "answered"} => Related(k, w, s)
    /\ ph = "serving" => Served(k, m, j.view, s)
    /\ ph = "answered" => IsReply(k, w, m)
    /\ ph = "reading" =>
         /\ k.ok
         /\ IF m.edits # <<>> THEN IsReply(k, w, m)
            ELSE k.stack = <<>> /\ k.sv > 0 /\ (w # NoView => InStep(k, w))

ClientInv(c) ==
    /\ Sound(client[c], view[c], msg[c], job[c], phase[c], seen[c])
    /\ text = NoText => Untold(client[c], msg[c], job[c], phase[c])
    /\ ~replaced[c] => Known(client[c], view[c], msg[c], job[c], phase[c], seen[c])

MobWriteInv == TypeOK /\ \A c \in Clients : ClientInv(c)

------------------------------------------------------------------------------
(***************************************************************************)
(* Stacks of edits.                                                        *)
(***************************************************************************)
LEMMA UnackedIs ==
    ASSUME NEW s \in Seq(Edits), NEW v \in Nat
    PROVE  /\ Unacked(s, v) \in Seq(Edits)
           /\ \A j \in 1..Len(Unacked(s, v)) :
                \E i \in 1..Len(s) : Unacked(s, v)[j] = s[i] /\ s[i].v > v
           /\ (\A i \in 1..Len(s) : s[i].v <= v) => Unacked(s, v) = <<>>
<1>. DEFINE K == {i \in DOMAIN s : s[i].v > v}
<1>1. K \in SUBSET (1..Len(s)) /\ Unacked(s, v) = Picked(s, K)
  BY DEF Unacked
<1>2. \A i \in K : s[i].v > v
  OBVIOUS
<1>. HIDE DEF K
<1>3. Picked(s, K) \in Seq(Edits)
  BY <1>1, PickedType
<1>4. \A j \in 1..Len(Picked(s, K)) : \E i \in K : Picked(s, K)[j] = s[i]
  <2>1. \A j \in DOMAIN Picked(s, K) : \E i \in K : Picked(s, K)[j] = s[i]
    BY <1>1, PickedKeeps, Zenon
  <2>. QED
    BY <1>3, <2>1, LenProperties
<1>5. ASSUME \A i \in 1..Len(s) : s[i].v <= v
      PROVE  Picked(s, K) = <<>>
  <2>1. \A i \in 1..Len(s) : s[i] \in Edits /\ s[i].v \in Nat
    <3>1. \A i \in 1..Len(s) : s[i] \in Edits
      BY ElementOfSeq
    <3>. QED
      BY <3>1 DEF Edits
  <2>2. K = {}
    BY <1>1, <1>2, <1>5, <2>1
  <2>3. ~ \E j \in 1..Len(Picked(s, K)) : TRUE
    BY <1>4, <2>2
  <2>. QED
    BY <1>3, <2>3, EmptySeq
<1>. QED
  BY <1>1, <1>2, <1>3, <1>4, <1>5

LEMMA TailIs ==
    ASSUME NEW s \in Seq(Edits), s # <<>>
    PROVE  /\ Head(s) = s[1] /\ s[1] \in Edits /\ Len(s) \in Nat \ {0}
           /\ Tail(s) \in Seq(Edits) /\ Len(Tail(s)) = Len(s) - 1
           /\ \A i \in 1..Len(s) - 1 : Tail(s)[i] = s[i + 1]
  BY HeadTailProperties, EmptySeq, ElementOfSeq

LEMMA AppendIs ==
    ASSUME NEW s \in Seq(Edits), NEW e \in Edits
    PROVE  /\ Append(s, e) \in Seq(Edits) /\ Len(s) \in Nat /\ Len(Append(s, e)) = Len(s) + 1
           /\ Append(s, e) # <<>>
           /\ Append(s, e)[Len(s) + 1] = e
           /\ \A i \in 1..Len(s) : Append(s, e)[i] = s[i]
  BY AppendProperties

------------------------------------------------------------------------------
(***************************************************************************)
(* The types of what the operations return.                                *)
(***************************************************************************)
LEMMA EditTypes ==
    ASSUME NEW v \in Nat, NEW t \in Text, NEW u \in Text, NEW id \in Nat,
           NEW kind \in {"r", "R"}
    PROVE  Delta(v, t, u, id) \in Edits /\ Raw(kind, v, t) \in Edits
  BY DEF Delta, Raw, Edits, Text

LEMMA PatchType ==
    ASSUME NEW t \in Text, NEW e \in Edits
    PROVE  Patch(t, e) \in Text
  BY DEF Patch, Text, Edits

\* A delta that is applied to the text it was computed from leads to its text.
LEMMA PatchIs ==
    ASSUME NEW e \in Edits
    PROVE  Fits(e.from, e) /\ Patch(e.from, e) = e.to
<1>1. Fits(e.from, e)
  BY DEF Fits
<1>2. Patch(e.from, e) = e.to
  BY DEF Patch
<1>. QED
  BY <1>1, <1>2

LEMMA SyncedType ==
    ASSUME NEW k \in ShareObjs
    PROVE  Synced(k) \in ShareObjs
<1>1. Raw("r", k.cv + 1, k.text) \in Edits
  BY EditTypes DEF ShareObjs
<1>2. Delta(k.cv, k.shadow, k.text, k.ids + 1) \in Edits
  BY EditTypes DEF ShareObjs
<1>3. /\ Append(k.stack, Raw("r", k.cv + 1, k.text)) \in Seq(Edits)
      /\ Append(k.stack, Delta(k.cv, k.shadow, k.text, k.ids + 1)) \in Seq(Edits)
  BY <1>1, <1>2, AppendIs DEF ShareObjs
<1>. DEFINE raw == Append(k.stack, Raw("r", k.cv + 1, k.text))
            delta == Append(k.stack, Delta(k.cv, k.shadow, k.text, k.ids + 1))
            cv == k.cv + 1
            ids == k.ids + 1
<1>7. /\ raw \in Seq(Edits) /\ delta \in Seq(Edits) /\ cv \in Nat /\ ids \in Nat
      /\ k.text \in Text
  BY <1>3 DEF ShareObjs
<1>. HIDE DEF raw, delta, cv, ids
<1>4. CASE ~k.ok
  <2>1. [k EXCEPT !.shadow = k.text, !.cv = cv, !.ok = TRUE, !.stack = raw] \in ShareObjs
    BY <1>7 DEF ShareObjs
  <2>. QED
    BY <2>1, <1>4 DEF Synced, raw, cv
<1>5. CASE k.ok /\ k.text = k.shadow /\ k.stack # <<>>
  BY <1>5 DEF Synced
<1>6. CASE k.ok /\ ~(k.text = k.shadow /\ k.stack # <<>>)
  <2>1. [k EXCEPT !.shadow = k.text, !.cv = cv, !.ids = ids, !.stack = delta] \in ShareObjs
    BY <1>7 DEF ShareObjs
  <2>. QED
    BY <2>1, <1>6 DEF Synced, delta, cv, ids
<1>. QED
  BY <1>4, <1>5, <1>6 DEF ShareObjs

LEMMA ReadTypes ==
    ASSUME NEW k \in ShareObjs, NEW e \in Edits, NEW v \in Nat
    PROVE  Received(k, e, v) \in ShareObjs /\ Replaced(k, e, v) \in ShareObjs
<1>1. Patch(k.shadow, e) \in Text /\ Patch(k.text, e) \in Text
  BY PatchType DEF ShareObjs
<1>2. Received(k, e, v) \in ShareObjs
  <2>1. [k EXCEPT !.ok = FALSE] \in ShareObjs
    BY DEF ShareObjs
  <2>2. [k EXCEPT !.sv = @ + 1, !.shadow = Patch(@, e), !.text = Patch(@, e)] \in ShareObjs
    <3>. DEFINE shadow == Patch(k.shadow, e)
                t == Patch(k.text, e)
                sv == k.sv + 1
    <3>1. shadow \in Text /\ t \in Text /\ sv \in Nat
      BY <1>1 DEF ShareObjs
    <3>. HIDE DEF shadow, t, sv
    <3>2. [k EXCEPT !.sv = sv, !.shadow = shadow, !.text = t] \in ShareObjs
      BY <3>1 DEF ShareObjs
    <3>. QED
      BY <3>2 DEF shadow, t, sv
  <2>. QED
    BY <2>1, <2>2 DEF Received
<1>3. Replaced(k, e, v) \in ShareObjs
  <2>1. /\ e.to \in Text /\ e.v \in Nat /\ <<>> \in Seq(Edits)
        /\ (IF e.kind = "R" THEN e.to ELSE k.text) \in Text
    BY EmptySeq DEF Edits, ShareObjs
  <2>. DEFINE t == IF e.kind = "R" THEN e.to ELSE k.text
  <2>2. Replaced(k, e, v) = [k EXCEPT !.shadow = e.to, !.cv = v, !.sv = e.v,
                                      !.stack = <<>>, !.text = t]
    BY DEF Replaced
  <2>. HIDE DEF t
  <2>3. t \in Text
    BY <2>1 DEF t
  <2>. QED
    BY <2>1, <2>2, <2>3 DEF ShareObjs
<1>. QED
  BY <1>2, <1>3

\* What a request of version v leaves of the server's copy of the view.
AckedView(w, v) == [RolledBack(w, v) EXCEPT !.stack = Unacked(@, v)]

LEMMA AckedType ==
    ASSUME NEW w \in ViewObjs, NEW v \in Nat
    PROVE  RolledBack(w, v) \in ViewObjs /\ AckedView(w, v) \in ViewObjs
<1>1. RolledBack(w, v) \in ViewObjs
  <2>1. [w EXCEPT !.shadow = w.backup, !.ssv = w.bsv, !.stack = <<>>] \in ViewObjs
    BY EmptySeq DEF ViewObjs
  <2>. QED
    BY <2>1 DEF RolledBack
<1>2. Unacked(RolledBack(w, v).stack, v) \in Seq(Edits)
  BY <1>1, UnackedIs DEF ViewObjs
<1>. QED
  BY <1>1, <1>2 DEF AckedView, ViewObjs

LEMMA AckedIsView ==
    ASSUME NEW c
    PROVE  Acked(c) = AckedView(job[c].view, msg[c].version)
  BY DEF Acked, AckedView

LEMMA FreshType == FreshView \in ViewObjs
  BY DEF FreshView, ViewObjs

------------------------------------------------------------------------------
(***************************************************************************)
(* The types are kept, one lemma for each part of the system.              *)
(***************************************************************************)
USE DEF netVars, boundVars, historyVars

LEMMA OwnTypes ==
    ASSUME TypeOK, NEW c \in Clients
    PROVE  /\ client[c] \in ShareObjs
           /\ view[c] \in {NoView} \cup ViewObjs
           /\ job[c].view \in {NoView} \cup ViewObjs
           /\ job[c].text \in {Unread} \cup Text
           /\ msg[c].version \in Nat /\ msg[c].edits \in Seq(Edits)
           /\ msg[c] = [version |-> msg[c].version, edits |-> msg[c].edits]
           /\ job[c] = [view |-> job[c].view, text |-> job[c].text]
           /\ phase[c] \in {"idle", "sent", "serving", "answered", "reading"}
           /\ seen[c] \in SUBSET Nat /\ replaced[c] \in BOOLEAN
  BY DEF TypeOK

LEMMA FieldTypes ==
    ASSUME NEW k \in ShareObjs
    PROVE  /\ k.text \in Text /\ k.shadow \in Text /\ k.cv \in Nat /\ k.sv \in Nat
           /\ k.ok \in BOOLEAN /\ k.stack \in Seq(Edits) /\ k.ids \in Nat
  BY DEF ShareObjs

LEMMA ViewTypes ==
    ASSUME NEW w \in ViewObjs
    PROVE  /\ w.shadow \in {NoText} \cup Text /\ w.backup \in {NoText} \cup Text
           /\ w.scv \in Nat /\ w.ssv \in Nat /\ w.bsv \in Nat
           /\ w.ok \in BOOLEAN /\ w.stack \in Seq(Edits) /\ w # NoView
  BY NoViewAssumption DEF ViewObjs

LEMMA TypingTypes ==
    ASSUME TypeOK, NEW c \in Clients, NEW t \in Text, Typing(c, t), used' \subseteq Tokens
    PROVE  TypeOK'
<1>1. client' = [client EXCEPT ![c].text = t] /\ edits' = edits + 1
  BY DEF Typing
<1>2. [client[c] EXCEPT !.text = t] \in ShareObjs
  BY OwnTypes DEF ShareObjs
<1>3. client' \in [Clients -> ShareObjs] /\ edits' \in Nat
  BY <1>1, <1>2 DEF TypeOK
<1>. QED
  BY <1>3 DEF Typing, TypeOK

LEMMA SyncTypes ==
    ASSUME TypeOK, NEW c \in Clients, Sync(c)
    PROVE  TypeOK'
<1>1. Synced(client[c]) \in ShareObjs
  BY OwnTypes, SyncedType
<1>2. /\ client' = [client EXCEPT ![c] = Synced(client[c])]
      /\ msg' = [msg EXCEPT ![c] = [version |-> Synced(client[c]).sv,
                                    edits |-> Synced(client[c]).stack]]
      /\ phase' = [phase EXCEPT ![c] = "sent"]
      /\ polls' = IF Due(c) THEN polls ELSE polls + 1
  BY DEF Sync
<1>3. [version |-> Synced(client[c]).sv, edits |-> Synced(client[c]).stack]
        \in [version : Nat, edits : Seq(Edits)]
  BY <1>1, FieldTypes
<1>4. /\ client' \in [Clients -> ShareObjs]
      /\ msg' \in [Clients -> [version : Nat, edits : Seq(Edits)]]
      /\ phase' \in [Clients -> {"idle", "sent", "serving", "answered", "reading"}]
      /\ polls' \in Nat
  BY <1>1, <1>2, <1>3 DEF TypeOK
<1>. QED
  BY <1>4 DEF Sync, TypeOK

LEMMA NoMessageType ==
    NoMessage \in [version : Nat, edits : Seq(Edits)] /\ NoMessage.edits = <<>>
  BY EmptySeq DEF NoMessage

LEMMA LoseTypes ==
    ASSUME TypeOK, NEW c \in Clients, Lose(c)
    PROVE  TypeOK'
<1>1. /\ msg' = [msg EXCEPT ![c] = NoMessage]
      /\ phase' = [phase EXCEPT ![c] = "idle"]
      /\ losses' = losses + 1
  BY DEF Lose
<1>2. /\ msg' \in [Clients -> [version : Nat, edits : Seq(Edits)]]
      /\ phase' \in [Clients -> {"idle", "sent", "serving", "answered", "reading"}]
      /\ losses' \in Nat
  BY <1>1, NoMessageType DEF TypeOK
<1>. QED
  BY <1>2 DEF Lose, TypeOK

LEMMA CleanupTypes ==
    ASSUME TypeOK, NEW c \in Clients, Cleanup(c)
    PROVE  TypeOK'
<1>1. view' \in [Clients -> {NoView} \cup ViewObjs] /\ cleanups' \in Nat
  BY DEF TypeOK, Cleanup
<1>. QED
  BY <1>1 DEF Cleanup, TypeOK

LEMMA ReadFileTypes ==
    ASSUME TypeOK, NEW c \in Clients, ReadFile(c)
    PROVE  TypeOK'
<1>. DEFINE stack == Unacked(client[c].stack, msg[c].version)
<1>1. stack \in Seq(Edits)
  BY OwnTypes, FieldTypes, UnackedIs
<1>2. /\ client' = [client EXCEPT ![c] = [client[c] EXCEPT !.ok = TRUE, !.stack = stack]]
      /\ phase' = [phase EXCEPT ![c] = "reading"]
  BY DEF ReadFile, TypeOK
<1>. HIDE DEF stack
<1>3. [client[c] EXCEPT !.ok = TRUE, !.stack = stack] \in ShareObjs
  BY <1>1, OwnTypes DEF ShareObjs
<1>4. /\ client' \in [Clients -> ShareObjs]
      /\ phase' \in [Clients -> {"idle", "sent", "serving", "answered", "reading"}]
  BY <1>2, <1>3 DEF TypeOK
<1>. QED
  BY <1>4 DEF ReadFile, TypeOK

LEMMA MessageTail ==
    ASSUME TypeOK, NEW c \in Clients, msg' = [msg EXCEPT ![c].edits = Tail(@)]
    PROVE  msg' = [msg EXCEPT ![c] = [version |-> msg[c].version,
                                      edits |-> Tail(msg[c].edits)]]
<1>1. msg \in [Clients -> [version : Nat, edits : Seq(Edits)]]
  BY DEF TypeOK
<1>. DEFINE rest == Tail(msg[c].edits)
<1>2. msg' = [msg EXCEPT ![c] = [msg[c] EXCEPT !.edits = rest]]
  BY <1>1
<1>. HIDE DEF rest
<1>3. [msg[c] EXCEPT !.edits = rest] = [version |-> msg[c].version, edits |-> rest]
  BY <1>1
<1>. QED
  BY <1>2, <1>3 DEF rest

LEMMA ReadEditTypes ==
    ASSUME TypeOK, NEW c \in Clients, ReadEdit(c)
    PROVE  TypeOK'
<1>. DEFINE e == Head(msg[c].edits)
            k == IF e.kind = "d" THEN Received(client[c], e, msg[c].version)
                                 ELSE Replaced(client[c], e, msg[c].version)
            rest == Tail(msg[c].edits)
<1>1. /\ msg[c].edits # <<>>
      /\ client' = [client EXCEPT ![c] = k]
      /\ replaced' = [replaced EXCEPT ![c] = @ \/ e.kind # "d"]
      /\ msg' = [msg EXCEPT ![c] = [version |-> msg[c].version, edits |-> rest]]
  <2>1. /\ msg[c].edits # <<>>
        /\ client' = [client EXCEPT ![c] = k]
        /\ replaced' = [replaced EXCEPT ![c] = @ \/ e.kind # "d"]
    BY DEF ReadEdit
  <2>2. msg' = [msg EXCEPT ![c] = [version |-> msg[c].version, edits |-> rest]]
    <3>1. msg' = [msg EXCEPT ![c].edits = Tail(@)]
      BY DEF ReadEdit
    <3>. QED
      BY <3>1, MessageTail
  <2>. QED
    BY <2>1, <2>2
<1>2. e \in Edits /\ rest \in Seq(Edits) /\ msg[c].version \in Nat
  BY <1>1, OwnTypes, TailIs
<1>3. k \in ShareObjs
  BY <1>2, OwnTypes, ReadTypes
<1>4. UNCHANGED <<text, view, phase, job, boundVars, seen, misread>>
  BY DEF ReadEdit
<1>. HIDE DEF k, rest
<1>5. /\ client' \in [Clients -> ShareObjs]
      /\ msg' \in [Clients -> [version : Nat, edits : Seq(Edits)]]
      /\ replaced' \in [Clients -> BOOLEAN]
  BY <1>1, <1>2, <1>3 DEF TypeOK
<1>. QED
  BY <1>4, <1>5 DEF TypeOK

LEMMA ReadEndTypes ==
    ASSUME TypeOK, NEW c \in Clients, ReadEnd(c)
    PROVE  TypeOK'
<1>1. /\ phase' \in [Clients -> {"idle", "sent", "serving", "answered", "reading"}]
      /\ msg' \in [Clients -> [version : Nat, edits : Seq(Edits)]]
  BY DEF ReadEnd, TypeOK
<1>. QED
  BY <1>1 DEF ReadEnd, TypeOK

(***************************************************************************)
(* The server.  While it serves a client, it has a copy of the view, and   *)
(* its text is set when it comes to a delta or to the end.                 *)
(***************************************************************************)
LEMMA ServingViews ==
    ASSUME TypeOK, NEW c \in Clients, ClientInv(c), phase[c] = "serving"
    PROVE  job[c].view \in ViewObjs /\ Acked(c) \in ViewObjs
<1>1. job[c].view \in ViewObjs
  BY OwnTypes DEF ClientInv, Sound
<1>. QED
  BY <1>1, OwnTypes, AckedType, AckedIsView

LEMMA LoadedIs ==
    ASSUME TypeOK, NEW c \in Clients
    PROVE  /\ Loaded(c) \in {NoText} \cup Text
           /\ text # NoText => Loaded(c) \in Text
           /\ text = NoText /\ ClientInv(c) => Loaded(c) = NoText
  BY OwnTypes, TextAssumption DEF Loaded, TypeOK, ClientInv, Untold

\* Nobody comes to a delta, or to the end of a request, before there is a text.
LEMMA TextIsSet ==
    ASSUME TypeOK, NEW c \in Clients, ClientInv(c), phase[c] = "serving",
           msg[c].edits = <<>> \/ Head(msg[c].edits).kind # "r"
    PROVE  text # NoText /\ text \in Text /\ Loaded(c) \in Text
<1>. DEFINE k == client[c]
            m == msg[c]
<1>1. k.stack \in Seq(Edits) /\ m.edits \in Seq(Edits)
  BY OwnTypes, FieldTypes
<1>2. IsRequest(k, m)
  BY DEF ClientInv, Sound
<1>3. ASSUME text = NoText PROVE FALSE
  <2>1. Handled(k, m) = 0 /\ k.stack[1].kind = "r"
    BY <1>2, <1>3 DEF ClientInv, Untold, StartsRaw, IsRequest
  <2>2. Len(m.edits) = Len(k.stack) /\ Len(k.stack) \in Nat \ {0}
    BY <1>1, <1>2, <2>1, EmptySeq DEF Handled, IsRequest
  <2>3. m.edits # <<>>
    BY <1>1, <2>2, EmptySeq
  <2>4. m.edits[1] = k.stack[1]
    BY <1>2, <2>1, <2>2 DEF IsRequest
  <2>. QED
    BY <1>1, <2>1, <2>3, <2>4, TailIs
<1>. QED
  BY <1>3, LoadedIs DEF TypeOK

LEMMA JobView ==
    ASSUME TypeOK, NEW c \in Clients, NEW w, job' = [job EXCEPT ![c].view = w]
    PROVE  job' = [job EXCEPT ![c] = [view |-> w, text |-> job[c].text]]
<1>1. job \in [Clients -> [view : {NoView} \cup ViewObjs, text : {Unread} \cup Text]]
  BY DEF TypeOK
<1>2. [job[c] EXCEPT !.view = w] = [view |-> w, text |-> job[c].text]
  BY <1>1
<1>. QED
  BY <1>2

LEMMA JobRecord ==
    ASSUME NEW r, NEW w, NEW t, NEW V, NEW T, r \in [view : V, text : T]
    PROVE  [[r EXCEPT !.view = w] EXCEPT !.text = t] = [view |-> w, text |-> t]
<1>. DEFINE q == [r EXCEPT !.view = w]
<1>1. q = [view |-> w, text |-> r.text]
  OBVIOUS
<1>. HIDE DEF q
<1>2. [q EXCEPT !.text = t] = [view |-> w, text |-> t]
  BY <1>1
<1>. QED
  BY <1>2 DEF q

LEMMA JobBoth ==
    ASSUME TypeOK, NEW c \in Clients, NEW w, NEW t,
           job' = [job EXCEPT ![c].view = w, ![c].text = t]
    PROVE  job' = [job EXCEPT ![c] = [view |-> w, text |-> t]]
<1>1. job \in [Clients -> [view : {NoView} \cup ViewObjs, text : {Unread} \cup Text]]
  BY DEF TypeOK
<1>2. job[c] \in [view : {NoView} \cup ViewObjs, text : {Unread} \cup Text]
  BY <1>1
<1>3. job' = [job EXCEPT ![c] = [[job[c] EXCEPT !.view = w] EXCEPT !.text = t]]
  BY <1>1
<1>4. [[job[c] EXCEPT !.view = w] EXCEPT !.text = t] = [view |-> w, text |-> t]
  BY <1>2, JobRecord
<1>. QED
  BY <1>3, <1>4

LEMMA FetchTypes ==
    ASSUME TypeOK, NEW c \in Clients, Fetch(c)
    PROVE  TypeOK'
<1>. DEFINE w == IF view[c] = NoView THEN FreshView ELSE view[c]
<1>1. w \in ViewObjs
  BY OwnTypes, FreshType
<1>2. [w EXCEPT !.ok = TRUE] \in ViewObjs
  BY <1>1 DEF ViewObjs
<1>3. view' = [view EXCEPT ![c] = w] /\ view'[c] = w
  BY DEF Fetch, TypeOK
<1>4. job' = [job EXCEPT ![c] = [view |-> [w EXCEPT !.ok = TRUE], text |-> job[c].text]]
  <2>1. job' = [job EXCEPT ![c].view = [w EXCEPT !.ok = TRUE]]
    BY <1>3 DEF Fetch
  <2>. QED
    BY <2>1, JobView
<1>5. phase' = [phase EXCEPT ![c] = "serving"]
  BY DEF Fetch
<1>. HIDE DEF w
<1>6. /\ view' \in [Clients -> {NoView} \cup ViewObjs]
      /\ phase' \in [Clients -> {"idle", "sent", "serving", "answered", "reading"}]
  BY <1>1, <1>3, <1>5 DEF TypeOK
<1>7. job' \in [Clients -> [view : {NoView} \cup ViewObjs, text : {Unread} \cup Text]]
  BY <1>2, <1>4, OwnTypes DEF TypeOK
<1>. QED
  BY <1>6, <1>7 DEF Fetch, TypeOK

\* What a step of the server inside a request leaves.
LEMMA ServingTypes ==
    ASSUME TypeOK, NEW c \in Clients, NEW kind, Serving(c, kind)
    PROVE  /\ phase[c] = "serving" /\ msg[c].edits # <<>> /\ msg[c].edits[1] \in Edits
           /\ Head(msg[c].edits) = msg[c].edits[1] /\ msg[c].edits[1].kind = kind
           /\ msg' = [msg EXCEPT ![c] = [version |-> msg[c].version,
                                         edits |-> Tail(msg[c].edits)]]
           /\ msg' \in [Clients -> [version : Nat, edits : Seq(Edits)]]
           /\ UNCHANGED <<client, view, phase, boundVars>>
<1>1. /\ phase[c] = "serving" /\ msg[c].edits # <<>> /\ Head(msg[c].edits).kind = kind
      /\ msg' = [msg EXCEPT ![c].edits = Tail(@)]
      /\ UNCHANGED <<client, view, phase, boundVars>>
  BY DEF Serving
<1>2. Tail(msg[c].edits) \in Seq(Edits) /\ Head(msg[c].edits) = msg[c].edits[1]
      /\ msg[c].edits[1] \in Edits
  BY <1>1, OwnTypes, TailIs
<1>3. msg' = [msg EXCEPT ![c] = [version |-> msg[c].version,
                                 edits |-> Tail(msg[c].edits)]]
  BY <1>1, MessageTail
<1>4. msg' \in [Clients -> [version : Nat, edits : Seq(Edits)]]
  BY <1>2, <1>3, OwnTypes DEF TypeOK
<1>. QED
  BY <1>1, <1>2, <1>3, <1>4

LEMMA JobTypes ==
    ASSUME TypeOK, NEW c \in Clients, NEW w \in ViewObjs, NEW t \in {Unread} \cup Text,
           job' = [job EXCEPT ![c] = [view |-> w, text |-> t]]
    PROVE  job' \in [Clients -> [view : {NoView} \cup ViewObjs, text : {Unread} \cup Text]]
  BY DEF TypeOK

\* The view that a raw text leaves, and the one that a delta does.
RawView(c) ==
    LET e == msg[c].edits[1] IN
    [Acked(c) EXCEPT !.shadow = e.to, !.scv = e.v, !.ssv = msg[c].version,
                     !.backup = e.to, !.bsv = msg[c].version, !.stack = <<>>, !.ok = TRUE]

MergedView(c) ==
    LET w == Acked(c)
        shadow == Patch(w.shadow, msg[c].edits[1]) IN
    [w EXCEPT !.shadow = shadow, !.scv = @ + 1, !.backup = shadow, !.bsv = w.ssv]

LEMMA RawViewType ==
    ASSUME TypeOK, NEW c \in Clients, ClientInv(c), Serving(c, "r")
    PROVE  /\ RawView(c) \in ViewObjs
           /\ RawView(c).shadow = msg[c].edits[1].to /\ RawView(c).scv = msg[c].edits[1].v
           /\ RawView(c).backup = msg[c].edits[1].to
           /\ RawView(c).ssv = msg[c].version /\ RawView(c).bsv = msg[c].version
           /\ RawView(c).stack = <<>> /\ RawView(c).ok
<1>. DEFINE e == msg[c].edits[1]
            w == Acked(c)
            v == msg[c].version
<1>1. w \in ViewObjs /\ e.to \in Text /\ e.v \in Nat /\ v \in Nat /\ <<>> \in Seq(Edits)
  BY ServingTypes, ServingViews, OwnTypes, EmptySeq DEF Edits
<1>2. RawView(c) = [w EXCEPT !.shadow = e.to, !.scv = e.v, !.ssv = v, !.backup = e.to,
                             !.bsv = v, !.stack = <<>>, !.ok = TRUE]
  BY DEF RawView
<1>. HIDE DEF e, w, v
<1>. QED
  BY <1>1, <1>2 DEF ViewObjs, e, v

LEMMA MergedViewType ==
    ASSUME TypeOK, NEW c \in Clients, ClientInv(c), Serving(c, "d"),
           Acked(c).shadow # NoText
    PROVE  /\ MergedView(c) \in ViewObjs
           /\ MergedView(c).shadow = Patch(Acked(c).shadow, msg[c].edits[1])
           /\ MergedView(c).backup = MergedView(c).shadow
           /\ MergedView(c).scv = Acked(c).scv + 1 /\ MergedView(c).ssv = Acked(c).ssv
           /\ MergedView(c).bsv = Acked(c).ssv /\ MergedView(c).stack = Acked(c).stack
           /\ MergedView(c).ok = Acked(c).ok
<1>. DEFINE w == Acked(c)
            shadow == Patch(w.shadow, msg[c].edits[1])
            scv == w.scv + 1
<1>1. w \in ViewObjs /\ w.shadow \in Text /\ scv \in Nat /\ w.ssv \in Nat
  BY ServingTypes, ServingViews, ViewTypes
<1>2. shadow \in Text
  BY <1>1, ServingTypes, PatchType
<1>3. MergedView(c) = [w EXCEPT !.shadow = shadow, !.scv = scv, !.backup = shadow,
                                !.bsv = w.ssv]
  BY DEF MergedView
<1>. HIDE DEF w, shadow, scv
<1>4. /\ MergedView(c) \in ViewObjs
      /\ MergedView(c).shadow = shadow /\ MergedView(c).backup = shadow
      /\ MergedView(c).scv = scv /\ MergedView(c).ssv = w.ssv
      /\ MergedView(c).bsv = w.ssv /\ MergedView(c).stack = w.stack
      /\ MergedView(c).ok = w.ok
  BY <1>1, <1>2, <1>3 DEF ViewObjs
<1>. QED
  BY <1>4 DEF w, shadow, scv

LEMMA TakeRawTypes ==
    ASSUME TypeOK, NEW c \in Clients, ClientInv(c), TakeRaw(c)
    PROVE  /\ TypeOK'
           /\ job' = [job EXCEPT ![c] = [view |-> RawView(c), text |-> job'[c].text]]
           /\ job'[c].text \in Text /\ text' \in Text
           /\ text # NoText => text' = text
           /\ replaced' = [replaced EXCEPT ![c] = FALSE] /\ seen' = seen
<1>. DEFINE e == msg[c].edits[1]
            t == IF Loaded(c) = NoText THEN e.to ELSE Loaded(c)
<1>1. /\ Serving(c, "r")
      /\ Head(msg[c].edits) = e /\ e \in Edits
      /\ replaced' = [replaced EXCEPT ![c] = FALSE]
      /\ UNCHANGED <<seen, misread>>
  <2>1. Serving(c, "r") /\ replaced' = [replaced EXCEPT ![c] = FALSE]
        /\ UNCHANGED <<seen, misread>>
    BY DEF TakeRaw
  <2>. QED
    BY <2>1, ServingTypes
<1>2. /\ text' = IF Loaded(c) = NoText THEN e.to ELSE text
      /\ job' = [job EXCEPT ![c].view = RawView(c), ![c].text = t]
  BY <1>1 DEF TakeRaw, RawView
<1>3. job' = [job EXCEPT ![c] = [view |-> RawView(c), text |-> t]]
  <2>. DEFINE w == RawView(c)
  <2>. HIDE DEF t, e
  <2>1. job' = [job EXCEPT ![c].view = w, ![c].text = t]
    BY <1>2
  <2>. HIDE DEF w
  <2>2. job' = [job EXCEPT ![c] = [[job[c] EXCEPT !.view = w] EXCEPT !.text = t]]
    BY <2>1 DEF TypeOK
  <2>3. [[job[c] EXCEPT !.view = w] EXCEPT !.text = t] = [view |-> w, text |-> t]
    <3>1. job[c] \in [view : {NoView} \cup ViewObjs, text : {Unread} \cup Text]
      BY DEF TypeOK
    <3>. QED
      BY <3>1, JobRecord
  <2>4. job' = [job EXCEPT ![c] = [view |-> w, text |-> t]]
    BY <2>2, <2>3
  <2>. QED
    BY <2>4 DEF w
<1>4. t \in Text /\ text' \in Text /\ (text # NoText => text' = text)
  <2>1. e.to \in Text
    BY <1>1 DEF Edits
  <2>2. text = NoText => Loaded(c) = NoText
    BY LoadedIs
  <2>3. text # NoText => Loaded(c) \in Text /\ Loaded(c) # NoText /\ text \in Text
    BY LoadedIs, TextAssumption DEF TypeOK, Text
  <2>. QED
    BY <1>2, <2>1, <2>2, <2>3
<1>5. RawView(c) \in ViewObjs
  BY <1>1, RawViewType
<1>. HIDE DEF t
<1>6. job' \in [Clients -> [view : {NoView} \cup ViewObjs, text : {Unread} \cup Text]]
  BY <1>3, <1>4, <1>5, JobTypes
<1>7. job'[c].text = t
  BY <1>3 DEF TypeOK
<1>8. replaced' \in [Clients -> BOOLEAN]
  BY <1>1 DEF TypeOK
<1>9. TypeOK'
  BY <1>1, <1>4, <1>6, <1>8, ServingTypes DEF TypeOK
<1>. QED
  BY <1>1, <1>3, <1>4, <1>7, <1>9

LEMMA RefuseTypes ==
    ASSUME TypeOK, NEW c \in Clients, ClientInv(c), RefuseDelta(c)
    PROVE  /\ TypeOK'
           /\ job' = [job EXCEPT ![c] = [view |-> [Acked(c) EXCEPT !.ok = FALSE],
                                         text |-> job[c].text]]
           /\ UNCHANGED <<text, historyVars>>
<1>1. /\ Serving(c, "d")
      /\ job' = [job EXCEPT ![c].view = [Acked(c) EXCEPT !.ok = FALSE]]
      /\ UNCHANGED <<text, historyVars>>
  BY DEF RefuseDelta
<1>2. Acked(c) \in ViewObjs
  BY <1>1, ServingTypes, ServingViews
<1>. DEFINE w == [Acked(c) EXCEPT !.ok = FALSE]
            t == job[c].text
<1>3. w \in ViewObjs
  BY <1>2 DEF ViewObjs
<1>4. job' = [job EXCEPT ![c] = [view |-> w, text |-> t]]
  BY <1>1, JobView
<1>5. job' \in [Clients -> [view : {NoView} \cup ViewObjs, text : {Unread} \cup Text]]
  <2>1. t \in {Unread} \cup Text
    BY OwnTypes
  <2>. HIDE DEF w, t
  <2>. QED
    BY <1>3, <1>4, <2>1, JobTypes
<1>6. TypeOK'
  <2>1. /\ UNCHANGED <<client, view, phase, boundVars>>
        /\ msg' \in [Clients -> [version : Nat, edits : Seq(Edits)]]
    BY <1>1, ServingTypes
  <2>. HIDE DEF w, t
  <2>. QED
    BY <1>1, <1>5, <2>1 DEF TypeOK
<1>. QED
  BY <1>1, <1>4, <1>6

LEMMA SkipTypes ==
    ASSUME TypeOK, NEW c \in Clients, ClientInv(c), SkipDelta(c)
    PROVE  /\ TypeOK'
           /\ job' = [job EXCEPT ![c] = [view |-> Acked(c), text |-> job[c].text]]
           /\ UNCHANGED <<text, seen, replaced>>
<1>1. /\ Serving(c, "d")
      /\ job' = [job EXCEPT ![c].view = Acked(c)]
      /\ misread' = (misread \/ replaced[c])
      /\ UNCHANGED <<text, seen, replaced>>
  BY DEF SkipDelta
<1>2. Acked(c) \in ViewObjs
  BY <1>1, ServingTypes, ServingViews
<1>3. job' = [job EXCEPT ![c] = [view |-> Acked(c), text |-> job[c].text]]
  BY <1>1, JobView
<1>4. job' \in [Clients -> [view : {NoView} \cup ViewObjs, text : {Unread} \cup Text]]
  BY <1>2, <1>3, OwnTypes, JobTypes
<1>5. misread' \in BOOLEAN
  BY <1>1
<1>6. TypeOK'
  BY <1>1, <1>4, <1>5, ServingTypes DEF TypeOK
<1>. QED
  BY <1>1, <1>3, <1>6

\* The view when a delta is not of the length of its shadow.
Misfit(c) == [Acked(c) EXCEPT !.scv = @ + 1, !.ok = FALSE]

LEMMA MergeTypes ==
    ASSUME TypeOK, NEW c \in Clients, ClientInv(c), MergeDelta(c)
    PROVE  LET e == msg[c].edits[1]
               w == Acked(c) IN
           /\ TypeOK'
           /\ w.ssv = msg[c].version /\ w.scv = e.v /\ w.shadow # NoText
           /\ job' = [job EXCEPT ![c] = [view |-> IF Fits(w.shadow, e) THEN MergedView(c)
                                                  ELSE Misfit(c),
                                         text |-> job'[c].text]]
           /\ text # NoText /\ text' \in Text
           /\ seen' = [seen EXCEPT ![c] = @ \cup {e.id}] /\ replaced' = replaced
<1>. DEFINE e == msg[c].edits[1]
            w == Acked(c)
            v == msg[c].version
            merged == Patch(Loaded(c), e)
<1>1. /\ Serving(c, "d")
      /\ Head(msg[c].edits) = e /\ e \in Edits /\ e.kind = "d"
      /\ ~Refused(w, e, v) /\ ~Repeated(w, e, v)
      /\ seen' = [seen EXCEPT ![c] = @ \cup {e.id}]
      /\ misread' = (misread \/ replaced[c]) /\ UNCHANGED replaced
      /\ IF Fits(w.shadow, e)
         THEN /\ job' = [job EXCEPT ![c].view = MergedView(c), ![c].text = merged]
              /\ text' = IF e.from = e.to THEN text ELSE job'[c].text
         ELSE /\ job' = [job EXCEPT ![c].view = Misfit(c)]
              /\ UNCHANGED text
  <2>1. Serving(c, "d")
    BY DEF MergeDelta
  <2>2. Head(msg[c].edits) = e /\ e \in Edits /\ e.kind = "d"
    BY <2>1, ServingTypes
  <2>. QED
    BY <2>1, <2>2 DEF MergeDelta, MergedView, Misfit
<1>2. w \in ViewObjs /\ w.scv \in Nat /\ w.ssv \in Nat /\ e.v \in Nat /\ v \in Nat
      /\ e.id \in Nat
  <2>1. w \in ViewObjs
    BY <1>1, ServingTypes, ServingViews
  <2>. QED
    BY <1>1, <2>1, ViewTypes, OwnTypes DEF Edits
<1>3. w.ssv = v /\ w.scv = e.v /\ w.shadow # NoText
  BY <1>1, <1>2 DEF Refused, Repeated
<1>4. text # NoText /\ text \in Text /\ merged \in Text
  <2>1. phase[c] = "serving" /\ Head(msg[c].edits).kind # "r"
    BY <1>1, ServingTypes
  <2>2. text # NoText /\ text \in Text /\ Loaded(c) \in Text
    BY <2>1, TextIsSet
  <2>. QED
    BY <1>1, <2>2, PatchType
<1>5. Misfit(c) \in ViewObjs /\ MergedView(c) \in ViewObjs
  <2>. DEFINE scv == w.scv + 1
  <2>1. Misfit(c) = [w EXCEPT !.scv = scv, !.ok = FALSE] /\ scv \in Nat
    BY <1>2 DEF Misfit
  <2>. HIDE DEF scv, w
  <2>2. Misfit(c) \in ViewObjs
    BY <1>2, <2>1 DEF ViewObjs
  <2>. QED
    BY <2>2, <1>1, <1>3, MergedViewType DEF w
<1>6. seen' \in [Clients -> SUBSET Nat] /\ misread' \in BOOLEAN
  BY <1>1, <1>2 DEF TypeOK
<1>. HIDE DEF merged, w, v, e
<1>7. CASE Fits(w.shadow, e)
  <2>1. job' = [job EXCEPT ![c] = [view |-> MergedView(c), text |-> merged]]
    BY <1>1, <1>7, JobBoth
  <2>2. job'[c].text = merged
    BY <2>1 DEF TypeOK
  <2>3. text' \in Text
    BY <1>1, <1>4, <1>7, <2>2
  <2>4. job' \in [Clients -> [view : {NoView} \cup ViewObjs, text : {Unread} \cup Text]]
    BY <1>4, <1>5, <2>1, JobTypes
  <2>5. TypeOK'
    BY <1>1, <1>6, <2>3, <2>4, ServingTypes DEF TypeOK
  <2>. QED
    BY <1>1, <1>3, <1>4, <1>7, <2>1, <2>2, <2>3, <2>5 DEF e, w, v
<1>8. CASE ~Fits(w.shadow, e)
  <2>1. job' = [job EXCEPT ![c] = [view |-> Misfit(c), text |-> job[c].text]]
    BY <1>1, <1>8, JobView
  <2>2. job'[c].text = job[c].text
    BY <2>1 DEF TypeOK
  <2>3. text' \in Text
    BY <1>1, <1>4, <1>8
  <2>4. job' \in [Clients -> [view : {NoView} \cup ViewObjs, text : {Unread} \cup Text]]
    BY <1>5, <2>1, OwnTypes, JobTypes
  <2>5. TypeOK'
    BY <1>1, <1>6, <2>3, <2>4, ServingTypes DEF TypeOK
  <2>. QED
    BY <1>1, <1>3, <1>4, <1>8, <2>1, <2>2, <2>3, <2>5 DEF e, w, v
<1>. QED
  BY <1>7, <1>8

\* The answer to c, and the view that is saved with it.
LastEdit(c) ==
    LET w == job[c].view IN
    IF w.ok THEN Delta(w.ssv, w.shadow, Loaded(c), 0) ELSE Raw("R", w.ssv, Loaded(c))

SavedView(c) ==
    LET w == job[c].view IN
    [w EXCEPT !.stack = Append(w.stack, LastEdit(c)), !.shadow = Loaded(c),
              !.ssv = IF w.ok THEN @ + 1 ELSE @, !.scv = IF w.ok THEN @ ELSE @ + 1]

LEMMA AnswerTypes ==
    ASSUME TypeOK, NEW c \in Clients, ClientInv(c), Answer(c)
    PROVE  LET w == job[c].view
               m == [version |-> w.scv, edits |-> Append(w.stack, LastEdit(c))] IN
           /\ TypeOK'
           /\ phase[c] = "serving" /\ msg[c].edits = <<>>
           /\ w.ok => w.shadow # NoText
           /\ w \in ViewObjs /\ LastEdit(c) \in Edits
           /\ view' = [view EXCEPT ![c] = SavedView(c)] /\ SavedView(c) \in ViewObjs
           /\ msg' = [msg EXCEPT ![c] = m]
           /\ phase' = [phase EXCEPT ![c] = "answered"]
           /\ job' = [job EXCEPT ![c] = NoJob]
           /\ text # NoText
           /\ SavedView(c).ssv = (IF w.ok THEN w.ssv + 1 ELSE w.ssv)
           /\ SavedView(c).scv = (IF w.ok THEN w.scv ELSE w.scv + 1)
           /\ SavedView(c).bsv = w.bsv /\ SavedView(c).backup = w.backup
           /\ SavedView(c).shadow = Loaded(c)
           /\ SavedView(c).stack = Append(w.stack, LastEdit(c))
<1>. DEFINE w == job[c].view
            stack == Append(w.stack, LastEdit(c))
            ssv == IF w.ok THEN w.ssv + 1 ELSE w.ssv
            scv == IF w.ok THEN w.scv ELSE w.scv + 1
<1>1. /\ phase[c] = "serving" /\ msg[c].edits = <<>>
      /\ w.ok => w.shadow # NoText
      /\ view' = [view EXCEPT ![c] = SavedView(c)]
      /\ msg' = [msg EXCEPT ![c] = [version |-> w.scv, edits |-> stack]]
      /\ phase' = [phase EXCEPT ![c] = "answered"]
      /\ job' = [job EXCEPT ![c] = NoJob]
      /\ UNCHANGED <<text, client, boundVars, historyVars>>
  BY DEF Answer, SavedView, LastEdit
<1>2. w \in ViewObjs /\ w.stack \in Seq(Edits)
  BY <1>1, ServingViews, ViewTypes
<1>3. text # NoText /\ Loaded(c) \in Text
  BY <1>1, TextIsSet
<1>4. LastEdit(c) \in Edits
  <2>1. w.ssv \in Nat /\ (w.ok => w.shadow \in Text)
    BY <1>1, <1>2, ViewTypes
  <2>. QED
    BY <1>3, <2>1, EditTypes DEF LastEdit
<1>5. stack \in Seq(Edits) /\ ssv \in Nat /\ scv \in Nat /\ w.scv \in Nat
  BY <1>2, <1>4, AppendIs, ViewTypes
<1>6. SavedView(c) = [w EXCEPT !.stack = stack, !.shadow = Loaded(c),
                               !.ssv = ssv, !.scv = scv]
  BY DEF SavedView
<1>7. NoJob \in [view : {NoView} \cup ViewObjs, text : {Unread} \cup Text]
  BY DEF NoJob
<1>. HIDE DEF w, stack, ssv, scv
<1>8. /\ SavedView(c) \in ViewObjs
      /\ SavedView(c).ssv = ssv /\ SavedView(c).scv = scv /\ SavedView(c).stack = stack
      /\ SavedView(c).bsv = w.bsv /\ SavedView(c).backup = w.backup
      /\ SavedView(c).shadow = Loaded(c)
  BY <1>2, <1>3, <1>5, <1>6 DEF ViewObjs
<1>9. /\ view' \in [Clients -> {NoView} \cup ViewObjs]
      /\ msg' \in [Clients -> [version : Nat, edits : Seq(Edits)]]
      /\ phase' \in [Clients -> {"idle", "sent", "serving", "answered", "reading"}]
      /\ job' \in [Clients -> [view : {NoView} \cup ViewObjs, text : {Unread} \cup Text]]
  BY <1>1, <1>5, <1>7, <1>8 DEF TypeOK
<1>10. TypeOK'
  BY <1>1, <1>9 DEF TypeOK
<1>. QED
  BY <1>1, <1>2, <1>3, <1>4, <1>8, <1>10 DEF w, stack, ssv, scv

LEMMA ErrorTypes ==
    ASSUME TypeOK, NEW c \in Clients, ServerError(c)
    PROVE  TypeOK'
<1>1. NoJob \in [view : {NoView} \cup ViewObjs, text : {Unread} \cup Text]
  BY DEF NoJob
<1>2. /\ msg' \in [Clients -> [version : Nat, edits : Seq(Edits)]]
      /\ phase' \in [Clients -> {"idle", "sent", "serving", "answered", "reading"}]
      /\ job' \in [Clients -> [view : {NoView} \cup ViewObjs, text : {Unread} \cup Text]]
  BY <1>1, NoMessageType DEF ServerError, TypeOK
<1>. QED
  BY <1>2 DEF ServerError, TypeOK

------------------------------------------------------------------------------
(***************************************************************************)
(* Asking for a synchronisation: the stack grows by an edit e, or stays.   *)
(***************************************************************************)
Grown(k, l, e) ==
    /\ l \in ShareObjs /\ e \in Edits
    /\ l.stack = Append(k.stack, e)
    /\ l.cv = k.cv + 1 /\ l.sv = k.sv /\ l.ok
    /\ After(e) = l.cv /\ e.to = l.shadow
    /\ \/ ~k.ok /\ e.kind = "r" /\ e.v = k.cv + 1 /\ l.ids = k.ids
       \/ /\ k.ok /\ e.kind = "d" /\ e.v = k.cv /\ e.from = k.shadow
          /\ e.id = k.ids + 1 /\ l.ids = k.ids + 1

LEMMA SyncedIs ==
    ASSUME NEW k \in ShareObjs
    PROVE  \/ Synced(k) = k /\ k.stack # <<>> /\ k.ok
           \/ \E e : Grown(k, Synced(k), e)
<1>. DEFINE l == Synced(k)
<1>1. l \in ShareObjs
  BY SyncedType
<1>2. k.cv \in Nat /\ k.sv \in Nat /\ k.ids \in Nat /\ k.text \in Text /\ k.shadow \in Text
  BY FieldTypes
<1>3. CASE ~k.ok
  <2>. DEFINE e == Raw("r", k.cv + 1, k.text)
  <2>1. e \in Edits
    BY <1>2, EditTypes
  <2>2. e.kind = "r" /\ e.v = k.cv + 1 /\ e.to = k.text
    BY DEF Raw
  <2>. HIDE DEF e
  <2>3. l = [k EXCEPT !.shadow = k.text, !.cv = @ + 1, !.ok = TRUE,
                      !.stack = Append(@, e)]
    BY <1>3 DEF Synced, e
  <2>4. /\ l.stack = Append(k.stack, e) /\ l.cv = k.cv + 1 /\ l.sv = k.sv /\ l.ok
        /\ l.shadow = k.text /\ l.ids = k.ids
    BY <2>3 DEF ShareObjs
  <2>. QED
    BY <1>1, <1>3, <2>1, <2>2, <2>4 DEF Grown, After
<1>4. CASE k.ok /\ ~(k.text = k.shadow /\ k.stack # <<>>)
  <2>. DEFINE e == Delta(k.cv, k.shadow, k.text, k.ids + 1)
  <2>1. e \in Edits
    BY <1>2, EditTypes
  <2>2. e.kind = "d" /\ e.v = k.cv /\ e.from = k.shadow /\ e.to = k.text /\ e.id = k.ids + 1
    BY DEF Delta
  <2>. HIDE DEF e
  <2>3. l = [k EXCEPT !.shadow = k.text, !.cv = @ + 1, !.ids = @ + 1,
                      !.stack = Append(@, e)]
    BY <1>4 DEF Synced, e
  <2>4. /\ l.stack = Append(k.stack, e) /\ l.cv = k.cv + 1 /\ l.sv = k.sv /\ l.ok
        /\ l.shadow = k.text /\ l.ids = k.ids + 1
    BY <1>4, <2>3 DEF ShareObjs
  <2>. QED
    BY <1>1, <1>4, <2>1, <2>2, <2>4 DEF Grown, After
<1>5. CASE k.ok /\ k.text = k.shadow /\ k.stack # <<>>
  BY <1>5 DEF Synced
<1>. QED
  BY <1>2, <1>3, <1>4, <1>5 DEF ShareObjs

LEMMA EditsIn ==
    ASSUME NEW s \in Seq(Edits), NEW i \in 1..Len(s)
    PROVE  /\ s[i] \in Edits /\ s[i].v \in Nat /\ s[i].id \in Nat /\ After(s[i]) \in Nat
           /\ s[i].from \in Text /\ s[i].to \in Text
           /\ s[i].v <= After(s[i])
<1>1. s[i] \in Edits
  BY ElementOfSeq
<1>. QED
  BY <1>1 DEF Edits, After

LEMMA GrownInOrder ==
    ASSUME NEW k \in ShareObjs, NEW l, NEW e, Grown(k, l, e), InOrder(k)
    PROVE  InOrder(l)
<1>. DEFINE s == k.stack
            n == Len(s)
            t == l.stack
<1>1. /\ s \in Seq(Edits) /\ n \in Nat /\ t \in Seq(Edits) /\ Len(t) = n + 1
      /\ t[n + 1] = e /\ \A i \in 1..n : t[i] = s[i]
      /\ k.cv \in Nat /\ k.ids \in Nat /\ t # <<>>
  BY FieldTypes, AppendIs DEF Grown
<1>2. \A i \in 1..n : /\ s[i].v \in Nat /\ After(s[i]) \in Nat /\ s[i].id \in Nat
                      /\ s[i].v <= After(s[i])
  BY <1>1, EditsIn
<1>3. \A i \in 1..n : After(s[i]) <= k.cv
  <2>. TAKE i \in 1..n
  <2>1. After(s[n]) = k.cv /\ n \in 1..n
    BY <1>1, EmptySeq DEF InOrder
  <2>2. CASE i = n
    BY <1>1, <2>1, <2>2
  <2>3. CASE i # n
    <3>1. After(s[i]) <= s[n].v
      BY <2>1, <2>3, <1>1 DEF InOrder
    <3>. QED
      BY <1>2, <2>1, <3>1
  <2>. QED
    BY <2>2, <2>3
<1>4. \A i \in 1..n : /\ s[i].kind = "r" \/ (s[i].kind = "d" /\ s[i].id \in 1..k.ids)
                      /\ ~k.ok => s[i].kind = "r"
  BY DEF InOrder
<1>5. \A i, j \in 1..n : i < j =>
         /\ After(s[i]) <= s[j].v
         /\ s[j].kind = "r" => s[i].kind = "r"
         /\ s[i].kind = "d" => s[i].id < s[j].id
  BY DEF InOrder
<1>6. \A i \in 1..n - 1 :
         s[i + 1].kind = "d" => s[i + 1].v = After(s[i]) /\ s[i + 1].from = s[i].to
  BY DEF InOrder
<1>7. n # 0 => After(s[n]) = k.cv /\ s[n].to = k.shadow
  BY <1>1, EmptySeq DEF InOrder
<1>8. /\ l.cv = k.cv + 1 /\ l.ok /\ After(e) = l.cv /\ e.to = l.shadow
      /\ \/ ~k.ok /\ e.kind = "r" /\ e.v = k.cv + 1 /\ l.ids = k.ids
         \/ /\ k.ok /\ e.kind = "d" /\ e.v = k.cv /\ e.from = k.shadow
            /\ e.id = k.ids + 1 /\ l.ids = k.ids + 1
  BY DEF Grown
<1>. HIDE DEF s, n, t
<1>9. \A i \in 1..Len(t) : t[i].kind = "r" \/ (t[i].kind = "d" /\ t[i].id \in 1..l.ids)
  BY <1>1, <1>4, <1>8
<1>10. ASSUME NEW i \in 1..Len(t), NEW j \in 1..Len(t), i < j
       PROVE  /\ After(t[i]) <= t[j].v
              /\ t[j].kind = "r" => t[i].kind = "r"
              /\ t[i].kind = "d" => t[i].id < t[j].id
  <2>1. i \in 1..n /\ t[i] = s[i]
    BY <1>1, <1>10
  <2>2. CASE j \in 1..n
    BY <1>1, <1>5, <1>10, <2>1, <2>2
  <2>3. CASE j = n + 1
    <3>1. After(s[i]) <= e.v
      BY <1>2, <1>3, <1>1, <1>8, <2>1
    <3>2. e.kind = "r" => s[i].kind = "r"
      BY <1>4, <1>8, <2>1
    <3>3. s[i].kind = "d" => s[i].id < e.id
      BY <1>1, <1>4, <1>8, <2>1
    <3>. QED
      BY <1>1, <2>1, <2>3, <3>1, <3>2, <3>3
  <2>. QED
    BY <1>1, <2>2, <2>3
<1>11. ASSUME NEW i \in 1..Len(t) - 1, t[i + 1].kind = "d"
       PROVE  t[i + 1].v = After(t[i]) /\ t[i + 1].from = t[i].to
  <2>1. i \in 1..n /\ t[i] = s[i]
    BY <1>1
  <2>2. CASE i = n
    BY <1>1, <1>7, <1>8, <1>11, <2>1, <2>2
  <2>3. CASE i # n
    <3>1. i \in 1..n - 1 /\ t[i + 1] = s[i + 1]
      BY <1>1, <2>1, <2>3
    <3>. QED
      BY <1>6, <1>11, <2>1, <3>1
  <2>. QED
    BY <2>2, <2>3
<1>12. After(t[Len(t)]) = l.cv /\ t[Len(t)].to = l.shadow
  BY <1>1, <1>8
<1>. QED
  BY <1>8, <1>9, <1>10, <1>11, <1>12 DEF InOrder, t

LEMMA GrownStack ==
    ASSUME NEW k \in ShareObjs, NEW l, NEW e, Grown(k, l, e)
    PROVE  /\ k.stack \in Seq(Edits) /\ Len(k.stack) \in Nat /\ l.stack \in Seq(Edits)
           /\ Len(l.stack) = Len(k.stack) + 1 /\ l.stack # <<>>
           /\ l.stack[Len(k.stack) + 1] = e
           /\ \A i \in 1..Len(k.stack) : l.stack[i] = k.stack[i]
           /\ k.ids \in Nat /\ (k.stack = <<>> <=> Len(k.stack) = 0) /\ l.sv = k.sv
<1>1. k.stack \in Seq(Edits) /\ e \in Edits /\ k.ids \in Nat
      /\ l.stack = Append(k.stack, e) /\ l.sv = k.sv
  BY FieldTypes DEF Grown
<1>2. k.stack = <<>> <=> Len(k.stack) = 0
  BY <1>1, EmptySeq
<1>. QED
  BY <1>1, <1>2, AppendIs

LEMMA GrownRelated ==
    ASSUME NEW k \in ShareObjs, NEW l, NEW e, Grown(k, l, e), InOrder(k),
           NEW w, NEW s, s \subseteq 1..k.ids, Related(k, w, s)
    PROVE  Related(l, w, s)
<1>. DEFINE n == Len(k.stack)
<1>1. /\ k.stack \in Seq(Edits) /\ n \in Nat /\ l.stack \in Seq(Edits)
      /\ Len(l.stack) = n + 1 /\ l.stack # <<>>
      /\ l.stack[n + 1] = e /\ \A i \in 1..n : l.stack[i] = k.stack[i]
      /\ k.ids \in Nat /\ (k.stack = <<>> <=> n = 0) /\ l.sv = k.sv
  BY GrownStack
<1>2. \/ ~k.ok /\ e.kind = "r"
      \/ /\ k.ok /\ e.kind = "d" /\ e.v = k.cv /\ e.from = k.shadow /\ e.id = k.ids + 1
  BY DEF Grown
<1>3. ASSUME StartsRaw(k) PROVE StartsRaw(l)
  BY <1>1, <1>3 DEF StartsRaw
<1>4. ASSUME ~k.ok PROVE StartsRaw(l)
  <2>1. n # 0 => k.stack[1].kind = "r"
    BY <1>1, <1>4 DEF InOrder
  <2>. QED
    BY <1>1, <1>2, <1>4, <2>1 DEF StartsRaw
<1>5. ASSUME ~StartsRaw(k), k.sv > 0, k.ok PROVE Related(l, w, s)
  <2>1. ~StartsRaw(l) /\ l.sv > 0
    <3>1. CASE n = 0
      <4>1. l.stack[1] = e /\ e.kind = "d"
        BY <1>1, <1>2, <1>5, <3>1
      <4>. QED
        BY <1>1, <1>5, <4>1 DEF StartsRaw
    <3>2. CASE n # 0
      <4>1. l.stack[1] = k.stack[1] /\ k.stack # <<>>
        BY <1>1, <3>2
      <4>. QED
        BY <1>1, <1>5, <4>1 DEF StartsRaw
    <3>. QED
      BY <3>1, <3>2
  <2>2. VersionAt(l, 0) = VersionAt(k, 0) /\ TextAt(l, 0) = TextAt(k, 0)
    <3>1. CASE n = 0
      <4>1. l.stack[1] = e /\ e.v = k.cv /\ e.from = k.shadow
        BY <1>1, <1>2, <1>5, <3>1
      <4>. QED
        BY <1>1, <3>1, <4>1 DEF VersionAt, TextAt
    <3>2. CASE n # 0
      <4>1. l.stack[1] = k.stack[1]
        BY <1>1, <3>2
      <4>. QED
        BY <1>1, <3>2, <4>1 DEF VersionAt, TextAt
    <3>. QED
      BY <3>1, <3>2
  <2>3. \A p \in 1..n : VersionAt(l, p) = VersionAt(k, p) /\ TextAt(l, p) = TextAt(k, p)
    BY <1>1 DEF VersionAt, TextAt
  <2>4. ASSUME NEW p \in 0..n, Merged(k, p, s) PROVE Merged(l, p, s)
    <3>1. e.id \notin s
      BY <1>1, <1>2, <1>5
    <3>2. \A i \in 1..n + 1 : i \in 1..n \/ (i = n + 1 /\ ~(i <= p))
      BY <1>1
    <3>. QED
      BY <1>1, <2>4, <3>1, <3>2 DEF Merged
  <2>5. CASE Forgotten(w)
    BY <2>1, <2>5 DEF Related
  <2>6. CASE w # NoView /\ InStep(k, w) /\ Merged(k, 0, s)
    <3>1. InStep(l, w) /\ Merged(l, 0, s)
      BY <1>1, <2>2, <2>4, <2>6 DEF InStep
    <3>. QED
      BY <2>1, <2>6, <3>1 DEF Related
  <2>7. CASE w # NoView /\ \E p \in 1..n : Ahead(k, w, p) /\ Merged(k, p, s)
    <3>1. PICK p \in 1..n : Ahead(k, w, p) /\ Merged(k, p, s)
      BY <2>7
    <3>2. Ahead(l, w, p) /\ Merged(l, p, s) /\ p \in 1..Len(l.stack)
      BY <1>1, <2>3, <2>4, <3>1 DEF Ahead
    <3>. QED
      BY <2>1, <2>7, <3>2 DEF Related
  <2>. QED
    BY <1>5, <2>5, <2>6, <2>7 DEF Related, StartsRaw
<1>. QED
  BY <1>3, <1>4, <1>5, FieldTypes DEF Related

(***************************************************************************)
(* What a step leaves alone, and what it changes of c.                     *)
(***************************************************************************)
Unmoved(d) ==
    /\ client'[d] = client[d] /\ view'[d] = view[d] /\ msg'[d] = msg[d]
    /\ job'[d] = job[d] /\ phase'[d] = phase[d]
    /\ seen'[d] = seen[d] /\ replaced'[d] = replaced[d]

LEMMA OthersKeep ==
    ASSUME NEW d \in Clients, ClientInv(d), Unmoved(d), text # NoText => text' # NoText
    PROVE  ClientInv(d)'
  BY DEF Unmoved, ClientInv

LEMMA SyncKeeps ==
    ASSUME MobWriteInv, NEW c \in Clients, Sync(c)
    PROVE  \A d \in Clients : ClientInv(d)'
<1>. DEFINE k == client[c]
            l == Synced(k)
            m == [version |-> l.sv, edits |-> l.stack]
<1>1. TypeOK /\ ClientInv(c) /\ k \in ShareObjs /\ l \in ShareObjs
  BY OwnTypes, SyncedType DEF MobWriteInv
<1>2. /\ phase[c] = "idle" /\ (c = Owner \/ text # NoText)
      /\ client' = [client EXCEPT ![c] = l]
      /\ msg' = [msg EXCEPT ![c] = m]
      /\ phase' = [phase EXCEPT ![c] = "sent"]
      /\ UNCHANGED <<text, view, job, seen, replaced>>
  BY DEF Sync
<1>. HIDE DEF l, m
<1>3. /\ client'[c] = l /\ view'[c] = view[c] /\ msg'[c] = m /\ job'[c] = job[c]
      /\ phase'[c] = "sent" /\ seen'[c] = seen[c] /\ replaced'[c] = replaced[c]
      /\ \A d \in Clients \ {c} : Unmoved(d)
  BY <1>1, <1>2 DEF TypeOK, Unmoved
<1>4. Sound(k, view[c], msg[c], job[c], "idle", seen[c])
  BY <1>1, <1>2 DEF ClientInv
<1>5. /\ InOrder(l) /\ l.stack # <<>> /\ l.ok
      /\ seen[c] \subseteq 1..l.ids
      /\ (k.stack = <<>> /\ ~k.ok) \/ StartsRaw(k) => StartsRaw(l)
      /\ Related(k, view[c], seen[c]) => Related(l, view[c], seen[c])
  <2>1. InOrder(k) /\ seen[c] \subseteq 1..k.ids
    BY <1>4 DEF Sound
  <2>2. CASE l = k /\ k.stack # <<>> /\ k.ok
    BY <2>1, <2>2
  <2>3. CASE \E e : Grown(k, l, e)
    <3>1. PICK e : Grown(k, l, e)
      BY <2>3
    <3>2. InOrder(l) /\ (Related(k, view[c], seen[c]) => Related(l, view[c], seen[c]))
      BY <1>1, <2>1, <3>1, GrownInOrder, GrownRelated
    <3>3. l.ok /\ l.stack # <<>> /\ seen[c] \subseteq 1..l.ids
      <4>1. k.ids \in Nat /\ (l.ids = k.ids \/ l.ids = k.ids + 1)
        BY <1>1, <3>1, FieldTypes DEF Grown
      <4>2. l.ok /\ l.stack # <<>>
        BY <1>1, <3>1, GrownStack DEF Grown
      <4>. QED
        BY <2>1, <4>1, <4>2
    <3>4. ASSUME (k.stack = <<>> /\ ~k.ok) \/ StartsRaw(k) PROVE StartsRaw(l)
      <4>. DEFINE n == Len(k.stack)
      <4>2. /\ l.stack # <<>> /\ n \in Nat
            /\ l.stack[n + 1] = e /\ \A i \in 1..n : l.stack[i] = k.stack[i]
            /\ (k.stack = <<>> <=> n = 0)
        BY <1>1, <3>1, GrownStack
      <4>3. ~k.ok => e.kind = "r"
        BY <3>1 DEF Grown
      <4>. QED
        BY <3>4, <4>2, <4>3 DEF StartsRaw
    <3>. QED
      BY <3>2, <3>3, <3>4
  <2>. QED
    BY <1>1, <2>2, <2>3, SyncedIs DEF l
<1>6. IsRequest(l, m) /\ Handled(l, m) = 0
  <2>1. Len(l.stack) \in Nat /\ m.edits = l.stack /\ m.version = l.sv
    BY <1>1, FieldTypes DEF m
  <2>2. Handled(l, m) = 0
    BY <2>1 DEF Handled
  <2>. QED
    BY <1>5, <2>1, <2>2 DEF IsRequest
<1>7. Sound(l, view[c], m, job[c], "sent", seen[c])
  BY <1>4, <1>5, <1>6 DEF Sound
<1>8. text = NoText => Untold(l, m, job[c], "sent")
  BY <1>1, <1>5 DEF ClientInv, Untold
<1>9. ~replaced[c] => Known(l, view[c], m, job[c], "sent", seen[c])
  BY <1>1, <1>2, <1>5 DEF ClientInv, Known
<1>10. ClientInv(c)'
  BY <1>2, <1>3, <1>7, <1>8, <1>9 DEF ClientInv
<1>. QED
  BY <1>2, <1>3, <1>10, OthersKeep DEF MobWriteInv

(***************************************************************************)
(* The rest of the client's steps.                                         *)
(***************************************************************************)
SameButText(k, l) ==
    /\ l.shadow = k.shadow /\ l.cv = k.cv /\ l.sv = k.sv /\ l.ok = k.ok
    /\ l.stack = k.stack /\ l.ids = k.ids

LEMMA SameIsSame ==
    ASSUME NEW k, NEW l, SameButText(k, l), NEW w, NEW m, NEW j, NEW ph, NEW s
    PROVE  /\ Sound(k, w, m, j, ph, s) => Sound(l, w, m, j, ph, s)
           /\ Untold(k, m, j, ph) => Untold(l, m, j, ph)
           /\ Known(k, w, m, j, ph, s) => Known(l, w, m, j, ph, s)
<1>. USE DEF SameButText
<1>1. InOrder(k) => InOrder(l)
  BY DEF InOrder
<1>2. StartsRaw(l) = StartsRaw(k) /\ Handled(l, m) = Handled(k, m)
  BY DEF StartsRaw, Handled
<1>3. IsRequest(k, m) => IsRequest(l, m)
  BY <1>2 DEF IsRequest
<1>4. \A p : VersionAt(l, p) = VersionAt(k, p) /\ TextAt(l, p) = TextAt(k, p)
  BY DEF VersionAt, TextAt
<1>5. \A p : Merged(k, p, s) => Merged(l, p, s)
  BY DEF Merged
<1>6. \A v : Related(k, v, s) => Related(l, v, s)
  BY <1>2, <1>4, <1>5 DEF Related, InStep, Ahead
<1>7. \A v, p : StandsAt(k, v, p, s) => StandsAt(l, v, p, s)
  BY <1>2, <1>4, <1>5 DEF StandsAt
<1>8. \A v : Adrift(k, v) => Adrift(l, v)
  BY <1>2 DEF Adrift
<1>9. \A v : Served(k, m, v, s) => Served(l, m, v, s)
  BY <1>2, <1>6, <1>7, <1>8 DEF Served
<1>10. IsReply(k, w, m) => IsReply(l, w, m)
  BY DEF IsReply
<1>11. InStep(k, w) => InStep(l, w)
  BY <1>4 DEF InStep
<1>12. Sound(k, w, m, j, ph, s) => Sound(l, w, m, j, ph, s)
  BY <1>1, <1>2, <1>3 DEF Sound
<1>13. Untold(k, m, j, ph) => Untold(l, m, j, ph)
  BY <1>2 DEF Untold
<1>14. Known(k, w, m, j, ph, s) => Known(l, w, m, j, ph, s)
  BY <1>6, <1>9, <1>10, <1>11 DEF Known
<1>. QED
  BY <1>12, <1>13, <1>14

LEMMA TypingKeeps ==
    ASSUME MobWriteInv, NEW c \in Clients, NEW t, Typing(c, t)
    PROVE  \A d \in Clients : ClientInv(d)'
<1>1. TypeOK /\ ClientInv(c) /\ client[c] \in ShareObjs
  BY OwnTypes DEF MobWriteInv
<1>2. /\ client' = [client EXCEPT ![c].text = t]
      /\ UNCHANGED <<text, view, phase, msg, job, seen, replaced>>
  BY DEF Typing
<1>3. \A d \in Clients \ {c} : Unmoved(d)
  BY <1>1, <1>2 DEF TypeOK, Unmoved
<1>4. SameButText(client[c], client'[c])
  <2>1. client'[c] = [client[c] EXCEPT !.text = t]
    BY <1>1, <1>2 DEF TypeOK
  <2>. QED
    BY <1>1, <2>1 DEF SameButText, ShareObjs
<1>5. ClientInv(c)'
  BY <1>1, <1>2, <1>4, SameIsSame DEF ClientInv
<1>. QED
  BY <1>2, <1>3, <1>5, OthersKeep DEF MobWriteInv

LEMMA LoseKeeps ==
    ASSUME MobWriteInv, NEW c \in Clients, Lose(c)
    PROVE  \A d \in Clients : ClientInv(d)'
<1>1. TypeOK /\ ClientInv(c)
  BY DEF MobWriteInv
<1>2. /\ phase[c] \in {"sent", "answered"}
      /\ phase' = [phase EXCEPT ![c] = "idle"]
      /\ msg' = [msg EXCEPT ![c] = NoMessage]
      /\ UNCHANGED <<text, client, view, job, seen, replaced>>
  BY DEF Lose
<1>3. /\ phase'[c] = "idle" /\ msg'[c] = NoMessage
      /\ \A d \in Clients \ {c} : Unmoved(d)
  BY <1>1, <1>2 DEF TypeOK, Unmoved
<1>4. Sound(client[c], view[c], NoMessage, job[c], "idle", seen[c])
  BY <1>1, <1>2 DEF ClientInv, Sound
<1>5. text = NoText => Untold(client[c], NoMessage, job[c], "idle")
  BY <1>1, <1>2 DEF ClientInv, Untold
<1>6. ~replaced[c] => Known(client[c], view[c], NoMessage, job[c], "idle", seen[c])
  BY <1>1, <1>2 DEF ClientInv, Known
<1>7. ClientInv(c)'
  BY <1>2, <1>3, <1>4, <1>5, <1>6 DEF ClientInv
<1>. QED
  BY <1>2, <1>3, <1>7, OthersKeep DEF MobWriteInv

LEMMA CleanupKeeps ==
    ASSUME MobWriteInv, NEW c \in Clients, Cleanup(c)
    PROVE  \A d \in Clients : ClientInv(d)'
<1>1. TypeOK /\ ClientInv(c)
  BY DEF MobWriteInv
<1>2. /\ phase[c] # "serving"
      /\ view' = [view EXCEPT ![c] = NoView]
      /\ UNCHANGED <<text, client, phase, msg, job, seen, replaced>>
  BY DEF Cleanup
<1>3. view'[c] = NoView /\ \A d \in Clients \ {c} : Unmoved(d)
  BY <1>1, <1>2 DEF TypeOK, Unmoved
<1>4. Sound(client[c], NoView, msg[c], job[c], phase[c], seen[c])
  BY <1>1 DEF ClientInv, Sound, Stacked
<1>5. Related(client[c], view[c], seen[c]) => Related(client[c], NoView, seen[c])
  BY DEF Related, Forgotten
<1>6. IsReply(client[c], view[c], msg[c]) => IsReply(client[c], NoView, msg[c])
  BY DEF IsReply
<1>7. ~replaced[c] => Known(client[c], NoView, msg[c], job[c], phase[c], seen[c])
  BY <1>1, <1>2, <1>5, <1>6 DEF ClientInv, Known
<1>8. ClientInv(c)'
  BY <1>1, <1>2, <1>3, <1>4, <1>7 DEF ClientInv
<1>. QED
  BY <1>2, <1>3, <1>8, OthersKeep DEF MobWriteInv

LEMMA ReadFileKeeps ==
    ASSUME MobWriteInv, NEW c \in Clients, ReadFile(c)
    PROVE  \A d \in Clients : ClientInv(d)'
<1>. DEFINE k == client[c]
            m == msg[c]
            l == [k EXCEPT !.ok = TRUE, !.stack = Unacked(k.stack, m.version)]
<1>1. TypeOK /\ ClientInv(c) /\ k \in ShareObjs /\ m.version \in Nat
      /\ m.edits \in Seq(Edits)
  BY OwnTypes DEF MobWriteInv
<1>2. /\ phase[c] = "answered"
      /\ phase' = [phase EXCEPT ![c] = "reading"]
      /\ client' = [client EXCEPT ![c] = l]
      /\ UNCHANGED <<text, view, msg, job, seen, replaced>>
  BY DEF ReadFile
<1>3. /\ l.stack = Unacked(k.stack, m.version) /\ l.ok
      /\ l.cv = k.cv /\ l.sv = k.sv /\ l.shadow = k.shadow /\ l.ids = k.ids
  BY <1>1 DEF ShareObjs
<1>. HIDE DEF l
<1>4. /\ phase'[c] = "reading" /\ client'[c] = l
      /\ \A d \in Clients \ {c} : Unmoved(d)
  BY <1>1, <1>2 DEF TypeOK, Unmoved
<1>5. EndsRaw(m) \/ l.stack = <<>>
  BY <1>1, <1>2, <1>3, FieldTypes, UnackedIs DEF ClientInv, Sound
<1>6. Sound(l, view[c], m, job[c], "reading", seen[c])
  BY <1>1, <1>2, <1>3, <1>5 DEF ClientInv, Sound
<1>7. text # NoText
  BY <1>1, <1>2 DEF ClientInv, Untold
<1>8. ASSUME ~replaced[c]
      PROVE  Known(l, view[c], m, job[c], "reading", seen[c])
  <2>1. IsReply(k, view[c], m)
    BY <1>1, <1>2, <1>8 DEF ClientInv, Known
  <2>2. IsReply(l, view[c], m) /\ m.edits # <<>>
    BY <1>1, <1>3, <2>1, EmptySeq DEF IsReply
  <2>. QED
    BY <1>3, <2>2 DEF Known
<1>9. ClientInv(c)'
  BY <1>2, <1>4, <1>6, <1>7, <1>8 DEF ClientInv
<1>. QED
  BY <1>2, <1>4, <1>9, OthersKeep DEF MobWriteInv

LEMMA ReadEndKeeps ==
    ASSUME MobWriteInv, NEW c \in Clients, ReadEnd(c)
    PROVE  \A d \in Clients : ClientInv(d)'
<1>. DEFINE k == client[c]
            w == view[c]
            m == [msg[c] EXCEPT !.version = 0]
<1>1. TypeOK /\ ClientInv(c) /\ k \in ShareObjs
  BY OwnTypes DEF MobWriteInv
<1>2. /\ phase[c] = "reading" /\ msg[c].edits = <<>>
      /\ phase' = [phase EXCEPT ![c] = "idle"]
      /\ msg' = [msg EXCEPT ![c] = m]
      /\ UNCHANGED <<text, client, view, job, seen, replaced>>
  BY DEF ReadEnd
<1>. HIDE DEF m
<1>3. /\ phase'[c] = "idle" /\ msg'[c] = m
      /\ \A d \in Clients \ {c} : Unmoved(d)
  BY <1>1, <1>2 DEF TypeOK, Unmoved
<1>4. k.stack = <<>> /\ Len(k.stack) = 0
  <2>1. ~EndsRaw(msg[c])
    BY <1>2 DEF EndsRaw
  <2>2. k.stack = <<>>
    BY <1>1, <1>2, <2>1 DEF ClientInv, Sound
  <2>. QED
    BY <2>2, EmptySeq
<1>5. InOrder(k)
  BY <1>4 DEF InOrder
<1>6. Sound(k, w, m, job[c], "idle", seen[c])
  BY <1>1, <1>2, <1>5 DEF ClientInv, Sound
<1>7. text # NoText
  BY <1>1, <1>2 DEF ClientInv, Untold
<1>8. ASSUME ~replaced[c]
      PROVE  Known(k, w, m, job[c], "idle", seen[c])
  <2>1. k.sv > 0 /\ (w # NoView => InStep(k, w))
    BY <1>1, <1>2, <1>8 DEF ClientInv, Known
  <2>2. ~StartsRaw(k) /\ Merged(k, 0, seen[c])
    BY <1>4 DEF StartsRaw, Merged
  <2>3. Related(k, w, seen[c])
    BY <2>1, <2>2 DEF Related, Forgotten
  <2>. QED
    BY <2>3 DEF Known
<1>9. ClientInv(c)'
  BY <1>2, <1>3, <1>6, <1>7, <1>8 DEF ClientInv
<1>. QED
  BY <1>2, <1>3, <1>9, OthersKeep DEF MobWriteInv

LEMMA ReadEditKeeps ==
    ASSUME MobWriteInv, NEW c \in Clients, ReadEdit(c)
    PROVE  \A d \in Clients : ClientInv(d)'
<1>. DEFINE k == client[c]
            w == view[c]
            m == msg[c]
            e == m.edits[1]
            rest == Tail(m.edits)
            l == IF e.kind = "d" THEN Received(k, e, m.version)
                                 ELSE Replaced(k, e, m.version)
            n == [version |-> m.version, edits |-> rest]
<1>1. TypeOK /\ ClientInv(c) /\ k \in ShareObjs /\ m.version \in Nat
      /\ m.edits \in Seq(Edits)
  BY OwnTypes DEF MobWriteInv
<1>2. /\ phase[c] = "reading" /\ m.edits # <<>>
      /\ UNCHANGED <<text, view, phase, job, seen>>
  BY DEF ReadEdit
<1>3. /\ Head(m.edits) = e /\ e \in Edits /\ Len(m.edits) \in Nat \ {0}
      /\ rest \in Seq(Edits) /\ Len(rest) = Len(m.edits) - 1
      /\ \A i \in 1..Len(m.edits) - 1 : rest[i] = m.edits[i + 1]
  BY <1>1, <1>2, TailIs
<1>4. /\ client' = [client EXCEPT ![c] = l]
      /\ replaced' = [replaced EXCEPT ![c] = @ \/ e.kind # "d"]
      /\ msg' = [msg EXCEPT ![c] = n]
  <2>1. /\ client' = [client EXCEPT ![c] = l]
        /\ replaced' = [replaced EXCEPT ![c] = @ \/ e.kind # "d"]
        /\ msg' = [msg EXCEPT ![c].edits = Tail(@)]
    BY <1>3 DEF ReadEdit
  <2>. QED
    BY <1>1, <2>1, MessageTail
<1>5. /\ l.ids = k.ids
      /\ e.kind = "d" => l.stack = k.stack
      /\ e.kind # "d" => l.stack = <<>>
  BY <1>1 DEF Received, Replaced, ShareObjs
<1>6. ASSUME e.kind = "d", m.version = k.cv, e.v = k.sv, e.from = k.shadow
      PROVE  /\ l.cv = k.cv /\ l.sv = k.sv + 1 /\ l.ok = k.ok /\ l.shadow = e.to
  <2>1. Fits(k.shadow, e) /\ Patch(k.shadow, e) = e.to
    BY <1>3, <1>6, PatchIs
  <2>2. k.sv \in Nat
    BY <1>1, FieldTypes
  <2>. DEFINE t == Patch(k.text, e)
  <2>3. l = [k EXCEPT !.sv = @ + 1, !.shadow = Patch(@, e), !.text = t]
    BY <1>6, <2>1, <2>2 DEF Received
  <2>. HIDE DEF l, t, e
  <2>. QED
    BY <1>1, <2>1, <2>3 DEF ShareObjs
<1>. HIDE DEF l, n, rest
<1>7. /\ client'[c] = l /\ msg'[c] = n /\ replaced'[c] = (replaced[c] \/ e.kind # "d")
      /\ phase'[c] = "reading"
      /\ \A d \in Clients \ {c} : Unmoved(d)
  BY <1>1, <1>2, <1>4 DEF TypeOK, Unmoved
<1>8. n.edits = rest /\ n.version = m.version
  BY DEF n
<1>9. EndsRaw(n) \/ l.stack = <<>>
  <2>1. EndsRaw(m) \/ k.stack = <<>>
    BY <1>1, <1>2 DEF ClientInv, Sound
  <2>2. CASE e.kind # "d"
    BY <1>5, <2>2
  <2>3. CASE e.kind = "d" /\ k.stack = <<>>
    BY <1>5, <2>3
  <2>4. CASE e.kind = "d" /\ EndsRaw(m)
    <3>1. Len(m.edits) # 1
      BY <2>4 DEF EndsRaw
    <3>2. Len(rest) \in Nat \ {0} /\ rest[Len(rest)] = m.edits[Len(m.edits)]
      <4>. DEFINE x == Len(m.edits)
                  y == Len(rest)
      <4>0. x \in Nat \ {0} /\ y = x - 1 /\ x # 1
        BY <1>3, <3>1
      <4>. HIDE DEF x, y
      <4>3. y \in 1..x - 1 /\ y + 1 = x /\ y \in Nat \ {0}
        BY <4>0
      <4>1. Len(rest) \in 1..Len(m.edits) - 1 /\ Len(rest) + 1 = Len(m.edits)
            /\ Len(rest) \in Nat \ {0}
        BY <4>3 DEF x, y
      <4>2. rest[Len(rest)] = m.edits[Len(rest) + 1]
        BY <1>3, <4>1
      <4>. QED
        BY <4>1, <4>2
    <3>3. rest # <<>>
      BY <3>2, EmptySeq
    <3>. QED
      BY <1>8, <2>4, <3>2, <3>3 DEF EndsRaw
  <2>. QED
    BY <2>1, <2>2, <2>3, <2>4
<1>10. Sound(l, w, n, job[c], "reading", seen[c])
  BY <1>1, <1>2, <1>5, <1>9 DEF ClientInv, Sound
<1>11. text # NoText
  BY <1>1, <1>2 DEF ClientInv, Untold
<1>12. ASSUME ~replaced[c], e.kind = "d"
       PROVE  Known(l, w, n, job[c], "reading", seen[c])
  <2>1. k.ok /\ IsReply(k, w, m)
    BY <1>1, <1>2, <1>12 DEF ClientInv, Known
  <2>2. /\ Len(m.edits) = 1
        /\ m.version = k.cv /\ e.v = k.sv /\ e.from = k.shadow
        /\ w # NoView => w.ssv = k.sv + 1 /\ w.scv = k.cv /\ w.shadow = e.to
    BY <1>12, <2>1 DEF IsReply
  <2>3. ~EndsRaw(m)
    BY <1>12, <2>2 DEF EndsRaw
  <2>4. l.stack = <<>>
    BY <1>1, <1>2, <1>5, <1>12, <2>3 DEF ClientInv, Sound
  <2>5. l.cv = k.cv /\ l.sv = k.sv + 1 /\ l.ok /\ l.shadow = e.to /\ k.sv \in Nat
    BY <1>1, <1>6, <1>12, <2>1, <2>2, FieldTypes
  <2>6. rest = <<>>
    BY <1>3, <2>2, EmptySeq
  <2>7. w # NoView => InStep(l, w)
    BY <2>2, <2>4, <2>5 DEF InStep, VersionAt, TextAt
  <2>8. l.sv > 0
    BY <2>5
  <2>. HIDE DEF e, m, k, w
  <2>. QED
    BY <1>8, <2>4, <2>5, <2>6, <2>7, <2>8 DEF Known
<1>13. ClientInv(c)'
  BY <1>2, <1>7, <1>10, <1>11, <1>12 DEF ClientInv
<1>. QED
  BY <1>2, <1>7, <1>13, OthersKeep DEF MobWriteInv

------------------------------------------------------------------------------
(***************************************************************************)
(* The server's steps.                                                     *)
(***************************************************************************)
LEMMA FetchKeeps ==
    ASSUME MobWriteInv, NEW c \in Clients, Fetch(c)
    PROVE  \A d \in Clients : ClientInv(d)'
<1>. DEFINE k == client[c]
            w == IF view[c] = NoView THEN FreshView ELSE view[c]
            x == [w EXCEPT !.ok = TRUE]
            j == [view |-> x, text |-> job[c].text]
<1>1. TypeOK /\ ClientInv(c) /\ k \in ShareObjs /\ w \in ViewObjs
  BY OwnTypes, FreshType DEF MobWriteInv
<1>2. /\ phase[c] = "sent"
      /\ phase' = [phase EXCEPT ![c] = "serving"]
      /\ view' = [view EXCEPT ![c] = w] /\ view'[c] = w
      /\ UNCHANGED <<text, client, msg, seen, replaced>>
  BY <1>1 DEF Fetch, TypeOK
<1>3. job' = [job EXCEPT ![c] = j]
  <2>1. job' = [job EXCEPT ![c].view = x]
    BY <1>2 DEF Fetch
  <2>. QED
    BY <1>1, <2>1, JobView
<1>4. /\ x \in ViewObjs /\ x.ok /\ x.ssv = w.ssv /\ x.bsv = w.bsv /\ x.scv = w.scv
      /\ x.shadow = w.shadow /\ x.backup = w.backup /\ x.stack = w.stack
  <2>. HIDE DEF w
  <2>. QED
    BY <1>1 DEF ViewObjs
<1>5. view[c] = NoView => w.ssv = 0 /\ w.bsv = 0 /\ w.stack = <<>>
  BY DEF FreshView
<1>6. view[c] # NoView => w = view[c]
  OBVIOUS
<1>. HIDE DEF w, x
<1>7. j.view = x /\ j.text = job[c].text /\ x # NoView
  BY <1>4, NoViewAssumption
<1>. HIDE DEF j
<1>8. /\ phase'[c] = "serving" /\ job'[c] = j
      /\ \A d \in Clients \ {c} : Unmoved(d)
  BY <1>1, <1>2, <1>3 DEF TypeOK, Unmoved
<1>9. Handled(k, msg[c]) = 0 /\ IsRequest(k, msg[c])
  BY <1>1, <1>2 DEF ClientInv, Sound
<1>10. Stacked(w) /\ Stacked(x)
  <2>1. Stacked(view[c])
    BY <1>1 DEF ClientInv, Sound
  <2>2. Stacked(w)
    BY <1>5, <1>6, <2>1, EmptySeq DEF Stacked
  <2>. QED
    BY <1>1, <1>4, <2>2, NoViewAssumption DEF Stacked
<1>11. Sound(k, w, msg[c], j, "serving", seen[c])
  BY <1>1, <1>2, <1>7, <1>9, <1>10 DEF ClientInv, Sound
<1>12. text = NoText => Untold(k, msg[c], j, "serving")
  BY <1>1, <1>2, <1>7, <1>9 DEF ClientInv, Untold
<1>13. ASSUME Related(k, view[c], seen[c])
       PROVE  Related(k, x, seen[c])
  <2>1. Forgotten(view[c]) => Forgotten(x)
    BY <1>4, <1>5, <1>6 DEF Forgotten
  <2>2. view[c] # NoView /\ InStep(k, view[c]) => InStep(k, x)
    BY <1>4, <1>6 DEF InStep
  <2>3. \A p : view[c] # NoView /\ Ahead(k, view[c], p) => Ahead(k, x, p)
    BY <1>4, <1>6 DEF Ahead
  <2>. QED
    BY <1>7, <1>13, <2>1, <2>2, <2>3 DEF Related
<1>14. ~replaced[c] => Known(k, w, msg[c], j, "serving", seen[c])
  BY <1>1, <1>2, <1>4, <1>7, <1>9, <1>13 DEF ClientInv, Known, Served
<1>15. ClientInv(c)'
  BY <1>2, <1>8, <1>11, <1>12, <1>14 DEF ClientInv
<1>. QED
  BY <1>2, <1>8, <1>15, OthersKeep DEF MobWriteInv

\* What serving the next edit e, the one after h of the stack, takes off the request.
LEMMA RequestTail ==
    ASSUME MobWriteInv, NEW c \in Clients, phase[c] = "serving", msg[c].edits # <<>>
    PROVE  LET k == client[c]
               m == msg[c]
               n == [version |-> m.version, edits |-> Tail(m.edits)]
               h == Handled(k, m) IN
           /\ k \in ShareObjs /\ Len(k.stack) \in Nat /\ k.stack # <<>>
           /\ h \in Nat /\ h + 1 \in 1..Len(k.stack)
           /\ m.edits[1] = k.stack[h + 1] /\ m.version = k.sv
           /\ n.version = m.version /\ n.edits = Tail(m.edits)
           /\ IsRequest(k, n) /\ Handled(k, n) = h + 1
<1>. DEFINE k == client[c]
            m == msg[c]
            rest == Tail(m.edits)
            n == [version |-> m.version, edits |-> rest]
            h == Handled(k, m)
<1>1. /\ TypeOK /\ k \in ShareObjs /\ k.stack \in Seq(Edits) /\ Len(k.stack) \in Nat
      /\ m.edits \in Seq(Edits)
  <2>1. TypeOK /\ k \in ShareObjs /\ k.stack \in Seq(Edits) /\ m.edits \in Seq(Edits)
    BY OwnTypes, FieldTypes DEF MobWriteInv
  <2>. QED
    BY <2>1, LenProperties
<1>2. /\ Len(m.edits) \in Nat \ {0} /\ rest \in Seq(Edits) /\ Len(rest) = Len(m.edits) - 1
      /\ \A i \in 1..Len(m.edits) - 1 : rest[i] = m.edits[i + 1]
  BY <1>1, TailIs
<1>3. IsRequest(k, m)
  BY DEF MobWriteInv, ClientInv, Sound
<1>4. n.version = m.version /\ n.edits = rest
  OBVIOUS
<1>. HIDE DEF n, rest
<1>5. /\ h \in Nat /\ h + 1 \in 1..Len(k.stack) /\ Handled(k, n) = h + 1
      /\ Len(n.edits) <= Len(k.stack)
  <2>. DEFINE x == Len(k.stack)
              y == Len(m.edits)
              z == Len(n.edits)
  <2>1. x \in Nat /\ y \in Nat \ {0} /\ z = y - 1 /\ y <= x
    BY <1>1, <1>2, <1>3, <1>4 DEF IsRequest
  <2>2. h = x - y /\ Handled(k, n) = x - z
    BY DEF Handled
  <2>. HIDE DEF x, y, z, h
  <2>3. h \in Nat /\ h + 1 \in 1..x /\ x - z = h + 1 /\ z <= x
    BY <2>1, <2>2
  <2>. QED
    BY <2>2, <2>3 DEF x, z
<1>6. Handled(k, n) = h + 1
  BY <1>5
<1>7. \A i \in 1..Len(m.edits) : m.edits[i] = k.stack[h + i]
  BY <1>3 DEF IsRequest
<1>. HIDE DEF h, k
<1>8. m.edits[1] = k.stack[h + 1]
  BY <1>2, <1>7
<1>9. ASSUME NEW i \in 1..Len(rest)
      PROVE  rest[i] = k.stack[(h + 1) + i]
  <2>1. i + 1 \in 1..Len(m.edits) /\ rest[i] = m.edits[i + 1]
    BY <1>2
  <2>2. m.edits[i + 1] = k.stack[h + (i + 1)]
    BY <1>7, <2>1
  <2>3. i \in Nat /\ h + (i + 1) = (h + 1) + i
    BY <1>5
  <2>. QED
    BY <2>1, <2>2, <2>3
<1>10. Len(n.edits) <= Len(k.stack)
  BY <1>5
<1>11. IsRequest(k, n)
  BY <1>3, <1>4, <1>6, <1>9, <1>10 DEF IsRequest
<1>. QED
  BY <1>1, <1>3, <1>4, <1>5, <1>6, <1>8, <1>11 DEF h, k, n, rest, IsRequest

\* What reading the version of a request leaves of the copy of the view.
LEMMA AckedKeeps ==
    ASSUME NEW w \in ViewObjs, NEW v \in Nat, Stacked(w)
    PROVE  LET x == AckedView(w, v) IN
           /\ x \in ViewObjs /\ Stacked(x)
           /\ x.ok = w.ok /\ x.scv = w.scv
           /\ v = w.ssv => x.ssv = v /\ x.stack = <<>> /\ x.bsv = w.bsv
                           /\ x.shadow = w.shadow /\ x.backup = w.backup
           /\ v # w.ssv /\ v = w.bsv
                => x.ssv = v /\ x.stack = <<>> /\ x.bsv = v
                   /\ x.shadow = w.backup /\ x.backup = w.backup
           /\ v # w.ssv /\ v # w.bsv /\ w.ssv < v
                => x.ssv = w.ssv /\ x.stack = <<>> /\ x.bsv = w.bsv
<1>. DEFINE r == RolledBack(w, v)
            x == AckedView(w, v)
            left == Unacked(r.stack, v)
<1>1. /\ r \in ViewObjs /\ x \in ViewObjs /\ r.stack \in Seq(Edits) /\ r.ssv \in Nat
      /\ w.stack \in Seq(Edits) /\ Len(w.stack) \in Nat /\ w.ssv \in Nat /\ w.bsv \in Nat
      /\ w # NoView /\ x # NoView
  BY AckedType, ViewTypes, LenProperties
<1>2. /\ r.ok = w.ok /\ r.scv = w.scv /\ r.bsv = w.bsv /\ r.backup = w.backup
      /\ v # w.ssv /\ v = w.bsv => r.shadow = w.backup /\ r.ssv = v /\ r.stack = <<>>
      /\ ~(v # w.ssv /\ v = w.bsv) => r = w
  <2>. HIDE DEF r
  <2>1. r = IF v # w.ssv /\ v = w.bsv
            THEN [w EXCEPT !.shadow = w.backup, !.ssv = w.bsv, !.stack = <<>>]
            ELSE w
    BY DEF r, RolledBack
  <2>. QED
    BY <2>1 DEF ViewObjs
<1>3. x = [r EXCEPT !.stack = left]
  BY DEF AckedView
<1>. HIDE DEF r, x, left
<1>4. /\ x.stack = left /\ x.ssv = r.ssv /\ x.bsv = r.bsv /\ x.scv = r.scv
      /\ x.shadow = r.shadow /\ x.backup = r.backup /\ x.ok = r.ok
  BY <1>1, <1>3 DEF ViewObjs
<1>5. /\ left \in Seq(Edits)
      /\ \A i \in 1..Len(left) : \E n \in 1..Len(r.stack) : left[i] = r.stack[n]
      /\ (\A i \in 1..Len(r.stack) : r.stack[i].v <= v) => left = <<>>
  <2>. DEFINE s == r.stack
  <2>1. s \in Seq(Edits) /\ left = Unacked(s, v)
    BY <1>1 DEF left
  <2>. HIDE DEF s
  <2>2. /\ Unacked(s, v) \in Seq(Edits)
        /\ \A i \in 1..Len(Unacked(s, v)) : \E n \in 1..Len(s) : Unacked(s, v)[i] = s[n]
        /\ (\A i \in 1..Len(s) : s[i].v <= v) => Unacked(s, v) = <<>>
    BY <2>1, UnackedIs
  <2>. QED
    BY <2>1, <2>2 DEF s
<1>6. \A i \in 1..Len(r.stack) : r.stack[i].v <= r.ssv
  <2>1. \A i \in 1..Len(w.stack) : w.stack[i].v <= w.ssv
    BY <1>1 DEF Stacked
  <2>2. CASE v # w.ssv /\ v = w.bsv
    BY <1>2, <2>2, EmptySeq
  <2>3. CASE ~(v # w.ssv /\ v = w.bsv)
    BY <1>2, <2>1, <2>3
  <2>. QED
    BY <2>2, <2>3
<1>7. \A i \in 1..Len(r.stack) : r.stack[i].v \in Nat
  BY <1>1, EditsIn
<1>8. Stacked(x)
  BY <1>4, <1>5, <1>6 DEF Stacked
<1>9. r.ssv <= v => left = <<>>
  BY <1>1, <1>5, <1>6, <1>7
<1>. QED
  BY <1>1, <1>2, <1>4, <1>8, <1>9 DEF x

\* A delta at h + 1 of the stack, when the copy x stands at p of the edits.
LEMMA DeltaIs ==
    ASSUME NEW k \in ShareObjs, InOrder(k), NEW h \in Nat, h + 1 \in 1..Len(k.stack),
           k.stack[h + 1].kind = "d",
           NEW p \in h..Len(k.stack), NEW x \in ViewObjs, NEW s, StandsAt(k, x, p, s)
    PROVE  LET e == k.stack[h + 1] IN
           /\ ~Refused(x, e, k.sv)
           /\ p = h => e.v = x.scv /\ x.shadow = e.from
           /\ p # h => p >= h + 1 /\ e.v < x.scv
<1>. DEFINE e == k.stack[h + 1]
            n == Len(k.stack)
<1>1. /\ k.stack \in Seq(Edits) /\ n \in Nat /\ k.stack # <<>>
      /\ \A i \in 1..n : /\ k.stack[i].v \in Nat /\ After(k.stack[i]) \in Nat
                         /\ k.stack[i].v <= After(k.stack[i]) /\ k.stack[i].from \in Text
  BY FieldTypes, EmptySeq, EditsIn
<1>2. h + 1 \in 1..n /\ e.v \in Nat /\ After(e) = e.v + 1 /\ e.from \in Text
  BY <1>1 DEF After
<1>3. x.ssv = k.sv /\ x.scv = VersionAt(k, p) /\ x.shadow = TextAt(k, p) /\ x.scv \in Nat
  BY ViewTypes DEF StandsAt
<1>4. ASSUME p = h PROVE e.v = x.scv /\ x.shadow = e.from
  <2>1. CASE h = 0
    BY <1>1, <1>3, <1>4, <2>1 DEF VersionAt, TextAt
  <2>2. CASE h # 0
    <3>1. h \in 1..n - 1
      BY <1>1, <1>2, <2>2
    <3>2. e.v = After(k.stack[h]) /\ e.from = k.stack[h].to
      BY <3>1 DEF InOrder
    <3>. QED
      BY <1>3, <1>4, <2>2, <3>2 DEF VersionAt, TextAt
  <2>. QED
    BY <2>1, <2>2
<1>5. ASSUME p # h PROVE p >= h + 1 /\ e.v < x.scv
  <2>1. p \in Nat /\ p >= h + 1 /\ p \in 1..n
    BY <1>1, <1>5
  <2>2. x.scv = After(k.stack[p])
    BY <1>3, <2>1 DEF VersionAt
  <2>3. CASE p = h + 1
    BY <1>2, <2>1, <2>2, <2>3
  <2>4. CASE p # h + 1
    <3>1. After(e) <= k.stack[p].v
      <4>1. h + 1 < p
        BY <2>1, <2>4
      <4>. QED
        BY <1>2, <2>1, <4>1 DEF InOrder
    <3>. QED
      BY <1>1, <1>2, <2>1, <2>2, <3>1
  <2>. QED
    BY <2>3, <2>4
<1>6. ~Refused(x, e, k.sv)
  <2>1. CASE p = h
    <3>1. x.shadow # NoText
      BY <1>2, <1>4, <2>1, TextAssumption DEF Text
    <3>. HIDE DEF e
    <3>. QED
      BY <1>2, <1>3, <1>4, <2>1, <3>1 DEF Refused
  <2>2. CASE p # h
    <3>1. e.v < x.scv /\ e.v \in Nat /\ x.scv \in Nat
      BY <1>2, <1>3, <1>5, <2>2
    <3>. HIDE DEF e
    <3>. QED
      BY <1>3, <3>1 DEF Refused
  <2>. QED
    BY <2>1, <2>2
<1>. QED
  BY <1>4, <1>5, <1>6

\* Where the copy of the view stands when a delta is looked at: nowhere, or at an
\* edit from which the delta goes on, or behind the delta.
LEMMA AckedStands ==
    ASSUME MobWriteInv, NEW c \in Clients, phase[c] = "serving", msg[c].edits # <<>>,
           msg[c].edits[1].kind = "d", ~replaced[c]
    PROVE  LET k == client[c]
               x == Acked(c)
               h == Handled(k, msg[c]) IN
           \/ Adrift(k, x)
           \/ \E p \in h..Len(k.stack) :
                 StandsAt(k, x, p, seen[c]) /\ (StartsRaw(k) => p = h)
<1>. DEFINE k == client[c]
            m == msg[c]
            w == job[c].view
            x == Acked(c)
            h == Handled(k, m)
            s == seen[c]
<1>1. /\ TypeOK /\ ClientInv(c) /\ phase[c] = "serving" /\ m.edits # <<>>
      /\ m.edits[1].kind = "d" /\ m.version \in Nat /\ w \in ViewObjs /\ w # NoView
  BY ServingViews, OwnTypes, ViewTypes DEF MobWriteInv
<1>2. /\ k \in ShareObjs /\ Len(k.stack) \in Nat /\ k.stack # <<>> /\ h \in Nat
      /\ h + 1 \in 1..Len(k.stack) /\ m.edits[1] = k.stack[h + 1] /\ m.version = k.sv
  BY <1>1, RequestTail
<1>3. Stacked(w) /\ Served(k, m, w, s)
  BY <1>1 DEF ClientInv, Sound, Known
<1>4. /\ x.ok = w.ok /\ x.scv = w.scv
      /\ k.sv = w.ssv => x.ssv = k.sv /\ x.stack = <<>> /\ x.bsv = w.bsv
                         /\ x.shadow = w.shadow /\ x.backup = w.backup
      /\ k.sv # w.ssv /\ k.sv = w.bsv
           => x.ssv = k.sv /\ x.stack = <<>> /\ x.bsv = k.sv
              /\ x.shadow = w.backup /\ x.backup = w.backup
      /\ k.sv # w.ssv /\ k.sv # w.bsv /\ w.ssv < k.sv
           => x.ssv = w.ssv /\ x.stack = <<>> /\ x.bsv = w.bsv
  <2>1. x = AckedView(w, k.sv) /\ k.sv \in Nat
    BY <1>2, AckedIsView, FieldTypes
  <2>. HIDE DEF x, k, w
  <2>. QED
    BY <1>1, <1>3, <2>1, AckedKeeps
<1>5. k.sv \in Nat /\ w.ssv \in Nat /\ w.bsv \in Nat
  BY <1>1, <1>2, FieldTypes, ViewTypes
<1>. DEFINE Stands == \/ Adrift(k, x)
                      \/ \E p \in h..Len(k.stack) :
                            StandsAt(k, x, p, s) /\ (StartsRaw(k) => p = h)
<1>. HIDE DEF k, m, w, x, h, s
<1>6. ASSUME ~StartsRaw(k), k.sv > 0, w.ssv = 0, w.bsv = 0
      PROVE  Adrift(k, x)
  BY <1>4, <1>5, <1>6 DEF Adrift
<1>7. ASSUME h = 0 PROVE Stands
  <2>1. Related(k, w, s) /\ w.ok
    BY <1>3, <1>7 DEF Served, h
  <2>2. ~StartsRaw(k) /\ k.stack # <<>>
    BY <1>1, <1>2, <1>7 DEF StartsRaw
  <2>3. /\ k.sv > 0
        /\ \/ Forgotten(w)
           \/ w # NoView /\ InStep(k, w) /\ Merged(k, 0, s)
           \/ w # NoView /\ \E p \in 1..Len(k.stack) : Ahead(k, w, p) /\ Merged(k, p, s)
    BY <2>1, <2>2 DEF Related
  <2>4. CASE Forgotten(w)
    BY <1>1, <1>6, <2>2, <2>3, <2>4 DEF Forgotten
  <2>5. CASE InStep(k, w) /\ Merged(k, 0, s)
    <3>1. StandsAt(k, x, 0, s)
      BY <1>4, <2>1, <2>2, <2>3, <2>5 DEF InStep, StandsAt
    <3>. QED
      BY <1>2, <1>7, <2>2, <3>1
  <2>6. ASSUME NEW p \in 1..Len(k.stack), Ahead(k, w, p), Merged(k, p, s)
        PROVE  StandsAt(k, x, p, s)
    BY <1>4, <1>5, <2>1, <2>2, <2>3, <2>6 DEF Ahead, StandsAt
  <2>7. CASE \E p \in 1..Len(k.stack) : Ahead(k, w, p) /\ Merged(k, p, s)
    BY <1>2, <1>7, <2>2, <2>6, <2>7
  <2>. QED
    BY <2>3, <2>4, <2>5, <2>7
<1>8. ASSUME h # 0 PROVE Stands
  <2>1. \/ Adrift(k, w)
        \/ \E p \in h..Len(k.stack) : StandsAt(k, w, p, s) /\ (StartsRaw(k) => p = h)
    BY <1>3, <1>8 DEF Served, h
  <2>2. CASE Adrift(k, w)
    BY <1>6, <2>2 DEF Adrift
  <2>3. ASSUME NEW p, StandsAt(k, w, p, s)
        PROVE  StandsAt(k, x, p, s)
    BY <1>4, <2>3 DEF StandsAt
  <2>. QED
    BY <2>1, <2>2, <2>3
<1>. QED
  BY <1>7, <1>8 DEF k, x, h, s, m

LEMMA TakeRawKeeps ==
    ASSUME MobWriteInv, NEW c \in Clients, TakeRaw(c)
    PROVE  \A d \in Clients : ClientInv(d)'
<1>. DEFINE k == client[c]
            m == msg[c]
            n == [version |-> m.version, edits |-> Tail(m.edits)]
            h == Handled(k, m)
            e == k.stack[h + 1]
            x == RawView(c)
            j == [view |-> x, text |-> job'[c].text]
            s == seen[c]
<1>1. TypeOK /\ ClientInv(c) /\ Serving(c, "r")
  BY DEF MobWriteInv, TakeRaw
<1>2. /\ phase[c] = "serving" /\ m.edits # <<>> /\ m.edits[1].kind = "r"
      /\ msg' = [msg EXCEPT ![c] = n] /\ UNCHANGED <<client, view, phase>>
      /\ job' = [job EXCEPT ![c] = j]
      /\ text' # NoText
      /\ text # NoText => text' = text
      /\ replaced' = [replaced EXCEPT ![c] = FALSE] /\ seen' = seen
  BY <1>1, ServingTypes, TakeRawTypes, TextAssumption DEF Text
<1>3. /\ k \in ShareObjs /\ Len(k.stack) \in Nat /\ k.stack # <<>> /\ h \in Nat
      /\ h + 1 \in 1..Len(k.stack) /\ m.edits[1] = e /\ m.version = k.sv
      /\ IsRequest(k, n) /\ Handled(k, n) = h + 1
  BY <1>2, RequestTail
<1>4. /\ x \in ViewObjs /\ x.shadow = e.to /\ x.scv = e.v /\ x.backup = e.to
      /\ x.ssv = k.sv /\ x.bsv = k.sv /\ x.stack = <<>> /\ x.ok
  BY <1>1, <1>3, RawViewType
<1>5. InOrder(k) /\ s \subseteq 1..k.ids /\ Stacked(view[c])
  BY <1>1, <1>2 DEF ClientInv, Sound
<1>6. j.view = x /\ x # NoView
  BY <1>4, ViewTypes
<1>. HIDE DEF n, x, j
<1>7. /\ client'[c] = k /\ view'[c] = view[c] /\ msg'[c] = n /\ job'[c] = j
      /\ phase'[c] = "serving" /\ seen'[c] = s /\ replaced'[c] = FALSE
      /\ \A d \in Clients \ {c} : Unmoved(d)
  BY <1>1, <1>2 DEF TypeOK, Unmoved
<1>8. \A i \in 1..h + 1 : k.stack[i].v <= e.v
  <2>. TAKE i \in 1..h + 1
  <2>1. /\ k.stack \in Seq(Edits) /\ i \in 1..Len(k.stack)
    BY <1>3, FieldTypes
  <2>2. k.stack[i].v \in Nat /\ After(k.stack[i]) \in Nat /\ e.v \in Nat
        /\ k.stack[i].v <= After(k.stack[i])
    BY <1>3, <2>1, EditsIn
  <2>3. i < h + 1 => After(k.stack[i]) <= e.v
    BY <1>3, <1>5, <2>1 DEF InOrder
  <2>4. i = h + 1 \/ i < h + 1
    BY <1>3
  <2>5. i = h + 1 => k.stack[i].v = e.v
    OBVIOUS
  <2>. HIDE DEF e, h, k
  <2>. QED
    BY <2>2, <2>3, <2>4, <2>5
<1>9. StartsRaw(k)
  <2>1. h + 1 = 1 \/ 1 < h + 1
    BY <1>3
  <2>2. 1 \in 1..Len(k.stack)
    BY <1>3
  <2>3. k.stack[1].kind = "r"
    BY <1>2, <1>3, <1>5, <2>1, <2>2 DEF InOrder
  <2>. QED
    BY <1>3, <2>3 DEF StartsRaw
<1>10. StandsAt(k, x, h + 1, s)
  <2>1. After(e) = e.v
    BY <1>2, <1>3 DEF After
  <2>2. h + 1 > 0
    BY <1>3
  <2>. QED
    BY <1>4, <1>9, <2>1, <2>2 DEF StandsAt, VersionAt, TextAt
<1>11. Stacked(x)
  BY <1>4, EmptySeq DEF Stacked
<1>. HIDE DEF h, e
<1>12. Sound(k, view[c], n, j, "serving", s)
  BY <1>3, <1>4, <1>5, <1>6, <1>8, <1>11 DEF Sound
<1>13. Served(k, n, x, s)
  <2>1. h + 1 # 0 /\ h + 1 \in (h + 1)..Len(k.stack)
    BY <1>3
  <2>. QED
    BY <1>3, <1>10, <2>1 DEF Served
<1>14. Known(k, view[c], n, j, "serving", s)
  BY <1>6, <1>13 DEF Known
<1>15. ClientInv(c)'
  BY <1>2, <1>7, <1>12, <1>14 DEF ClientInv
<1>. QED
  BY <1>2, <1>7, <1>15, OthersKeep DEF MobWriteInv

\* What all the steps that look at a delta need.
LEMMA DeltaServed ==
    ASSUME MobWriteInv, NEW c \in Clients, Serving(c, "d")
    PROVE  LET k == client[c]
               m == msg[c]
               n == [version |-> m.version, edits |-> Tail(m.edits)]
               h == Handled(k, m)
               e == k.stack[h + 1]
               w == job[c].view
               x == Acked(c) IN
           /\ TypeOK /\ ClientInv(c) /\ phase[c] = "serving" /\ text # NoText
           /\ k \in ShareObjs /\ Len(k.stack) \in Nat /\ k.stack # <<>> /\ h \in Nat
           /\ h + 1 \in 1..Len(k.stack) /\ m.edits[1] = e /\ Head(m.edits) = e
           /\ e.kind = "d" /\ e \in Edits /\ e.v \in Nat /\ e.id \in 1..k.ids
           /\ m.version = k.sv /\ n.version = k.sv
           /\ IsRequest(k, n) /\ Handled(k, n) = h + 1
           /\ msg' = [msg EXCEPT ![c] = n] /\ UNCHANGED <<client, view, phase>>
           /\ x \in ViewObjs /\ x # NoView /\ Stacked(x) /\ x.scv \in Nat
           /\ InOrder(k) /\ seen[c] \subseteq 1..k.ids /\ Stacked(view[c])
           /\ x.ok => \A i \in 1..h : k.stack[i].v \in Nat /\ k.stack[i].v <= x.scv
<1>. DEFINE k == client[c]
            m == msg[c]
            n == [version |-> m.version, edits |-> Tail(m.edits)]
            h == Handled(k, m)
            e == k.stack[h + 1]
            w == job[c].view
            x == Acked(c)
<1>1. /\ TypeOK /\ ClientInv(c) /\ phase[c] = "serving" /\ m.edits # <<>>
      /\ m.edits[1].kind = "d" /\ m.version \in Nat /\ w \in ViewObjs
      /\ m.edits[1] \in Edits /\ Head(m.edits) = m.edits[1]
      /\ msg' = [msg EXCEPT ![c] = n] /\ UNCHANGED <<client, view, phase>>
  BY ServingTypes, ServingViews, OwnTypes DEF MobWriteInv
<1>2. text # NoText
  BY <1>1, TextIsSet
<1>3. /\ k \in ShareObjs /\ Len(k.stack) \in Nat /\ k.stack # <<>> /\ h \in Nat
      /\ h + 1 \in 1..Len(k.stack) /\ m.edits[1] = e /\ m.version = k.sv
      /\ n.version = k.sv /\ IsRequest(k, n) /\ Handled(k, n) = h + 1
  BY <1>1, RequestTail
<1>4. /\ InOrder(k) /\ seen[c] \subseteq 1..k.ids /\ Stacked(view[c]) /\ Stacked(w)
      /\ w.ok => \A i \in 1..h : k.stack[i].v <= w.scv
  BY <1>1 DEF ClientInv, Sound
<1>5. /\ x \in ViewObjs /\ Stacked(x) /\ x.ok = w.ok /\ x.scv = w.scv
  <2>1. x = AckedView(w, m.version)
    BY AckedIsView
  <2>. HIDE DEF x, w, m
  <2>. QED
    BY <1>1, <1>4, <2>1, AckedKeeps
<1>6. x # NoView /\ x.scv \in Nat
  BY <1>5, ViewTypes
<1>7. k.stack \in Seq(Edits)
  BY <1>3, FieldTypes
<1>8. e.kind = "d" /\ e \in Edits /\ e.v \in Nat /\ e.id \in 1..k.ids
  <2>1. e.kind = "d" /\ e \in Edits
    BY <1>1, <1>3
  <2>2. e.id \in 1..k.ids
    BY <1>3, <1>4, <2>1 DEF InOrder
  <2>. QED
    BY <2>1, <2>2 DEF Edits
<1>9. \A i \in 1..h : k.stack[i].v \in Nat
  <2>. TAKE i \in 1..h
  <2>1. i \in 1..Len(k.stack)
    BY <1>3
  <2>. QED
    BY <1>7, <2>1, EditsIn
<1>. HIDE DEF k, m, n, h, e, w, x
<1>10. x.ok => \A i \in 1..h : k.stack[i].v \in Nat /\ k.stack[i].v <= x.scv
  BY <1>4, <1>5, <1>9
<1>. QED
  BY <1>1, <1>2, <1>3, <1>4, <1>5, <1>6, <1>8, <1>10 DEF k, m, n, h, e, w, x

LEMMA RefuseKeeps ==
    ASSUME MobWriteInv, NEW c \in Clients, RefuseDelta(c)
    PROVE  \A d \in Clients : ClientInv(d)'
<1>. DEFINE k == client[c]
            m == msg[c]
            n == [version |-> m.version, edits |-> Tail(m.edits)]
            h == Handled(k, m)
            e == k.stack[h + 1]
            x == Acked(c)
            y == [x EXCEPT !.ok = FALSE]
            j == [view |-> y, text |-> job[c].text]
            s == seen[c]
<1>1. Serving(c, "d") /\ Refused(x, Head(m.edits), m.version)
  BY DEF RefuseDelta
<1>2. /\ TypeOK /\ ClientInv(c) /\ phase[c] = "serving" /\ text # NoText
      /\ k \in ShareObjs /\ h \in Nat /\ h + 1 \in 1..Len(k.stack)
      /\ Head(m.edits) = e /\ e.kind = "d"
      /\ m.version = k.sv /\ IsRequest(k, n) /\ Handled(k, n) = h + 1
      /\ msg' = [msg EXCEPT ![c] = n] /\ UNCHANGED <<client, view, phase>>
      /\ x \in ViewObjs /\ x # NoView /\ Stacked(x)
      /\ InOrder(k) /\ s \subseteq 1..k.ids /\ Stacked(view[c])
  BY <1>1, DeltaServed
<1>3. job' = [job EXCEPT ![c] = j] /\ UNCHANGED <<text, seen, replaced>>
  BY <1>2, RefuseTypes
<1>4. /\ y \in ViewObjs /\ ~y.ok /\ y.stack = x.stack /\ y.ssv = x.ssv /\ y.bsv = x.bsv
  <2>. HIDE DEF x
  <2>. QED
    BY <1>2 DEF ViewObjs
<1>5. j.view = y /\ y # NoView
  BY <1>4, ViewTypes
<1>. HIDE DEF n, y, j
<1>6. /\ client'[c] = k /\ view'[c] = view[c] /\ msg'[c] = n /\ job'[c] = j
      /\ phase'[c] = "serving" /\ seen'[c] = s /\ replaced'[c] = replaced[c]
      /\ \A d \in Clients \ {c} : Unmoved(d)
  BY <1>2, <1>3 DEF TypeOK, Unmoved
<1>7. Stacked(y)
  BY <1>2, <1>4 DEF Stacked
<1>8. Sound(k, view[c], n, j, "serving", s)
  BY <1>2, <1>4, <1>5, <1>7 DEF Sound
<1>9. ASSUME ~replaced[c]
      PROVE  Known(k, view[c], n, j, "serving", s)
  <2>1. \/ Adrift(k, x)
        \/ \E p \in h..Len(k.stack) : StandsAt(k, x, p, s) /\ (StartsRaw(k) => p = h)
    <3>1. phase[c] = "serving" /\ m.edits # <<>> /\ m.edits[1].kind = "d"
      BY <1>1, <1>2, ServingTypes
    <3>. QED
      BY <1>9, <3>1, AckedStands
  <2>2. \A p \in h..Len(k.stack) : ~StandsAt(k, x, p, s)
    BY <1>1, <1>2, DeltaIs
  <2>. HIDE DEF k, x, h
  <2>3. Adrift(k, y)
    BY <1>4, <2>1, <2>2 DEF Adrift
  <2>4. Served(k, n, y, s)
    BY <1>2, <1>4, <2>3 DEF Served
  <2>. QED
    BY <1>5, <2>4 DEF Known
<1>10. ClientInv(c)'
  BY <1>2, <1>3, <1>6, <1>8, <1>9 DEF ClientInv
<1>. QED
  BY <1>3, <1>6, <1>10, OthersKeep DEF MobWriteInv

LEMMA SkipKeeps ==
    ASSUME MobWriteInv, NEW c \in Clients, SkipDelta(c)
    PROVE  \A d \in Clients : ClientInv(d)'
<1>. DEFINE k == client[c]
            m == msg[c]
            n == [version |-> m.version, edits |-> Tail(m.edits)]
            h == Handled(k, m)
            e == k.stack[h + 1]
            x == Acked(c)
            j == [view |-> x, text |-> job[c].text]
            s == seen[c]
<1>1. Serving(c, "d") /\ Repeated(x, Head(m.edits), m.version)
  BY DEF SkipDelta
<1>2. /\ TypeOK /\ ClientInv(c) /\ phase[c] = "serving" /\ text # NoText
      /\ k \in ShareObjs /\ h \in Nat /\ h + 1 \in 1..Len(k.stack) /\ Len(k.stack) \in Nat
      /\ Head(m.edits) = e /\ e.kind = "d" /\ e.v \in Nat
      /\ m.version = k.sv /\ IsRequest(k, n) /\ Handled(k, n) = h + 1
      /\ msg' = [msg EXCEPT ![c] = n] /\ UNCHANGED <<client, view, phase>>
      /\ x \in ViewObjs /\ x # NoView /\ Stacked(x) /\ x.scv \in Nat
      /\ InOrder(k) /\ s \subseteq 1..k.ids /\ Stacked(view[c])
      /\ x.ok => \A i \in 1..h : k.stack[i].v <= x.scv
  BY <1>1, DeltaServed
<1>3. job' = [job EXCEPT ![c] = j] /\ UNCHANGED <<text, seen, replaced>>
  BY <1>2, SkipTypes
<1>4. k.sv = x.ssv /\ e.v < x.scv
  BY <1>1, <1>2 DEF Repeated
<1>5. j.view = x
  OBVIOUS
<1>. HIDE DEF n, j
<1>6. /\ client'[c] = k /\ view'[c] = view[c] /\ msg'[c] = n /\ job'[c] = j
      /\ phase'[c] = "serving" /\ seen'[c] = s /\ replaced'[c] = replaced[c]
      /\ \A d \in Clients \ {c} : Unmoved(d)
  BY <1>2, <1>3 DEF TypeOK, Unmoved
<1>7. x.ok => \A i \in 1..h + 1 : k.stack[i].v <= x.scv
  <2>1. e.v <= x.scv /\ \A i \in 1..h + 1 : i = h + 1 \/ i \in 1..h
    BY <1>2, <1>4
  <2>. QED
    BY <1>2, <2>1
<1>8. Sound(k, view[c], n, j, "serving", s)
  BY <1>2, <1>5, <1>7 DEF Sound
<1>9. ASSUME ~replaced[c]
      PROVE  Known(k, view[c], n, j, "serving", s)
  <2>1. \/ Adrift(k, x)
        \/ \E p \in h..Len(k.stack) : StandsAt(k, x, p, s) /\ (StartsRaw(k) => p = h)
    <3>1. phase[c] = "serving" /\ m.edits # <<>> /\ m.edits[1].kind = "d"
      BY <1>1, <1>2, ServingTypes
    <3>. QED
      BY <1>9, <3>1, AckedStands
  <2>2. ~Adrift(k, x)
    BY <1>2, <1>4, FieldTypes DEF Adrift
  <2>3. PICK p \in h..Len(k.stack) : StandsAt(k, x, p, s) /\ (StartsRaw(k) => p = h)
    BY <2>1, <2>2
  <2>4. p # h /\ p >= h + 1
    BY <1>2, <1>4, <2>3, DeltaIs
  <2>. HIDE DEF k, x, h, e
  <2>5. h + 1 # 0 /\ p \in (h + 1)..Len(k.stack)
    BY <1>2, <2>4
  <2>6. Served(k, n, x, s)
    BY <1>2, <2>3, <2>4, <2>5 DEF Served
  <2>. QED
    BY <1>5, <2>6 DEF Known
<1>10. ClientInv(c)'
  BY <1>2, <1>3, <1>6, <1>8, <1>9 DEF ClientInv
<1>. QED
  BY <1>3, <1>6, <1>10, OthersKeep DEF MobWriteInv

LEMMA MergeKeeps ==
    ASSUME MobWriteInv, NEW c \in Clients, MergeDelta(c)
    PROVE  \A d \in Clients : ClientInv(d)'
<1>. DEFINE k == client[c]
            m == msg[c]
            n == [version |-> m.version, edits |-> Tail(m.edits)]
            h == Handled(k, m)
            e == k.stack[h + 1]
            x == Acked(c)
            y == IF Fits(x.shadow, e) THEN MergedView(c) ELSE Misfit(c)
            j == [view |-> y, text |-> job'[c].text]
            s == seen[c]
            u == s \cup {e.id}
<1>1. Serving(c, "d")
  BY DEF MergeDelta
<1>2. /\ TypeOK /\ ClientInv(c) /\ phase[c] = "serving"
      /\ k \in ShareObjs /\ h \in Nat /\ h + 1 \in 1..Len(k.stack) /\ Len(k.stack) \in Nat
      /\ m.edits[1] = e /\ e.kind = "d" /\ e.v \in Nat /\ e.id \in 1..k.ids /\ e \in Edits
      /\ m.version = k.sv /\ IsRequest(k, n) /\ Handled(k, n) = h + 1
      /\ msg' = [msg EXCEPT ![c] = n] /\ UNCHANGED <<client, view, phase>>
      /\ x \in ViewObjs /\ x # NoView /\ Stacked(x) /\ x.scv \in Nat
      /\ InOrder(k) /\ s \subseteq 1..k.ids /\ Stacked(view[c])
      /\ x.ok => \A i \in 1..h : k.stack[i].v \in Nat /\ k.stack[i].v <= x.scv
  BY <1>1, DeltaServed
<1>3. /\ x.ssv = k.sv /\ x.scv = e.v /\ x.shadow # NoText
      /\ job' = [job EXCEPT ![c] = j]
      /\ text' # NoText
      /\ seen' = [seen EXCEPT ![c] = u] /\ replaced' = replaced
  BY <1>2, MergeTypes, TextAssumption DEF Text
<1>4. Fits(x.shadow, e)
        => /\ y.shadow = Patch(x.shadow, e) /\ y.backup = y.shadow
           /\ y.scv = x.scv + 1 /\ y.ssv = x.ssv /\ y.bsv = x.ssv
           /\ y.stack = x.stack /\ y.ok = x.ok /\ y \in ViewObjs
  BY <1>1, <1>2, <1>3, MergedViewType
<1>5. ~Fits(x.shadow, e)
        => ~y.ok /\ y.stack = x.stack /\ y.ssv = x.ssv /\ y \in ViewObjs
  <2>. DEFINE scv == x.scv + 1
  <2>1. Misfit(c) = [x EXCEPT !.scv = scv, !.ok = FALSE] /\ scv \in Nat
    BY <1>2 DEF Misfit
  <2>. HIDE DEF scv, x
  <2>. QED
    BY <1>2, <2>1 DEF ViewObjs
<1>6. j.view = y /\ y # NoView
  BY <1>4, <1>5, ViewTypes
<1>. HIDE DEF n, y, j, u
<1>7. /\ client'[c] = k /\ view'[c] = view[c] /\ msg'[c] = n /\ job'[c] = j
      /\ phase'[c] = "serving" /\ seen'[c] = u /\ replaced'[c] = replaced[c]
      /\ \A d \in Clients \ {c} : Unmoved(d)
  BY <1>2, <1>3 DEF TypeOK, Unmoved
<1>8. Stacked(y)
  BY <1>2, <1>4, <1>5 DEF Stacked
<1>9. u \subseteq 1..k.ids
  BY <1>2 DEF u
<1>10. y.ok => \A i \in 1..h + 1 : k.stack[i].v <= y.scv
  <2>1. ASSUME y.ok, NEW i \in 1..h + 1
        PROVE  k.stack[i].v <= y.scv
    <3>1. y.scv = x.scv + 1 /\ x.ok
      BY <1>4, <1>5, <2>1
    <3>2. CASE i = h + 1
      <4>1. k.stack[i].v = e.v
        BY <3>2
      <4>. HIDE DEF e
      <4>. QED
        BY <1>2, <1>3, <3>1, <4>1
    <3>3. CASE i # h + 1
      <4>1. i \in 1..h
        BY <1>2, <3>3
      <4>2. k.stack[i].v \in Nat /\ k.stack[i].v <= x.scv
        BY <1>2, <3>1, <4>1
      <4>. QED
        BY <1>2, <3>1, <4>2
    <3>. QED
      BY <3>2, <3>3
  <2>. QED
    BY <2>1
<1>11. Sound(k, view[c], n, j, "serving", u)
  BY <1>2, <1>6, <1>8, <1>9, <1>10 DEF Sound
<1>12. ASSUME ~replaced[c]
       PROVE  Known(k, view[c], n, j, "serving", u)
  <2>1. \/ Adrift(k, x)
        \/ \E p \in h..Len(k.stack) : StandsAt(k, x, p, s) /\ (StartsRaw(k) => p = h)
    <3>1. phase[c] = "serving" /\ m.edits # <<>> /\ m.edits[1].kind = "d"
      BY <1>1, <1>2, ServingTypes
    <3>. QED
      BY <1>12, <3>1, AckedStands
  <2>2. ~Adrift(k, x)
    BY <1>2, <1>3, FieldTypes DEF Adrift
  <2>3. PICK p \in h..Len(k.stack) : StandsAt(k, x, p, s) /\ (StartsRaw(k) => p = h)
    BY <2>1, <2>2
  <2>4. p = h /\ x.shadow = e.from
    <3>1. /\ p = h => x.shadow = k.stack[h + 1].from
          /\ p # h => k.stack[h + 1].v < x.scv
      BY <1>2, <2>3, DeltaIs
    <3>2. x.scv = k.stack[h + 1].v /\ k.stack[h + 1].v \in Nat
      BY <1>2, <1>3
    <3>. QED
      BY <3>1, <3>2
  <2>5. Fits(x.shadow, e) /\ Patch(x.shadow, e) = e.to
    BY <1>2, <2>4, PatchIs
  <2>6. After(e) = e.v + 1
    BY <1>2 DEF After
  <2>7. ~StartsRaw(k) => Merged(k, h + 1, u)
    <3>1. SUFFICES ASSUME ~StartsRaw(k), NEW i \in 1..Len(k.stack)
                   PROVE  k.stack[i].id \in u <=> i <= h + 1
      BY DEF Merged
    <3>2. k.stack[i].id \in s <=> i <= h
      BY <2>3, <2>4, <3>1 DEF StandsAt, Merged
    <3>3. h + 1 < i => k.stack[i].id # e.id
      <4>1. h + 1 < i => e.id < k.stack[i].id
        BY <1>2 DEF InOrder
      <4>2. e.id \in Nat
        BY <1>2 DEF Edits
      <4>. QED
        BY <4>1, <4>2
    <3>4. i = h + 1 => k.stack[i].id = e.id
      OBVIOUS
    <3>5. k.stack[i].id \in u <=> k.stack[i].id \in s \/ k.stack[i].id = e.id
      BY DEF u
    <3>. HIDE DEF e, h, k, s
    <3>. QED
      BY <1>2, <3>2, <3>3, <3>4, <3>5
  <2>8. /\ y.ssv = k.sv /\ y.stack = <<>> /\ y.ok
        /\ y.scv = After(e) /\ y.shadow = e.to /\ y.backup = y.shadow /\ y.bsv = k.sv
        /\ ~StartsRaw(k) => k.sv > 0
    BY <1>3, <1>4, <2>3, <2>5, <2>6 DEF StandsAt
  <2>9. h + 1 > 0 /\ h + 1 # 0 /\ h + 1 \in (h + 1)..Len(k.stack)
    BY <1>2
  <2>10. StandsAt(k, y, h + 1, u)
    BY <2>7, <2>8, <2>9 DEF StandsAt, VersionAt, TextAt
  <2>. HIDE DEF k, h, e
  <2>11. Served(k, n, y, u)
    BY <1>2, <2>9, <2>10 DEF Served
  <2>. QED
    BY <1>6, <2>11 DEF Known
<1>13. ClientInv(c)'
  BY <1>2, <1>3, <1>7, <1>11, <1>12 DEF ClientInv
<1>. QED
  BY <1>3, <1>7, <1>13, OthersKeep DEF MobWriteInv

\* At the end of a request every edit has been handled.
LEMMA AllHandled ==
    ASSUME MobWriteInv, NEW c \in Clients, phase[c] = "serving", msg[c].edits = <<>>
    PROVE  LET k == client[c]
               n == Len(k.stack) IN
           /\ k \in ShareObjs /\ n \in Nat \ {0} /\ k.stack # <<>>
           /\ Handled(k, msg[c]) = n /\ InOrder(k)
           /\ After(k.stack[n]) = k.cv /\ k.stack[n].to = k.shadow /\ k.shadow \in Text
           /\ ~replaced[c] => \/ Adrift(k, job[c].view) /\ ~job[c].view.ok
                              \/ StandsAt(k, job[c].view, n, seen[c])
<1>. DEFINE k == client[c]
            n == Len(k.stack)
            w == job[c].view
<1>1. /\ ClientInv(c) /\ k \in ShareObjs /\ k.stack \in Seq(Edits) /\ k.shadow \in Text
  BY OwnTypes, FieldTypes DEF MobWriteInv
<1>2. IsRequest(k, msg[c]) /\ InOrder(k)
  BY <1>1 DEF ClientInv, Sound
<1>3. k.stack # <<>> /\ n \in Nat \ {0}
  BY <1>1, <1>2, EmptySeq DEF IsRequest
<1>4. Handled(k, msg[c]) = n
  <2>1. Len(msg[c].edits) = 0
    BY EmptySeq
  <2>. QED
    BY <1>3, <2>1 DEF Handled
<1>5. After(k.stack[n]) = k.cv /\ k.stack[n].to = k.shadow
  BY <1>2, <1>3 DEF InOrder
<1>6. ASSUME ~replaced[c]
      PROVE  \/ Adrift(k, w) /\ ~w.ok
             \/ StandsAt(k, w, n, seen[c])
  <2>1. Served(k, msg[c], w, seen[c])
    BY <1>1, <1>6 DEF ClientInv, Known
  <2>. HIDE DEF k, n, w
  <2>2. \/ Adrift(k, w) /\ ~w.ok
        \/ \E p \in n..n : StandsAt(k, w, p, seen[c])
    BY <1>3, <1>4, <2>1 DEF Served, n
  <2>3. \A p \in n..n : p = n
    BY <1>3
  <2>. QED
    BY <2>2, <2>3
<1>. QED
  BY <1>1, <1>2, <1>3, <1>4, <1>5, <1>6

LEMMA AnswerKeeps ==
    ASSUME MobWriteInv, NEW c \in Clients, Answer(c)
    PROVE  \A d \in Clients : ClientInv(d)'
<1>. DEFINE k == client[c]
            n == Len(k.stack)
            w == job[c].view
            e == LastEdit(c)
            x == SavedView(c)
            stack == Append(w.stack, e)
            m == [version |-> w.scv, edits |-> stack]
            s == seen[c]
<1>1. /\ TypeOK /\ ClientInv(c)
  BY DEF MobWriteInv
<1>2. /\ phase[c] = "serving" /\ msg[c].edits = <<>> /\ text # NoText
      /\ w \in ViewObjs /\ e \in Edits
      /\ view' = [view EXCEPT ![c] = x] /\ x \in ViewObjs
      /\ msg' = [msg EXCEPT ![c] = m]
      /\ phase' = [phase EXCEPT ![c] = "answered"]
      /\ job' = [job EXCEPT ![c] = NoJob]
      /\ x.ssv = (IF w.ok THEN w.ssv + 1 ELSE w.ssv)
      /\ x.scv = (IF w.ok THEN w.scv ELSE w.scv + 1)
      /\ x.bsv = w.bsv /\ x.backup = w.backup /\ x.shadow = Loaded(c) /\ x.stack = stack
  BY <1>1, AnswerTypes
<1>3. UNCHANGED <<text, client, seen, replaced>>
  BY DEF Answer
<1>4. /\ k \in ShareObjs /\ n \in Nat \ {0} /\ k.stack # <<>>
      /\ Handled(k, msg[c]) = n /\ InOrder(k)
      /\ After(k.stack[n]) = k.cv /\ k.stack[n].to = k.shadow
      /\ ~replaced[c] => (Adrift(k, w) /\ ~w.ok) \/ StandsAt(k, w, n, s)
  BY <1>2, AllHandled
<1>5. /\ w.ok => e.kind = "d" /\ e.v = w.ssv /\ e.from = w.shadow /\ e.to = Loaded(c)
      /\ ~w.ok => e.kind = "R" /\ e.v = w.ssv
  BY DEF LastEdit, Delta, Raw
<1>6. /\ w.ssv \in Nat /\ w.stack \in Seq(Edits) /\ Len(w.stack) \in Nat
      /\ w # NoView /\ x # NoView
  BY <1>2, ViewTypes, LenProperties
<1>7. /\ stack \in Seq(Edits) /\ Len(stack) = Len(w.stack) + 1 /\ stack # <<>>
      /\ stack[Len(w.stack) + 1] = e
      /\ \A i \in 1..Len(w.stack) : stack[i] = w.stack[i]
  BY <1>2, <1>6, AppendIs
<1>8. m.version = w.scv /\ m.edits = stack /\ NoJob.view = NoView
  BY DEF NoJob
<1>. HIDE DEF e, x, stack, m
<1>9. /\ client'[c] = k /\ view'[c] = x /\ msg'[c] = m /\ job'[c] = NoJob
      /\ phase'[c] = "answered" /\ seen'[c] = s /\ replaced'[c] = replaced[c]
      /\ \A d \in Clients \ {c} : Unmoved(d)
  BY <1>1, <1>2, <1>3 DEF TypeOK, Unmoved
<1>10. /\ Stacked(w) /\ s \subseteq 1..k.ids
       /\ w.ok => \A i \in 1..n : k.stack[i].v <= w.scv
  BY <1>1, <1>2, <1>4 DEF ClientInv, Sound
<1>11. Stacked(x)
  <2>1. SUFFICES ASSUME NEW i \in 1..Len(stack)
                 PROVE  stack[i].v <= x.ssv
    BY <1>2 DEF Stacked
  <2>2. w.ssv <= x.ssv /\ x.ssv \in Nat
    BY <1>2, <1>6
  <2>3. CASE i = Len(w.stack) + 1
    BY <1>5, <1>6, <1>7, <2>2, <2>3
  <2>4. CASE i # Len(w.stack) + 1
    <3>1. i \in 1..Len(w.stack)
      BY <1>6, <1>7, <2>4
    <3>2. stack[i] = w.stack[i] /\ w.stack[i].v <= w.ssv
      BY <1>6, <1>7, <1>10, <3>1 DEF Stacked
    <3>3. w.stack[i].v \in Nat
      BY <1>6, <3>1, EditsIn
    <3>. QED
      BY <1>6, <2>2, <3>2, <3>3
  <2>. QED
    BY <2>3, <2>4
<1>12. ~w.ok => EndsRaw(m)
  BY <1>5, <1>7, <1>8 DEF EndsRaw
<1>13. Sound(k, x, m, NoJob, "answered", s)
  <2>1. EndsRaw(m) \/ \A i \in 1..Len(k.stack) : k.stack[i].v <= m.version
    BY <1>8, <1>10, <1>12
  <2>2. Stacked(NoJob.view)
    BY <1>8 DEF Stacked
  <2>. QED
    BY <1>4, <1>10, <1>11, <2>1, <2>2 DEF Sound
<1>14. ASSUME ~replaced[c]
       PROVE  Known(k, x, m, NoJob, "answered", s)
  <2>1. CASE Adrift(k, w) /\ ~w.ok
    <3>1. Len(m.edits) = 1 /\ m.edits[1].kind = "R"
      <4>1. w.stack = <<>>
        BY <2>1 DEF Adrift
      <4>2. Len(w.stack) = 0
        BY <4>1, EmptySeq
      <4>. QED
        BY <1>5, <1>7, <1>8, <2>1, <4>2
    <3>2. IsReply(k, x, m)
      BY <3>1 DEF IsReply
    <3>3. ~StartsRaw(k) /\ k.sv > 0 /\ Forgotten(x)
      BY <1>2, <2>1 DEF Adrift, Forgotten
    <3>4. Related(k, x, s)
      BY <3>3 DEF Related
    <3>. QED
      BY <3>2, <3>4 DEF Known
  <2>2. CASE StandsAt(k, w, n, s)
    <3>1. n > 0
      BY <1>4
    <3>2. /\ w.ssv = k.sv /\ w.stack = <<>> /\ w.ok
          /\ w.scv = k.cv /\ w.shadow = k.shadow
          /\ w.scv = VersionAt(k, n) /\ w.backup = TextAt(k, n) /\ w.bsv = k.sv
          /\ ~StartsRaw(k) => k.sv > 0 /\ Merged(k, n, s)
      BY <1>4, <2>2, <3>1 DEF StandsAt, VersionAt, TextAt
    <3>3. Len(m.edits) = 1 /\ m.edits[1] = e
      <4>1. Len(w.stack) = 0
        BY <3>2, EmptySeq
      <4>. QED
        BY <1>7, <1>8, <4>1
    <3>4. x.ssv = k.sv + 1 /\ x.scv = k.cv
      BY <1>2, <3>2
    <3>5. IsReply(k, x, m)
      BY <1>2, <1>5, <1>8, <3>2, <3>3, <3>4 DEF IsReply
    <3>6. Ahead(k, x, n)
      BY <1>2, <3>2, <3>4 DEF Ahead
    <3>7. n \in 1..Len(k.stack)
      BY <1>4
    <3>. HIDE DEF n
    <3>8. Related(k, x, s)
      BY <1>6, <3>2, <3>6, <3>7 DEF Related
    <3>. QED
      BY <3>5, <3>8 DEF Known
  <2>. QED
    BY <1>4, <1>14, <2>1, <2>2
<1>15. ClientInv(c)'
  BY <1>2, <1>3, <1>9, <1>13, <1>14 DEF ClientInv
<1>. QED
  BY <1>3, <1>9, <1>15, OthersKeep DEF MobWriteInv

\* diff_main() does not get to see a shadow that is None, as long as the client
\* has not had its text replaced.
LEMMA ErrorReplaced ==
    ASSUME MobWriteInv, NEW c \in Clients, ServerError(c)
    PROVE  replaced[c]
<1>. DEFINE k == client[c]
            w == job[c].view
<1>1. SUFFICES ASSUME ~replaced[c] PROVE FALSE
  BY OwnTypes DEF MobWriteInv
<1>2. phase[c] = "serving" /\ msg[c].edits = <<>> /\ w.ok /\ w.shadow = NoText
  BY DEF ServerError
<1>3. /\ Len(k.stack) \in Nat \ {0} /\ k.stack[Len(k.stack)].to \in Text
      /\ StandsAt(k, w, Len(k.stack), seen[c])
  BY <1>1, <1>2, AllHandled
<1>4. w.shadow \in Text
  BY <1>3 DEF StandsAt, TextAt
<1>. QED
  BY <1>2, <1>4, TextAssumption DEF Text

LEMMA ErrorKeeps ==
    ASSUME MobWriteInv, NEW c \in Clients, ServerError(c)
    PROVE  \A d \in Clients : ClientInv(d)'
<1>. DEFINE k == client[c]
            w == job[c].view
<1>1. TypeOK /\ ClientInv(c)
  BY DEF MobWriteInv
<1>2. /\ phase[c] = "serving" /\ msg[c].edits = <<>>
      /\ w.ok /\ w.shadow = NoText
      /\ phase' = [phase EXCEPT ![c] = "idle"]
      /\ msg' = [msg EXCEPT ![c] = NoMessage]
      /\ job' = [job EXCEPT ![c] = NoJob]
      /\ UNCHANGED <<text, client, view, seen, replaced>>
  BY DEF ServerError
<1>3. text # NoText
  BY <1>1, <1>2, TextIsSet
<1>4. replaced[c]
  BY ErrorReplaced
<1>5. /\ phase'[c] = "idle" /\ msg'[c] = NoMessage /\ job'[c] = NoJob
      /\ \A d \in Clients \ {c} : Unmoved(d)
  BY <1>1, <1>2 DEF TypeOK, Unmoved
<1>6. Stacked(NoJob.view)
  BY DEF NoJob, Stacked
<1>7. Sound(k, view[c], NoMessage, NoJob, "idle", seen[c])
  BY <1>1, <1>2, <1>6 DEF ClientInv, Sound
<1>8. ClientInv(c)'
  BY <1>2, <1>3, <1>4, <1>5, <1>7 DEF ClientInv
<1>. QED
  BY <1>2, <1>5, <1>8, OthersKeep DEF MobWriteInv

------------------------------------------------------------------------------
(***************************************************************************)
(* The invariant.                                                          *)
(***************************************************************************)
LEMMA MobWriteInitial == Init => MobWriteInv
<1> SUFFICES ASSUME Init PROVE MobWriteInv
  OBVIOUS
<1>. DEFINE K(c) == [text |-> IF c = Owner THEN Opening ELSE {}, shadow |-> {},
                     cv |-> 0, sv |-> 0, ok |-> FALSE, stack |-> <<>>, ids |-> 0]
<1>1. {} \in Text /\ Opening \in Text
  BY TextAssumption DEF Text
<1>2. ASSUME NEW c \in Clients PROVE K(c) \in ShareObjs
  BY <1>1, EmptySeq DEF ShareObjs
<1>3. client \in [Clients -> ShareObjs]
  BY <1>2 DEF Init
<1>4. NoJob \in [view : {NoView} \cup ViewObjs, text : {Unread} \cup Text]
  BY DEF NoJob
<1>5. /\ msg \in [Clients -> [version : Nat, edits : Seq(Edits)]]
      /\ job \in [Clients -> [view : {NoView} \cup ViewObjs, text : {Unread} \cup Text]]
      /\ view \in [Clients -> {NoView} \cup ViewObjs]
      /\ phase \in [Clients -> {"idle", "sent", "serving", "answered", "reading"}]
      /\ seen \in [Clients -> SUBSET Nat] /\ replaced \in [Clients -> BOOLEAN]
  BY <1>4, NoMessageType DEF Init
<1>6. TypeOK
  <2>1. used \subseteq Tokens /\ misread \in BOOLEAN /\ text \in {NoText} \cup Text
    BY TextAssumption DEF Init
  <2>2. \A n \in {edits, losses, cleanups, polls} : n \in Nat
    BY DEF Init
  <2>. QED
    BY <1>3, <1>5, <2>1, <2>2 DEF TypeOK
<1>7. ASSUME NEW c \in Clients PROVE ClientInv(c)
  <2>. DEFINE k == client[c]
  <2>1. k.ok = FALSE /\ k.stack = <<>>
    <3>1. k = K(c)
      BY DEF Init
    <3>. QED
      BY <3>1
  <2>2. /\ view[c] = NoView /\ phase[c] = "idle" /\ job[c] = NoJob
        /\ seen[c] = {}
    BY DEF Init
  <2>3. NoJob.view = NoView /\ NoJob.text = Unread
    BY DEF NoJob
  <2>. HIDE DEF k
  <2>4. InOrder(k)
    BY <2>1, EmptySeq DEF InOrder
  <2>5. Sound(k, view[c], msg[c], job[c], phase[c], seen[c])
    BY <2>2, <2>3, <2>4 DEF Sound, Stacked
  <2>6. Untold(k, msg[c], job[c], phase[c])
    BY <2>1, <2>2, <2>3 DEF Untold
  <2>7. Known(k, view[c], msg[c], job[c], phase[c], seen[c])
    BY <2>1, <2>2 DEF Known, Related
  <2>. QED
    BY <2>5, <2>6, <2>7 DEF ClientInv, k
<1>. QED
  BY <1>6, <1>7 DEF MobWriteInv

LEMMA MobWriteStep == MobWriteInv /\ [Next]_vars => MobWriteInv'
<1> SUFFICES ASSUME MobWriteInv, [Next]_vars PROVE MobWriteInv'
  OBVIOUS
<1>. USE DEF MobWriteInv
<1>1. ASSUME NEW c \in Clients, NEW piece \in Tokens, Insert(c, piece) PROVE MobWriteInv'
  <2>1. /\ Typing(c, client[c].text \cup {piece})
        /\ client[c].text \cup {piece} \in Text /\ used' \subseteq Tokens
    BY <1>1, OwnTypes, FieldTypes DEF Insert, Text, TypeOK
  <2>. QED
    BY <2>1, TypingTypes, TypingKeeps
<1>2. ASSUME NEW c \in Clients, NEW piece \in Tokens, Delete(c, piece) PROVE MobWriteInv'
  <2>1. /\ Typing(c, client[c].text \ {piece})
        /\ client[c].text \ {piece} \in Text /\ used' \subseteq Tokens
    BY <1>2, OwnTypes, FieldTypes DEF Delete, Text, TypeOK
  <2>. QED
    BY <2>1, TypingTypes, TypingKeeps
<1>3. ASSUME NEW c \in Clients, Sync(c) PROVE MobWriteInv'
  BY <1>3, SyncTypes, SyncKeeps
<1>4. ASSUME NEW c \in Clients, ReadFile(c) PROVE MobWriteInv'
  BY <1>4, ReadFileTypes, ReadFileKeeps
<1>5. ASSUME NEW c \in Clients, ReadEdit(c) PROVE MobWriteInv'
  BY <1>5, ReadEditTypes, ReadEditKeeps
<1>6. ASSUME NEW c \in Clients, ReadEnd(c) PROVE MobWriteInv'
  BY <1>6, ReadEndTypes, ReadEndKeeps
<1>7. ASSUME NEW c \in Clients, Fetch(c) PROVE MobWriteInv'
  BY <1>7, FetchTypes, FetchKeeps
<1>8. ASSUME NEW c \in Clients, TakeRaw(c) PROVE MobWriteInv'
  BY <1>8, TakeRawTypes, TakeRawKeeps
<1>9. ASSUME NEW c \in Clients, RefuseDelta(c) PROVE MobWriteInv'
  BY <1>9, RefuseTypes, RefuseKeeps
<1>10. ASSUME NEW c \in Clients, SkipDelta(c) PROVE MobWriteInv'
  BY <1>10, SkipTypes, SkipKeeps
<1>11. ASSUME NEW c \in Clients, MergeDelta(c) PROVE MobWriteInv'
  BY <1>11, MergeTypes, MergeKeeps
<1>12. ASSUME NEW c \in Clients, Answer(c) PROVE MobWriteInv'
  BY <1>12, AnswerTypes, AnswerKeeps
<1>13. ASSUME NEW c \in Clients, ServerError(c) PROVE MobWriteInv'
  BY <1>13, ErrorTypes, ErrorKeeps
<1>14. ASSUME NEW c \in Clients, Lose(c) PROVE MobWriteInv'
  BY <1>14, LoseTypes, LoseKeeps
<1>15. ASSUME NEW c \in Clients, Cleanup(c) PROVE MobWriteInv'
  BY <1>15, CleanupTypes, CleanupKeeps
<1>16. CASE UNCHANGED vars
  <2>1. TypeOK'
    BY <1>16 DEF vars, TypeOK
  <2>2. \A d \in Clients : Unmoved(d) /\ text' = text
    BY <1>16 DEF vars, Unmoved
  <2>. QED
    BY <2>1, <2>2, OthersKeep
<1>. QED
  BY <1>1, <1>2, <1>3, <1>4, <1>5, <1>6, <1>7, <1>8, <1>9, <1>10, <1>11, <1>12,
     <1>13, <1>14, <1>15, <1>16 DEF Next, ClientStep, ServerStep

(***************************************************************************)
(* How the client, its view on the server, and what is between them stand  *)
(* to each other, whatever is lost and whenever a view is deleted.         *)
(***************************************************************************)
THEOREM MobWriteInvariant == Spec => []MobWriteInv
  BY MobWriteInitial, MobWriteStep, PTL DEF Spec

(***************************************************************************)
(* Texts, shareObjs, views, messages and jobs keep their types.            *)
(***************************************************************************)
THEOREM MobWriteTypeCorrect == Spec => []TypeOK
<1>1. MobWriteInv => TypeOK
  BY DEF MobWriteInv
<1>. QED
  BY <1>1, MobWriteInvariant, PTL

(***************************************************************************)
(* A delta that the server merges was computed from the server's shadow,   *)
(* and one that the client merges from the client's.                       *)
(***************************************************************************)
LEMMA ServedDeltaFits ==
    ASSUME MobWriteInv, NEW c \in Clients, phase[c] = "serving", msg[c].edits # <<>>,
           Head(msg[c].edits).kind = "d", ~replaced[c],
           ~Refused(Acked(c), Head(msg[c].edits), msg[c].version)
    PROVE  LET k == client[c]
               h == Handled(k, msg[c])
               e == Head(msg[c].edits)
               x == Acked(c) IN
           /\ e = k.stack[h + 1] /\ h \in Nat /\ h + 1 \in 1..Len(k.stack)
           /\ Repeated(x, e, msg[c].version)
                => ~StartsRaw(k) /\ \E p \in h + 1..Len(k.stack) : Merged(k, p, seen[c])
           /\ ~Repeated(x, e, msg[c].version)
                => /\ x.shadow = e.from
                   /\ ~StartsRaw(k) => Merged(k, h, seen[c])
<1>. DEFINE k == client[c]
            m == msg[c]
            h == Handled(k, m)
            e == k.stack[h + 1]
            x == Acked(c)
            s == seen[c]
<1>1. /\ TypeOK /\ ClientInv(c) /\ m.edits \in Seq(Edits) /\ m.edits[1] = Head(m.edits)
  <2>1. TypeOK /\ ClientInv(c) /\ m.edits \in Seq(Edits)
    BY OwnTypes DEF MobWriteInv
  <2>. QED
    BY <2>1, TailIs
<1>2. /\ k \in ShareObjs /\ Len(k.stack) \in Nat /\ h \in Nat /\ h + 1 \in 1..Len(k.stack)
      /\ Head(m.edits) = e /\ m.version = k.sv /\ e.kind = "d"
  BY <1>1, RequestTail
<1>3. x \in ViewObjs
  BY <1>1, ServingViews
<1>4. \/ Adrift(k, x)
      \/ \E p \in h..Len(k.stack) : StandsAt(k, x, p, s) /\ (StartsRaw(k) => p = h)
  BY <1>1, AckedStands
<1>5. ~Adrift(k, x)
  <2>1. ASSUME Adrift(k, x) PROVE Refused(x, Head(m.edits), m.version)
    BY <1>2, <2>1, FieldTypes DEF Adrift, Refused
  <2>. QED
    BY <2>1
<1>6. PICK p \in h..Len(k.stack) : StandsAt(k, x, p, s) /\ (StartsRaw(k) => p = h)
  BY <1>4, <1>5
<1>7. /\ p = h => e.v = x.scv /\ x.shadow = e.from
      /\ p # h => p >= h + 1 /\ e.v < x.scv
  BY <1>1, <1>2, <1>3, <1>6, DeltaIs DEF ClientInv, Sound
<1>8. x.ssv = k.sv /\ (~StartsRaw(k) => Merged(k, p, s))
  BY <1>6 DEF StandsAt
<1>9. e.v \in Nat /\ x.scv \in Nat
  BY <1>2, <1>3, FieldTypes, ViewTypes, EditsIn
<1>. HIDE DEF k, m, h, e, x, s
<1>10. CASE p = h
  <2>1. ~Repeated(x, Head(m.edits), m.version)
    BY <1>2, <1>7, <1>9, <1>10 DEF Repeated
  <2>. QED
    BY <1>2, <1>7, <1>8, <1>10, <2>1 DEF k, m, h, e, x, s
<1>11. CASE p # h
  <2>1. Repeated(x, Head(m.edits), m.version)
    BY <1>2, <1>7, <1>8, <1>11 DEF Repeated
  <2>2. ~StartsRaw(k) /\ p \in h + 1..Len(k.stack)
    BY <1>2, <1>6, <1>7, <1>11
  <2>. QED
    BY <1>2, <1>8, <2>1, <2>2 DEF k, m, h, e, x, s
<1>. QED
  BY <1>10, <1>11

LEMMA InvFits == MobWriteInv => DeltasFit
<1> SUFFICES ASSUME MobWriteInv, NEW c \in Clients, msg[c].edits # <<>>,
                    Head(msg[c].edits).kind = "d", ~replaced[c]
             PROVE  LET e == Head(msg[c].edits)
                        v == msg[c].version IN
                    /\ phase[c] = "serving" /\ ~Refused(Acked(c), e, v)
                       /\ ~Repeated(Acked(c), e, v) => Acked(c).shadow = e.from
                    /\ phase[c] = "reading" /\ v = client[c].cv /\ e.v = client[c].sv
                         => client[c].shadow = e.from
  BY DEF DeltasFit
<1>1. ASSUME phase[c] = "serving", ~Refused(Acked(c), Head(msg[c].edits), msg[c].version),
             ~Repeated(Acked(c), Head(msg[c].edits), msg[c].version)
      PROVE  Acked(c).shadow = Head(msg[c].edits).from
  BY <1>1, ServedDeltaFits
<1>2. ASSUME phase[c] = "reading"
      PROVE  client[c].shadow = Head(msg[c].edits).from
  <2>1. IsReply(client[c], view[c], msg[c])
    BY <1>2 DEF MobWriteInv, ClientInv, Known
  <2>2. msg[c].edits[1] = Head(msg[c].edits)
    BY OwnTypes, TailIs DEF MobWriteInv
  <2>. QED
    BY <2>1, <2>2 DEF IsReply
<1>. QED
  BY <1>1, <1>2

(***************************************************************************)
(* Deltas are only applied to the texts they were computed from.           *)
(***************************************************************************)
THEOREM DeltasAlwaysFit == Spec => []DeltasFit
  BY InvFits, MobWriteInvariant, PTL

(***************************************************************************)
(* Client and server agree on what their version numbers stand for.        *)
(***************************************************************************)
THEOREM ShadowsAlwaysAgree == Spec => []ShadowsAgree
<1>1. MobWriteInv => ShadowsAgree
  <2>1. SUFFICES ASSUME MobWriteInv, NEW c \in Clients, phase[c] = "idle",
                        view[c] # NoView, ~replaced[c], client[c].ok,
                        client[c].stack = <<>>, client[c].cv = view[c].scv,
                        client[c].sv = view[c].ssv
                 PROVE  client[c].shadow = view[c].shadow
    BY DEF ShadowsAgree
  <2>. DEFINE k == client[c]
              w == view[c]
  <2>2. Related(k, w, seen[c])
    BY <2>1 DEF MobWriteInv, ClientInv, Known
  <2>3. ~StartsRaw(k) /\ Len(k.stack) = 0
    BY <2>1, EmptySeq DEF StartsRaw
  <2>4. /\ k.sv > 0
        /\ \/ w.ssv = 0
           \/ InStep(k, w)
    BY <2>1, <2>2, <2>3 DEF Related, Forgotten
  <2>5. InStep(k, w)
    BY <2>1, <2>4
  <2>. QED
    BY <2>1, <2>5 DEF InStep, TextAt
<1>. QED
  BY <1>1, MobWriteInvariant, PTL

(***************************************************************************)
(* However often a delta is sent, the server merges it once, and what it   *)
(* skips it has merged.                                                    *)
(***************************************************************************)
THEOREM DeltasMergedOnce == Spec => MergedOnce
<1>1. ASSUME MobWriteInv, NEW c \in Clients, ~replaced[c], MergeDelta(c)
      PROVE  Head(msg[c].edits).id \notin seen[c] \/ BehindRaw(c)
  <2>. DEFINE k == client[c]
              h == Handled(k, msg[c])
              e == Head(msg[c].edits)
  <2>1. /\ phase[c] = "serving" /\ msg[c].edits # <<>> /\ e.kind = "d"
        /\ ~Refused(Acked(c), e, msg[c].version) /\ ~Repeated(Acked(c), e, msg[c].version)
    BY <1>1 DEF MergeDelta, Serving
  <2>2. /\ e = k.stack[h + 1] /\ h \in Nat /\ h + 1 \in 1..Len(k.stack)
        /\ ~StartsRaw(k) => Merged(k, h, seen[c])
    BY <1>1, <2>1, ServedDeltaFits
  <2>3. CASE StartsRaw(k)
    <3>1. k.stack # <<>> /\ k.stack \in Seq(Edits)
      BY <1>1, <2>3, OwnTypes, FieldTypes DEF StartsRaw, MobWriteInv
    <3>2. Head(k.stack) = k.stack[1]
      BY <3>1, TailIs
    <3>. QED
      BY <2>3, <3>2 DEF StartsRaw, BehindRaw
  <2>4. CASE ~StartsRaw(k)
    <3>. HIDE DEF k, h, e
    <3>1. ~(h + 1 <= h)
      BY <2>2
    <3>2. e.id \notin seen[c]
      BY <2>2, <2>4, <3>1 DEF Merged
    <3>. QED
      BY <3>2 DEF e
  <2>. QED
    BY <2>3, <2>4
<1>2. ASSUME MobWriteInv, NEW c \in Clients, ~replaced[c], SkipDelta(c)
      PROVE  Head(msg[c].edits).id \in seen[c]
  <2>. DEFINE k == client[c]
              h == Handled(k, msg[c])
              e == Head(msg[c].edits)
  <2>1. /\ phase[c] = "serving" /\ msg[c].edits # <<>> /\ e.kind = "d"
        /\ Repeated(Acked(c), e, msg[c].version)
    BY <1>2 DEF SkipDelta, Serving
  <2>2. ~Refused(Acked(c), e, msg[c].version)
    <3>1. e.v < Acked(c).scv /\ msg[c].version = Acked(c).ssv
      BY <2>1 DEF Repeated
    <3>2. e.v \in Nat /\ Acked(c).scv \in Nat
      <4>1. TypeOK /\ ClientInv(c) /\ msg[c].edits \in Seq(Edits)
        BY <1>2, OwnTypes DEF MobWriteInv
      <4>2. e \in Edits
        BY <2>1, <4>1, TailIs
      <4>3. Acked(c) \in ViewObjs
        BY <2>1, <4>1, ServingViews
      <4>. QED
        BY <4>2, <4>3, ViewTypes DEF Edits
    <3>. HIDE DEF e
    <3>. QED
      BY <3>1, <3>2 DEF Refused
  <2>3. /\ e = k.stack[h + 1] /\ h \in Nat /\ h + 1 \in 1..Len(k.stack)
        /\ \E p \in h + 1..Len(k.stack) : Merged(k, p, seen[c])
    BY <1>2, <2>1, <2>2, ServedDeltaFits
  <2>. HIDE DEF k, h
  <2>4. PICK p \in h + 1..Len(k.stack) : Merged(k, p, seen[c])
    BY <2>3
  <2>5. h + 1 <= p
    BY <2>3
  <2>. QED
    BY <2>3, <2>4, <2>5 DEF Merged
<1>3. MobWriteInv => [\A c \in Clients : ~replaced[c] =>
          /\ MergeDelta(c) => Head(msg[c].edits).id \notin seen[c] \/ BehindRaw(c)
          /\ SkipDelta(c) => Head(msg[c].edits).id \in seen[c]]_vars
  BY <1>1, <1>2
<1>. QED
  BY <1>3, MobWriteInvariant, PTL DEF MergedOnce

(***************************************************************************)
(* A client whose text was not replaced never makes diff_main() look at a  *)
(* shadow that is None: no request of its ends in that error.              *)
(***************************************************************************)
THEOREM NoErrorUnlessReplaced ==
    Spec => [][\A c \in Clients : ServerError(c) => replaced[c]]_vars
<1>1. ASSUME MobWriteInv, NEW c \in Clients, ServerError(c) PROVE replaced[c]
  BY <1>1, ErrorReplaced
<1>2. MobWriteInv => [\A c \in Clients : ServerError(c) => replaced[c]]_vars
  BY <1>1
<1>. QED
  BY <1>2, MobWriteInvariant, PTL

------------------------------------------------------------------------------
(***************************************************************************)
(* The timers of a client.                                                 *)
(***************************************************************************)
USE DEF timerVars, fileVars, taskHistoryVars

(***************************************************************************)
(* What the operations on a timer do to its two parts.                     *)
(***************************************************************************)
LEMMA TimerLemma ==
    ASSUME NEW t \in Timer
    PROVE  /\ Cleared(t) \in Timer /\ Started(t) \in Timer /\ Nulled(t) \in Timer
           /\ Cleared(t).lost = t.lost /\ Cleared(t).pid # "live"
           /\ Started(t).pid = "live" /\ Nulled(t).pid = "null"
           /\ t.pid # "live" => Started(t).lost = t.lost /\ Nulled(t).lost = t.lost
           /\ Pending(Started(t))
  BY DEF Timer, Cleared, Started, Nulled, Renamed, Pending

(***************************************************************************)
(* A timer that fires was pending, and is not lost any more.               *)
(***************************************************************************)
LEMMA FiredLemma ==
    ASSUME NEW t \in Timer, NEW u \in Fired(t)
    PROVE  /\ u \in Timer
           /\ Pending(t)
           /\ t.lost = 0 => u.lost = 0 /\ u.pid = "spent"
  BY DEF Timer, Fired, Pending

(***************************************************************************)
(* Every handler keeps the types: of the timers, of the files, of the      *)
(* flags.                                                                  *)
(***************************************************************************)
LEMMA TimersStep == TaskTypeOK /\ [TaskNext]_taskVars => TimersOK'
<1> SUFFICES ASSUME TaskTypeOK, [TaskNext]_taskVars PROVE TimersOK'
  OBVIOUS
<1>1. ASSUME NEW f \in Files, Share(f) PROVE TimersOK'
  BY <1>1, TimerLemma, FiredLemma DEF Share, TaskTypeOK, TimersOK
<1>2. ASSUME NEW f \in Files, Type(f) PROVE TimersOK'
  BY <1>2, TimerLemma, FiredLemma DEF Type, SyncNow, Busy, TaskTypeOK, TimersOK
<1>3. ASSUME NEW f \in Files, Unshare(f) PROVE TimersOK'
  BY <1>3, TimerLemma, FiredLemma DEF Unshare, SyncNow, Busy, TaskTypeOK, TimersOK
<1>4. CASE Notified
  BY <1>4, TimerLemma, FiredLemma DEF Notified, SyncNow, Busy, TaskTypeOK, TimersOK
<1>5. CASE PollingRun
  BY <1>5, TimerLemma, FiredLemma DEF PollingRun, Busy, TaskTypeOK, TimersOK
<1>6. CASE LogIn
  BY <1>6, TimerLemma, FiredLemma DEF LogIn, TaskTypeOK, TimersOK
<1>7. CASE LogOut
  BY <1>7, TimerLemma, FiredLemma DEF LogOut, TaskTypeOK, TimersOK
<1>8. CASE PauseSyncTask
  BY <1>8, TimerLemma, FiredLemma DEF PauseSyncTask, TaskTypeOK, TimersOK
<1>9. CASE NothingShared
  BY <1>9, TimerLemma, FiredLemma DEF NothingShared, TaskTypeOK, TimersOK
<1>10. CASE Send
  BY <1>10, TimerLemma, FiredLemma DEF Send, Collect, TaskTypeOK, TimersOK
<1>11. CASE NullSync
  BY <1>11, TimerLemma, FiredLemma DEF NullSync, Collect, TaskTypeOK, TimersOK
<1>12. CASE SyncTextFails
  BY <1>12, TimerLemma, FiredLemma DEF SyncTextFails, TaskTypeOK, TimersOK
<1>13. CASE Answered
  BY <1>13, TimerLemma, FiredLemma DEF Answered, Busy, TaskTypeOK, TimersOK
<1>14. CASE RequestFails
  BY <1>14, TimerLemma, FiredLemma DEF RequestFails, TaskTypeOK, TimersOK
<1>15. CASE AnswerFails
  BY <1>15, TimerLemma, FiredLemma DEF AnswerFails, TaskTypeOK, TimersOK
<1>16. CASE SyncKill
  BY <1>16, TimerLemma, FiredLemma DEF SyncKill, TaskTypeOK, TimersOK
<1>17. CASE UNCHANGED taskVars
  BY <1>17 DEF taskVars, TaskTypeOK, TimersOK
<1> QED
  BY <1>1, <1>2, <1>3, <1>4, <1>5, <1>6, <1>7, <1>8, <1>9, <1>10, <1>11,
     <1>12, <1>13, <1>14, <1>15, <1>16, <1>17
     DEF TaskNext, UserNext, SyncRun1, RequestNext

LEMMA FilesStep == TaskTypeOK /\ [TaskNext]_taskVars => FilesOK'
<1> SUFFICES ASSUME TaskTypeOK, [TaskNext]_taskVars PROVE FilesOK'
  OBVIOUS
<1>1. ASSUME NEW f \in Files, Share(f) PROVE FilesOK'
  BY <1>1, SharesAssumption DEF Share, TaskTypeOK, FilesOK
<1>2. ASSUME NEW f \in Files, Type(f) PROVE FilesOK'
  BY <1>2, SharesAssumption DEF Type, SyncNow, Busy, TaskTypeOK, FilesOK
<1>3. ASSUME NEW f \in Files, Unshare(f) PROVE FilesOK'
  BY <1>3, SharesAssumption DEF Unshare, SyncNow, Busy, TaskTypeOK, FilesOK
<1>4. CASE Notified
  BY <1>4, SharesAssumption DEF Notified, SyncNow, Busy, TaskTypeOK, FilesOK
<1>5. CASE PollingRun
  BY <1>5, SharesAssumption DEF PollingRun, Busy, TaskTypeOK, FilesOK
<1>6. CASE LogIn
  BY <1>6, SharesAssumption DEF LogIn, TaskTypeOK, FilesOK
<1>7. CASE LogOut
  BY <1>7, SharesAssumption DEF LogOut, TaskTypeOK, FilesOK
<1>8. CASE PauseSyncTask
  BY <1>8, SharesAssumption DEF PauseSyncTask, TaskTypeOK, FilesOK
<1>9. CASE NothingShared
  BY <1>9, SharesAssumption DEF NothingShared, TaskTypeOK, FilesOK
<1>10. CASE Send
  BY <1>10, SharesAssumption DEF Send, Collect, TaskTypeOK, FilesOK
<1>11. CASE NullSync
  BY <1>11, SharesAssumption DEF NullSync, Collect, TaskTypeOK, FilesOK
<1>12. CASE SyncTextFails
  BY <1>12, SharesAssumption DEF SyncTextFails, TaskTypeOK, FilesOK
<1>13. CASE Answered
  BY <1>13, SharesAssumption DEF Answered, Busy, TaskTypeOK, FilesOK
<1>14. CASE RequestFails
  BY <1>14, SharesAssumption DEF RequestFails, TaskTypeOK, FilesOK
<1>15. CASE AnswerFails
  BY <1>15, SharesAssumption DEF AnswerFails, TaskTypeOK, FilesOK
<1>16. CASE SyncKill
  BY <1>16, SharesAssumption DEF SyncKill, TaskTypeOK, FilesOK
<1>17. CASE UNCHANGED taskVars
  BY <1>17 DEF taskVars, TaskTypeOK, FilesOK
<1> QED
  BY <1>1, <1>2, <1>3, <1>4, <1>5, <1>6, <1>7, <1>8, <1>9, <1>10, <1>11,
     <1>12, <1>13, <1>14, <1>15, <1>16, <1>17
     DEF TaskNext, UserNext, SyncRun1, RequestNext

LEMMA FlagsStep == TaskTypeOK /\ [TaskNext]_taskVars => FlagsOK'
<1> SUFFICES ASSUME TaskTypeOK, [TaskNext]_taskVars PROVE FlagsOK'
  OBVIOUS
<1>1. ASSUME NEW f \in Files, Share(f) PROVE FlagsOK'
  BY <1>1, Zenon DEF Share, TaskTypeOK, FlagsOK
<1>2. ASSUME NEW f \in Files, Type(f) PROVE FlagsOK'
  BY <1>2, Zenon DEF Type, SyncNow, Busy, TaskTypeOK, FlagsOK
<1>3. ASSUME NEW f \in Files, Unshare(f) PROVE FlagsOK'
  BY <1>3, Zenon DEF Unshare, SyncNow, Busy, TaskTypeOK, FlagsOK
<1>4. CASE Notified
  BY <1>4, Zenon DEF Notified, SyncNow, Busy, TaskTypeOK, FlagsOK
<1>5. CASE PollingRun
  BY <1>5, Zenon DEF PollingRun, Busy, TaskTypeOK, FlagsOK
<1>6. CASE LogIn
  BY <1>6, Zenon DEF LogIn, TaskTypeOK, FlagsOK
<1>7. CASE LogOut
  BY <1>7, Zenon DEF LogOut, TaskTypeOK, FlagsOK
<1>8. CASE PauseSyncTask
  BY <1>8, Zenon DEF PauseSyncTask, TaskTypeOK, FlagsOK
<1>9. CASE NothingShared
  BY <1>9, Zenon DEF NothingShared, TaskTypeOK, FlagsOK
<1>10. CASE Send
  BY <1>10, Zenon DEF Send, Collect, TaskTypeOK, FlagsOK
<1>11. CASE NullSync
  BY <1>11, Zenon DEF NullSync, Collect, TaskTypeOK, FlagsOK
<1>12. CASE SyncTextFails
  BY <1>12, Zenon DEF SyncTextFails, TaskTypeOK, FlagsOK
<1>13. CASE Answered
  BY <1>13, Zenon DEF Answered, Busy, TaskTypeOK, FlagsOK
<1>14. CASE RequestFails
  BY <1>14, Zenon DEF RequestFails, TaskTypeOK, FlagsOK
<1>15. CASE AnswerFails
  BY <1>15, Zenon DEF AnswerFails, TaskTypeOK, FlagsOK
<1>16. CASE SyncKill
  BY <1>16, Zenon DEF SyncKill, TaskTypeOK, FlagsOK
<1>17. CASE UNCHANGED taskVars
  BY <1>17 DEF taskVars, TaskTypeOK, FlagsOK
<1> QED
  BY <1>1, <1>2, <1>3, <1>4, <1>5, <1>6, <1>7, <1>8, <1>9, <1>10, <1>11,
     <1>12, <1>13, <1>14, <1>15, <1>16, <1>17
     DEF TaskNext, UserNext, SyncRun1, RequestNext

(***************************************************************************)
(* Timers, files and flags keep their types, whatever fires and in which   *)
(* order.                                                                  *)
(***************************************************************************)
THEOREM SyncTypeCorrect == TaskSpec => []TaskTypeOK
<1>1. TaskInit => TaskTypeOK
  <2>1. TaskInit => TimersOK
    BY DEF TaskInit, TimersOK, Timer, NoTimer
  <2>2. TaskInit => FilesOK
    BY SharesAssumption DEF TaskInit, FilesOK
  <2>3. TaskInit => FlagsOK
    BY Zenon DEF TaskInit, FlagsOK
  <2> QED
    BY <2>1, <2>2, <2>3 DEF TaskTypeOK
<1>2. TaskTypeOK /\ [TaskNext]_taskVars => TaskTypeOK'
  BY TimersStep, FilesStep, FlagsStep DEF TaskTypeOK
<1> QED
  BY <1>1, <1>2, PTL DEF TaskSpec

(***************************************************************************)
(* A timer is set for syncRun1_ only where the old one was cleared, has    *)
(* fired, or where syncRunPid_ is null.                                    *)
(***************************************************************************)
LEMMA OneSyncStep ==
    TaskTypeOK /\ OneSyncTask /\ [TaskNext]_taskVars => OneSyncTask'
<1> SUFFICES ASSUME TaskTypeOK, OneSyncTask, [TaskNext]_taskVars PROVE OneSyncTask'
  OBVIOUS
<1>1. ASSUME NEW f \in Files, Share(f) PROVE OneSyncTask'
  BY <1>1, TimerLemma, FiredLemma DEF Share, TaskTypeOK, TimersOK, OneSyncTask
<1>2. ASSUME NEW f \in Files, Type(f) PROVE OneSyncTask'
  BY <1>2, TimerLemma, FiredLemma DEF Type, SyncNow, Busy, TaskTypeOK, TimersOK, OneSyncTask
<1>3. ASSUME NEW f \in Files, Unshare(f) PROVE OneSyncTask'
  BY <1>3, TimerLemma, FiredLemma DEF Unshare, SyncNow, Busy, TaskTypeOK, TimersOK, OneSyncTask
<1>4. CASE Notified
  BY <1>4, TimerLemma, FiredLemma DEF Notified, SyncNow, Busy, TaskTypeOK, TimersOK, OneSyncTask
<1>5. CASE PollingRun
  BY <1>5, TimerLemma, FiredLemma DEF PollingRun, Busy, TaskTypeOK, TimersOK, OneSyncTask
<1>6. CASE LogIn
  BY <1>6, TimerLemma, FiredLemma DEF LogIn, TaskTypeOK, TimersOK, OneSyncTask
<1>7. CASE LogOut
  BY <1>7, TimerLemma, FiredLemma DEF LogOut, TaskTypeOK, TimersOK, OneSyncTask
<1>8. CASE PauseSyncTask
  BY <1>8, TimerLemma, FiredLemma DEF PauseSyncTask, TaskTypeOK, TimersOK, OneSyncTask
<1>9. CASE NothingShared
  BY <1>9, TimerLemma, FiredLemma DEF NothingShared, TaskTypeOK, TimersOK, OneSyncTask
<1>10. CASE Send
  BY <1>10, TimerLemma, FiredLemma DEF Send, Collect, TaskTypeOK, TimersOK, OneSyncTask
<1>11. CASE NullSync
  BY <1>11, TimerLemma, FiredLemma DEF NullSync, Collect, TaskTypeOK, TimersOK, OneSyncTask
<1>12. CASE SyncTextFails
  BY <1>12, TimerLemma, FiredLemma DEF SyncTextFails, TaskTypeOK, TimersOK, OneSyncTask
<1>13. CASE Answered
  BY <1>13, TimerLemma, FiredLemma DEF Answered, Busy, TaskTypeOK, TimersOK, OneSyncTask
<1>14. CASE RequestFails
  BY <1>14, TimerLemma, FiredLemma DEF RequestFails, TaskTypeOK, TimersOK, OneSyncTask
<1>15. CASE AnswerFails
  BY <1>15, TimerLemma, FiredLemma DEF AnswerFails, TaskTypeOK, TimersOK, OneSyncTask
<1>16. CASE SyncKill
  BY <1>16, TimerLemma, FiredLemma DEF SyncKill, TaskTypeOK, TimersOK, OneSyncTask
<1>17. CASE UNCHANGED taskVars
  BY <1>17 DEF taskVars, TaskTypeOK, TimersOK, OneSyncTask
<1> QED
  BY <1>1, <1>2, <1>3, <1>4, <1>5, <1>6, <1>7, <1>8, <1>9, <1>10, <1>11,
     <1>12, <1>13, <1>14, <1>15, <1>16, <1>17
     DEF TaskNext, UserNext, SyncRun1, RequestNext

(***************************************************************************)
(* There is only one sync task.                                            *)
(***************************************************************************)
THEOREM OnlyOneSyncTask == TaskSpec => []OneSyncTask
<1>1. TaskInit => OneSyncTask
  BY DEF TaskInit, OneSyncTask, NoTimer
<1> QED
  BY <1>1, OneSyncStep, SyncTypeCorrect, PTL DEF TaskSpec

(***************************************************************************)
(* Send leaves a spent id and sets a watchdog; whatever ends the watchdog  *)
(* replaces the id.  A task that stops for want of files leaves a spent id *)
(* too, which share replaces.                                              *)
(***************************************************************************)
LEMMA SpentIdStep ==
    TaskTypeOK /\ OneSyncTask /\ SpentIdIsWatched /\ [TaskNext]_taskVars => SpentIdIsWatched'
<1> SUFFICES ASSUME TaskTypeOK, OneSyncTask, SpentIdIsWatched, [TaskNext]_taskVars PROVE SpentIdIsWatched'
  OBVIOUS
<1>1. ASSUME NEW f \in Files, Share(f) PROVE SpentIdIsWatched'
  BY <1>1, TimerLemma, FiredLemma DEF Share, TaskTypeOK, TimersOK, OneSyncTask, SpentIdIsWatched
<1>2. ASSUME NEW f \in Files, Type(f) PROVE SpentIdIsWatched'
  BY <1>2, TimerLemma, FiredLemma DEF Type, SyncNow, Busy, TaskTypeOK, TimersOK, OneSyncTask, SpentIdIsWatched
<1>3. ASSUME NEW f \in Files, Unshare(f) PROVE SpentIdIsWatched'
  BY <1>3, TimerLemma, FiredLemma DEF Unshare, SyncNow, Busy, TaskTypeOK, TimersOK, OneSyncTask, SpentIdIsWatched
<1>4. CASE Notified
  BY <1>4, TimerLemma, FiredLemma DEF Notified, SyncNow, Busy, TaskTypeOK, TimersOK, OneSyncTask, SpentIdIsWatched
<1>5. CASE PollingRun
  BY <1>5, TimerLemma, FiredLemma DEF PollingRun, Busy, TaskTypeOK, TimersOK, OneSyncTask, SpentIdIsWatched
<1>6. CASE LogIn
  BY <1>6, TimerLemma, FiredLemma DEF LogIn, TaskTypeOK, TimersOK, OneSyncTask, SpentIdIsWatched
<1>7. CASE LogOut
  BY <1>7, TimerLemma, FiredLemma DEF LogOut, TaskTypeOK, TimersOK, OneSyncTask, SpentIdIsWatched
<1>8. CASE PauseSyncTask
  BY <1>8, TimerLemma, FiredLemma DEF PauseSyncTask, TaskTypeOK, TimersOK, OneSyncTask, SpentIdIsWatched
<1>9. CASE NothingShared
  BY <1>9, TimerLemma, FiredLemma DEF NothingShared, TaskTypeOK, TimersOK, OneSyncTask, SpentIdIsWatched
<1>10. CASE Send
  BY <1>10, TimerLemma, FiredLemma DEF Send, Collect, TaskTypeOK, TimersOK, OneSyncTask, SpentIdIsWatched
<1>11. CASE NullSync
  BY <1>11, TimerLemma, FiredLemma DEF NullSync, Collect, TaskTypeOK, TimersOK, OneSyncTask, SpentIdIsWatched
<1>12. CASE SyncTextFails
  BY <1>12, TimerLemma, FiredLemma DEF SyncTextFails, TaskTypeOK, TimersOK, OneSyncTask, SpentIdIsWatched
<1>13. CASE Answered
  BY <1>13, TimerLemma, FiredLemma DEF Answered, Busy, TaskTypeOK, TimersOK, OneSyncTask, SpentIdIsWatched
<1>14. CASE RequestFails
  BY <1>14, TimerLemma, FiredLemma DEF RequestFails, TaskTypeOK, TimersOK, OneSyncTask, SpentIdIsWatched
<1>15. CASE AnswerFails
  BY <1>15, TimerLemma, FiredLemma DEF AnswerFails, TaskTypeOK, TimersOK, OneSyncTask, SpentIdIsWatched
<1>16. CASE SyncKill
  BY <1>16, TimerLemma, FiredLemma DEF SyncKill, TaskTypeOK, TimersOK, OneSyncTask, SpentIdIsWatched
<1>17. CASE UNCHANGED taskVars
  BY <1>17 DEF taskVars, TaskTypeOK, TimersOK, OneSyncTask, SpentIdIsWatched
<1> QED
  BY <1>1, <1>2, <1>3, <1>4, <1>5, <1>6, <1>7, <1>8, <1>9, <1>10, <1>11,
     <1>12, <1>13, <1>14, <1>15, <1>16, <1>17
     DEF TaskNext, UserNext, SyncRun1, RequestNext

(***************************************************************************)
(* While files are shared, a spent id does not block the sync task for     *)
(* ever.                                                                   *)
(***************************************************************************)
THEOREM SpentIdCorrect == TaskSpec => []SpentIdIsWatched
<1>1. TaskInit => SpentIdIsWatched
  BY DEF TaskInit, SpentIdIsWatched, NoTimer
<1> QED
  BY <1>1, SpentIdStep, OnlyOneSyncTask, SyncTypeCorrect, PTL DEF TaskSpec

(***************************************************************************)
(* Polling ends in pauseSyncTask and without files only; share starts it.  *)
(***************************************************************************)
LEMMA PollingStep ==
    TaskTypeOK /\ PollingGoesOn /\ [TaskNext]_taskVars => PollingGoesOn'
<1> SUFFICES ASSUME TaskTypeOK, PollingGoesOn, [TaskNext]_taskVars PROVE PollingGoesOn'
  OBVIOUS
<1>1. ASSUME NEW f \in Files, Share(f) PROVE PollingGoesOn'
  BY <1>1, TimerLemma, FiredLemma DEF Share, TaskTypeOK, TimersOK, PollingGoesOn
<1>2. ASSUME NEW f \in Files, Type(f) PROVE PollingGoesOn'
  BY <1>2, TimerLemma, FiredLemma DEF Type, SyncNow, Busy, TaskTypeOK, TimersOK, PollingGoesOn
<1>3. ASSUME NEW f \in Files, Unshare(f) PROVE PollingGoesOn'
  BY <1>3, TimerLemma, FiredLemma DEF Unshare, SyncNow, Busy, TaskTypeOK, TimersOK, PollingGoesOn
<1>4. CASE Notified
  BY <1>4, TimerLemma, FiredLemma DEF Notified, SyncNow, Busy, TaskTypeOK, TimersOK, PollingGoesOn
<1>5. CASE PollingRun
  BY <1>5, TimerLemma, FiredLemma DEF PollingRun, Busy, TaskTypeOK, TimersOK, PollingGoesOn
<1>6. CASE LogIn
  BY <1>6, TimerLemma, FiredLemma DEF LogIn, TaskTypeOK, TimersOK, PollingGoesOn
<1>7. CASE LogOut
  BY <1>7, TimerLemma, FiredLemma DEF LogOut, TaskTypeOK, TimersOK, PollingGoesOn
<1>8. CASE PauseSyncTask
  BY <1>8, TimerLemma, FiredLemma DEF PauseSyncTask, TaskTypeOK, TimersOK, PollingGoesOn
<1>9. CASE NothingShared
  BY <1>9, TimerLemma, FiredLemma DEF NothingShared, TaskTypeOK, TimersOK, PollingGoesOn
<1>10. CASE Send
  BY <1>10, TimerLemma, FiredLemma DEF Send, Collect, TaskTypeOK, TimersOK, PollingGoesOn
<1>11. CASE NullSync
  BY <1>11, TimerLemma, FiredLemma DEF NullSync, Collect, TaskTypeOK, TimersOK, PollingGoesOn
<1>12. CASE SyncTextFails
  BY <1>12, TimerLemma, FiredLemma DEF SyncTextFails, TaskTypeOK, TimersOK, PollingGoesOn
<1>13. CASE Answered
  BY <1>13, TimerLemma, FiredLemma DEF Answered, Busy, TaskTypeOK, TimersOK, PollingGoesOn
<1>14. CASE RequestFails
  BY <1>14, TimerLemma, FiredLemma DEF RequestFails, TaskTypeOK, TimersOK, PollingGoesOn
<1>15. CASE AnswerFails
  BY <1>15, TimerLemma, FiredLemma DEF AnswerFails, TaskTypeOK, TimersOK, PollingGoesOn
<1>16. CASE SyncKill
  BY <1>16, TimerLemma, FiredLemma DEF SyncKill, TaskTypeOK, TimersOK, PollingGoesOn
<1>17. CASE UNCHANGED taskVars
  BY <1>17 DEF taskVars, TaskTypeOK, TimersOK, PollingGoesOn
<1> QED
  BY <1>1, <1>2, <1>3, <1>4, <1>5, <1>6, <1>7, <1>8, <1>9, <1>10, <1>11,
     <1>12, <1>13, <1>14, <1>15, <1>16, <1>17
     DEF TaskNext, UserNext, SyncRun1, RequestNext

(***************************************************************************)
(* Polling goes on while files are shared and the task was not paused.     *)
(***************************************************************************)
THEOREM PollingCorrect == TaskSpec => []PollingGoesOn
<1>1. TaskInit => PollingGoesOn
  BY DEF TaskInit, PollingGoesOn
<1> QED
  BY <1>1, PollingStep, SyncTypeCorrect, PTL DEF TaskSpec

(***************************************************************************)
(* A null sync ends the watchdog of a request that is in the air: then the *)
(* sync task is pending, and it will find files to send something for.     *)
(***************************************************************************)
Watched ==
    airborne /\ ~paused /\ ~broken => Pending(kill) \/ (Pending(sync) /\ shared # {})

LEMMA WatchedStep ==
    TaskTypeOK /\ Watched /\ [TaskNext]_taskVars => Watched'
<1> SUFFICES ASSUME TaskTypeOK, Watched, [TaskNext]_taskVars PROVE Watched'
  OBVIOUS
<1>1. ASSUME NEW f \in Files, Share(f) PROVE Watched'
  BY <1>1, TimerLemma, FiredLemma DEF Share, TaskTypeOK, TimersOK, Watched
<1>2. ASSUME NEW f \in Files, Type(f) PROVE Watched'
  BY <1>2, TimerLemma, FiredLemma DEF Type, SyncNow, Busy, TaskTypeOK, TimersOK, Watched
<1>3. ASSUME NEW f \in Files, Unshare(f) PROVE Watched'
  BY <1>3, TimerLemma, FiredLemma DEF Unshare, SyncNow, Busy, TaskTypeOK, TimersOK, Watched
<1>4. CASE Notified
  BY <1>4, TimerLemma, FiredLemma DEF Notified, SyncNow, Busy, TaskTypeOK, TimersOK, Watched
<1>5. CASE PollingRun
  BY <1>5, TimerLemma, FiredLemma DEF PollingRun, Busy, TaskTypeOK, TimersOK, Watched
<1>6. CASE LogIn
  BY <1>6, TimerLemma, FiredLemma DEF LogIn, TaskTypeOK, TimersOK, Watched
<1>7. CASE LogOut
  BY <1>7, TimerLemma, FiredLemma DEF LogOut, TaskTypeOK, TimersOK, Watched
<1>8. CASE PauseSyncTask
  BY <1>8, TimerLemma, FiredLemma DEF PauseSyncTask, TaskTypeOK, TimersOK, Watched
<1>9. CASE NothingShared
  BY <1>9, TimerLemma, FiredLemma DEF NothingShared, TaskTypeOK, TimersOK, Watched
<1>10. CASE Send
  BY <1>10, TimerLemma, FiredLemma DEF Send, Collect, TaskTypeOK, TimersOK, Watched
<1>11. CASE NullSync
  BY <1>11, TimerLemma, FiredLemma DEF NullSync, Collect, TaskTypeOK, TimersOK, Watched
<1>12. CASE SyncTextFails
  BY <1>12, TimerLemma, FiredLemma DEF SyncTextFails, TaskTypeOK, TimersOK, Watched
<1>13. CASE Answered
  BY <1>13, TimerLemma, FiredLemma DEF Answered, Busy, TaskTypeOK, TimersOK, Watched
<1>14. CASE RequestFails
  BY <1>14, TimerLemma, FiredLemma DEF RequestFails, TaskTypeOK, TimersOK, Watched
<1>15. CASE AnswerFails
  BY <1>15, TimerLemma, FiredLemma DEF AnswerFails, TaskTypeOK, TimersOK, Watched
<1>16. CASE SyncKill
  BY <1>16, TimerLemma, FiredLemma DEF SyncKill, TaskTypeOK, TimersOK, Watched
<1>17. CASE UNCHANGED taskVars
  BY <1>17 DEF taskVars, TaskTypeOK, TimersOK, Watched
<1> QED
  BY <1>1, <1>2, <1>3, <1>4, <1>5, <1>6, <1>7, <1>8, <1>9, <1>10, <1>11,
     <1>12, <1>13, <1>14, <1>15, <1>16, <1>17
     DEF TaskNext, UserNext, SyncRun1, RequestNext

(***************************************************************************)
(* A request in the air has a watchdog, or will be overtaken.              *)
(***************************************************************************)
THEOREM StalledCorrect == TaskSpec => []StalledIsNoticed
<1>1. TaskInit => Watched
  BY DEF TaskInit, Watched
<1>2. Watched => StalledIsNoticed
  BY DEF Watched, StalledIsNoticed
<1> QED
  BY <1>1, <1>2, WatchedStep, SyncTypeCorrect, PTL DEF TaskSpec
==============================================================================
