------------------------------ MODULE MobWrite ------------------------------
(***************************************************************************)
(* Collaborative editing of one shared file by differential                *)
(* synchronisation: the clients                                            *)
(* (src/src/modules/collaboration/content/mobwrite_core.js, shareObj.js),  *)
(* the server (mobwrite/core.py and komob/models.py, under                 *)
(* src/services/collaboration/komob-server/src) and a network that loses   *)
(* requests and answers.                                                   *)
(*                                                                         *)
(* A text is the set of the pieces it is made of, all of one length; a     *)
(* patch removes and adds pieces, and finds its place as long as the piece *)
(* to remove is there.  A delta says how to get from one text to another,  *)
(* but of the first one it carries the length only.                        *)
(*                                                                         *)
(* A handler in the client is one action, except that the lines of an      *)
(* answer are read one by one.  The server interleaves the requests of     *)
(* different clients: what happens between two locks of the text is one    *)
(* action.  A request is served before its client gives it up, or not at   *)
(* all.                                                                    *)
(*                                                                         *)
(* A definition marked [variant] is a faulty form of the one after it, to  *)
(* show which property notices the fault; no specification uses it.        *)
(***************************************************************************)
EXTENDS Subsequences

CONSTANTS
    Clients,
    Owner,          \* the client that shares the file, before the others join
    Tokens,         \* the pieces
    Opening,        \* the text when it is shared
    NoText,         \* None, the text nobody has set yet
    Unread,         \* an attribute that was not loaded from the database yet
    NoView,
    MaxEdits,       \* bound: insertions and deletions by the users
    MaxLosses,      \* bound: requests and answers that are lost
    MaxCleanups,    \* bound: views deleted because they were idle
    MaxPolls        \* bound: synchronisations with nothing to synchronise

ASSUME OwnerAssumption == Owner \in Clients

ASSUME TextAssumption ==
    /\ IsFiniteSet(Tokens)
    /\ Opening \subseteq Tokens
    /\ \A t \in SUBSET Tokens : t # NoText /\ t # Unread

ASSUME BoundsAssumption == {MaxEdits, MaxLosses, MaxCleanups, MaxPolls} \subseteq Nat

VARIABLES
    text,       \* TextObj._text, what all views are views of
    client,     \* the editor and the shareObj of each client
    view,       \* the ViewObj of each client
    phase,      \* where the synchronisation of each client stands
    msg,        \* its request or answer; what of it is still to be handled
    job,        \* the server's copies of view and text for the request it serves
    edits, losses, cleanups, polls,
    used,       \* history: the pieces that were ever inserted
    seen,       \* history: the deltas of each client the server has accepted
    replaced,   \* history: the client had to take the server's text, and has not
                \* told the server its own since
    misread     \* history: the server took a delta of such a client for one that
                \* it had seen, or for one that is next

netVars == <<phase, msg, job>>
boundVars == <<edits, losses, cleanups, polls, used>>
historyVars == <<seen, replaced, misread>>
vars == <<text, client, view, netVars, boundVars, historyVars>>

Text == SUBSET Tokens
Edits == [kind : {"d", "r", "R"}, v : Nat, from : Text, to : Text, id : Nat]
ShareObjs == [text : Text, shadow : Text, cv : Nat, sv : Nat, ok : BOOLEAN,
              stack : Seq(Edits), ids : Nat]
ViewObjs == [shadow : {NoText} \cup Text, backup : {NoText} \cup Text, scv : Nat,
             ssv : Nat, bsv : Nat, stack : Seq(Edits), ok : BOOLEAN]

ASSUME NoViewAssumption == NoView \notin ViewObjs

-----------------------------------------------------------------------------
(* Deltas and raw texts; v is their version, id tells deltas apart.         *)

Delta(v, from, to, id) == [kind |-> "d", v |-> v, from |-> from, to |-> to, id |-> id]
Raw(kind, v, t) == [kind |-> kind, v |-> v, from |-> {}, to |-> t, id |-> 0]

\* diff_fromDelta raises an exception for a text of another length.
Fits(t, e) == Cardinality(t) = Cardinality(e.from)

\* patch_apply, and diff_text2 for a text that fits.
Patch(t, e) == (t \ (e.from \ e.to)) \cup (e.to \ e.from)

\* The elements of an edit stack that version v does not acknowledge.
Unacked(stack, v) == Picked(stack, {i \in DOMAIN stack : stack[i].v > v})

FreshView == [shadow |-> NoText, backup |-> NoText, scv |-> 0, ssv |-> 0, bsv |-> 0,
              stack |-> <<>>, ok |-> TRUE]

NoJob == [view |-> NoView, text |-> Unread]

NoMessage == [version |-> 0, edits |-> <<>>]

Init ==
    /\ text = NoText
    /\ client = [c \in Clients |->
                    [text |-> IF c = Owner THEN Opening ELSE {}, shadow |-> {},
                     cv |-> 0, sv |-> 0, ok |-> FALSE, stack |-> <<>>, ids |-> 0]]
    /\ view = [c \in Clients |-> NoView]
    /\ phase = [c \in Clients |-> "idle"]
    /\ msg = [c \in Clients |-> NoMessage]
    /\ job = [c \in Clients |-> NoJob]
    /\ edits = 0 /\ losses = 0 /\ cleanups = 0 /\ polls = 0
    /\ used = Opening
    /\ seen = [c \in Clients |-> {}]
    /\ replaced = [c \in Clients |-> FALSE]
    /\ misread = FALSE

-----------------------------------------------------------------------------
(* The client.                                                              *)

\* The others join a file that is there already.
Joined(c) == c = Owner \/ client[c].cv > 0

Typing(c, t) ==
    /\ Joined(c)
    /\ phase[c] # "reading"
    /\ edits < MaxEdits
    /\ edits' = edits + 1
    /\ client' = [client EXCEPT ![c].text = t]
    /\ UNCHANGED <<text, view, netVars, losses, cleanups, polls, historyVars>>

Insert(c, piece) ==
    /\ piece \notin used
    /\ used' = used \cup {piece}
    /\ Typing(c, client[c].text \cup {piece})

Delete(c, piece) ==
    /\ piece \in client[c].text
    /\ Typing(c, client[c].text \ {piece})
    /\ UNCHANGED used

\* syncText(): what it leaves of the shareObj of k.
Synced(k) ==
    IF ~k.ok
    THEN [k EXCEPT !.shadow = k.text, !.cv = @ + 1, !.ok = TRUE,
                   !.stack = Append(@, Raw("r", k.cv + 1, k.text))]
    ELSE IF k.text = k.shadow /\ k.stack # <<>>
    THEN k
    ELSE [k EXCEPT !.shadow = k.text, !.cv = @ + 1, !.ids = @ + 1,
                   !.stack = Append(@, Delta(k.cv, k.shadow, k.text, k.ids + 1))]

\* Something is to be sent or fetched: the user typed, the last try did not
\* succeed, or the server has news, of which it notifies the client.
Due(c) ==
    \/ ~client[c].ok
    \/ client[c].text # client[c].shadow
    \/ client[c].stack # <<>>
    \/ text # IF view[c] = NoView THEN client[c].shadow ELSE view[c].shadow

\* syncRun1_(): by a timer, a key, or a notification.
Sync(c) ==
    /\ phase[c] = "idle"
    /\ c = Owner \/ text # NoText
    /\ Due(c) \/ polls < MaxPolls
    /\ polls' = IF Due(c) THEN polls ELSE polls + 1
    /\ LET k == Synced(client[c]) IN
        /\ client' = [client EXCEPT ![c] = k]
        /\ msg' = [msg EXCEPT ![c] = [version |-> k.sv, edits |-> k.stack]]
    /\ phase' = [phase EXCEPT ![c] = "sent"]
    /\ UNCHANGED <<text, view, job, edits, losses, cleanups, used, historyVars>>

\* A request that never arrives, or an answer; syncKill_() or an error.
Lose(c) ==
    /\ phase[c] \in {"sent", "answered"}
    /\ losses < MaxLosses
    /\ losses' = losses + 1
    /\ phase' = [phase EXCEPT ![c] = "idle"]
    /\ msg' = [msg EXCEPT ![c] = NoMessage]
    /\ UNCHANGED <<text, client, view, job, edits, cleanups, polls, used, historyVars>>

\* syncRun2_(), the line F of an answer.
ReadFile(c) ==
    /\ phase[c] = "answered"
    /\ phase' = [phase EXCEPT ![c] = "reading"]
    /\ client' = [client EXCEPT ![c].ok = TRUE,
                                ![c].stack = Unacked(@, msg[c].version)]
    /\ UNCHANGED <<text, view, msg, job, boundVars, historyVars>>

\* [variant] patches the user's text in place of the shadow.
ReceivedOverText(k, e, v) ==
    IF v # k.cv \/ e.v > k.sv THEN [k EXCEPT !.ok = FALSE]
    ELSE IF e.v < k.sv THEN k
    ELSE IF ~Fits(k.shadow, e) THEN [k EXCEPT !.ok = FALSE]
    ELSE [k EXCEPT !.sv = @ + 1, !.shadow = Patch(k.text, e), !.text = Patch(@, e)]

\* What a delta e of an answer of version v leaves of the shareObj.
Received(k, e, v) ==
    IF v # k.cv \/ e.v > k.sv THEN [k EXCEPT !.ok = FALSE]
    ELSE IF e.v < k.sv THEN k
    ELSE IF ~Fits(k.shadow, e) THEN [k EXCEPT !.ok = FALSE]
    ELSE [k EXCEPT !.sv = @ + 1, !.shadow = Patch(@, e), !.text = Patch(@, e)]

\* [variant] takes back the edit that was refused.
ReplacedOneBack(k, e, v) ==
    [k EXCEPT !.shadow = e.to, !.cv = v - 1, !.sv = e.v, !.stack = <<>>,
              !.text = IF e.kind = "R" THEN e.to ELSE @]

\* What a raw text leaves of it; R wipes out the user's changes.
Replaced(k, e, v) ==
    [k EXCEPT !.shadow = e.to, !.cv = v, !.sv = e.v, !.stack = <<>>,
              !.text = IF e.kind = "R" THEN e.to ELSE @]

\* syncRun2_(), a line D, d, R or r.
ReadEdit(c) ==
    /\ phase[c] = "reading"
    /\ msg[c].edits # <<>>
    /\ LET e == Head(msg[c].edits) IN
        /\ client' = [client EXCEPT ![c] =
                         IF e.kind = "d" THEN Received(@, e, msg[c].version)
                                         ELSE Replaced(@, e, msg[c].version)]
        /\ replaced' = [replaced EXCEPT ![c] = @ \/ e.kind # "d"]
    /\ msg' = [msg EXCEPT ![c].edits = Tail(@)]
    /\ UNCHANGED <<text, view, phase, job, boundVars, seen, misread>>

ReadEnd(c) ==
    /\ phase[c] = "reading"
    /\ msg[c].edits = <<>>
    /\ phase' = [phase EXCEPT ![c] = "idle"]
    /\ msg' = [msg EXCEPT ![c].version = 0]
    /\ UNCHANGED <<text, client, view, job, boundVars, historyVars>>

-----------------------------------------------------------------------------
(* The server.                                                              *)

\* fetch_viewobj(): the view, or a new one.
Fetch(c) ==
    /\ phase[c] = "sent"
    /\ phase' = [phase EXCEPT ![c] = "serving"]
    /\ view' = [view EXCEPT ![c] = IF @ = NoView THEN FreshView ELSE @]
    /\ job' = [job EXCEPT ![c].view = [view'[c] EXCEPT !.ok = TRUE]]
    /\ UNCHANGED <<text, client, msg, boundVars, historyVars>>

\* [variant] the version only.
RolledBackVersion(w, v) ==
    IF v # w.ssv /\ v = w.bsv THEN [w EXCEPT !.ssv = w.bsv, !.stack = <<>>] ELSE w

\* The client is at version v: it may not have got the last answer.
RolledBack(w, v) ==
    IF v # w.ssv /\ v = w.bsv
    THEN [w EXCEPT !.shadow = w.backup, !.ssv = w.bsv, !.stack = <<>>]
    ELSE w

\* The view of c when the next edit of the request is looked at.
Acked(c) ==
    LET v == msg[c].version IN
    [RolledBack(job[c].view, v) EXCEPT !.stack = Unacked(@, v)]

\* textobj.text: read from the database once.
Loaded(c) == IF job[c].text = Unread THEN text ELSE job[c].text

Serving(c, kind) ==
    /\ phase[c] = "serving"
    /\ msg[c].edits # <<>>
    /\ Head(msg[c].edits).kind = kind
    /\ msg' = [msg EXCEPT ![c].edits = Tail(@)]
    /\ UNCHANGED <<client, view, phase, boundVars>>

\* A raw text; it becomes the server's only if that has none.
TakeRaw(c) ==
    /\ Serving(c, "r")
    /\ LET e == Head(msg[c].edits)
           v == msg[c].version IN
        /\ text' = IF Loaded(c) = NoText THEN e.to ELSE text
        /\ job' = [job EXCEPT
                      ![c].view = [Acked(c) EXCEPT
                                      !.shadow = e.to, !.scv = e.v, !.ssv = v,
                                      !.backup = e.to, !.bsv = v, !.stack = <<>>,
                                      !.ok = TRUE],
                      ![c].text = IF Loaded(c) = NoText THEN e.to ELSE Loaded(c)]
    /\ replaced' = [replaced EXCEPT ![c] = FALSE]
    /\ UNCHANGED <<seen, misread>>

\* A delta e of request version v that view w cannot make sense of.
Refused(w, e, v) ==
    \/ v # w.ssv
    \/ e.v > w.scv
    \/ e.v = w.scv /\ w.shadow = NoText

\* [variant] does not remember that it refused it.
RefuseQuietly(c) ==
    /\ Serving(c, "d")
    /\ Refused(Acked(c), Head(msg[c].edits), msg[c].version)
    /\ job' = [job EXCEPT ![c].view = Acked(c)]
    /\ UNCHANGED <<text, historyVars>>

RefuseDelta(c) ==
    /\ Serving(c, "d")
    /\ Refused(Acked(c), Head(msg[c].edits), msg[c].version)
    /\ job' = [job EXCEPT ![c].view = [Acked(c) EXCEPT !.ok = FALSE]]
    /\ UNCHANGED <<text, historyVars>>

\* [variant] no delta is taken for a repeated one.
NeverRepeated(w, e, v) == FALSE

\* "We've already seen this diff."
Repeated(w, e, v) == v = w.ssv /\ e.v < w.scv

SkipDelta(c) ==
    /\ Serving(c, "d")
    /\ Repeated(Acked(c), Head(msg[c].edits), msg[c].version)
    /\ job' = [job EXCEPT ![c].view = Acked(c)]
    /\ misread' = (misread \/ replaced[c])
    /\ UNCHANGED <<text, seen, replaced>>

\* applyPatches(), with the text locked; it is saved when the delta changes it.
MergeDelta(c) ==
    /\ Serving(c, "d")
    /\ LET w == Acked(c)
           e == Head(msg[c].edits) IN
        /\ ~Refused(w, e, msg[c].version) /\ ~Repeated(w, e, msg[c].version)
        /\ seen' = [seen EXCEPT ![c] = @ \cup {e.id}]
        /\ IF Fits(w.shadow, e)
           THEN LET shadow == Patch(w.shadow, e) IN
                /\ job' = [job EXCEPT
                              ![c].view = [w EXCEPT !.shadow = shadow, !.scv = @ + 1,
                                                    !.backup = shadow, !.bsv = w.ssv],
                              ![c].text = Patch(Loaded(c), e)]
                /\ text' = IF e.from = e.to THEN text ELSE job'[c].text
           ELSE /\ job' = [job EXCEPT ![c].view = [w EXCEPT !.scv = @ + 1, !.ok = FALSE]]
                /\ UNCHANGED text
    /\ misread' = (misread \/ replaced[c])
    /\ UNCHANGED replaced

\* generateDiffs(), and viewobj.save(): an edit more on the stack, and all of it.
Answer(c) ==
    /\ phase[c] = "serving"
    /\ msg[c].edits = <<>>
    /\ LET w == job[c].view
           master == Loaded(c)
           stack == Append(w.stack, IF w.ok THEN Delta(w.ssv, w.shadow, master, 0)
                                            ELSE Raw("R", w.ssv, master)) IN
        /\ w.ok => w.shadow # NoText
        /\ view' = [view EXCEPT ![c] =
                       [w EXCEPT !.stack = stack, !.shadow = master,
                                 !.ssv = IF w.ok THEN @ + 1 ELSE @,
                                 !.scv = IF w.ok THEN @ ELSE @ + 1]]
        /\ msg' = [msg EXCEPT ![c] = [version |-> w.scv, edits |-> stack]]
    /\ phase' = [phase EXCEPT ![c] = "answered"]
    /\ job' = [job EXCEPT ![c] = NoJob]
    /\ UNCHANGED <<text, client, boundVars, historyVars>>

\* diff_main() raises an exception for a shadow that is None: an error is the
\* answer, and the view is not saved.
ServerError(c) ==
    /\ phase[c] = "serving"
    /\ msg[c].edits = <<>>
    /\ job[c].view.ok /\ job[c].view.shadow = NoText
    /\ phase' = [phase EXCEPT ![c] = "idle"]
    /\ msg' = [msg EXCEPT ![c] = NoMessage]
    /\ job' = [job EXCEPT ![c] = NoJob]
    /\ UNCHANGED <<text, client, view, boundVars, historyVars>>

\* cleanup_views(): the view was idle for a minute.
Cleanup(c) ==
    /\ view[c] # NoView
    /\ phase[c] # "serving"
    /\ cleanups < MaxCleanups
    /\ cleanups' = cleanups + 1
    /\ view' = [view EXCEPT ![c] = NoView]
    /\ UNCHANGED <<text, client, netVars, edits, losses, polls, used, historyVars>>

-----------------------------------------------------------------------------
ClientStep(c) == Sync(c) \/ ReadFile(c) \/ ReadEdit(c) \/ ReadEnd(c)

ServerStep(c) ==
    \/ Fetch(c) \/ TakeRaw(c) \/ RefuseDelta(c) \/ SkipDelta(c) \/ MergeDelta(c)
    \/ Answer(c) \/ ServerError(c)

Next ==
    \E c \in Clients :
        \/ \E piece \in Tokens : Insert(c, piece) \/ Delete(c, piece)
        \/ ClientStep(c)
        \/ ServerStep(c)
        \/ Lose(c)
        \/ Cleanup(c)

Spec == Init /\ [][Next]_vars

(***************************************************************************)
(* The polling timer fires, an answer that arrives is read, and a request  *)
(* that arrives is served.                                                 *)
(***************************************************************************)
Fairness == \A c \in Clients : WF_vars(ClientStep(c)) /\ WF_vars(ServerStep(c))

FairSpec == Spec /\ Fairness

-----------------------------------------------------------------------------
TypeOK ==
    /\ text \in {NoText} \cup Text
    /\ client \in [Clients -> ShareObjs]
    /\ view \in [Clients -> {NoView} \cup ViewObjs]
    /\ phase \in [Clients -> {"idle", "sent", "serving", "answered", "reading"}]
    /\ msg \in [Clients -> [version : Nat, edits : Seq(Edits)]]
    /\ job \in [Clients -> [view : {NoView} \cup ViewObjs, text : {Unread} \cup Text]]
    /\ used \subseteq Tokens
    /\ \A n \in {edits, losses, cleanups, polls} : n \in Nat
    /\ seen \in [Clients -> SUBSET Nat]
    /\ replaced \in [Clients -> BOOLEAN]
    /\ misread \in BOOLEAN

(***************************************************************************)
(* A delta is only applied to the text it was computed from, though it is  *)
(* not told which that was but by two version numbers and a length         *)
(* ("Should be guaranteed to work", mobwrite_core.js:850): by the server   *)
(* to its shadow, and by the client to its own.  A client that had to take *)
(* the server's text counts its versions from there one lower than the     *)
(* server does (core.py:407), and all bets are off until it sends a raw    *)
(* text.                                                                   *)
(***************************************************************************)
DeltasFit ==
    \A c \in Clients :
        msg[c].edits # <<>> /\ Head(msg[c].edits).kind = "d" /\ ~replaced[c] =>
        LET e == Head(msg[c].edits)
            v == msg[c].version IN
        /\ phase[c] = "serving" /\ ~Refused(Acked(c), e, v) /\ ~Repeated(Acked(c), e, v)
             => Acked(c).shadow = e.from
        /\ phase[c] = "reading" /\ v = client[c].cv /\ e.v = client[c].sv
             => client[c].shadow = e.from

(***************************************************************************)
(* Between two synchronisations, when client and server agree on both      *)
(* version numbers, they agree on the text these stand for.                *)
(***************************************************************************)
ShadowsAgree ==
    \A c \in Clients :
        phase[c] = "idle" /\ view[c] # NoView /\ ~replaced[c]
        /\ client[c].ok /\ client[c].stack = <<>>
        /\ client[c].cv = view[c].scv /\ client[c].sv = view[c].ssv
            => client[c].shadow = view[c].shadow

(***************************************************************************)
(* However often a delta is sent, the server merges it once: it skips only *)
(* what it has merged ("We've already seen this diff", core.py:264) and    *)
(* merges nothing again, except what is sent behind a raw text, which      *)
(* makes the server forget how far it was.                                 *)
(***************************************************************************)
BehindRaw(c) == client[c].stack # <<>> /\ Head(client[c].stack).kind = "r"

MergedOnce ==
    [][\A c \in Clients : ~replaced[c] =>
          /\ MergeDelta(c) => Head(msg[c].edits).id \notin seen[c] \/ BehindRaw(c)
          /\ SkipDelta(c) => Head(msg[c].edits).id \in seen[c]]_vars

(***************************************************************************)
(* When the users stop typing, all of them get to see the same text, that  *)
(* of the server.                                                          *)
(***************************************************************************)
Converged == \A c \in Clients : client[c].text = text
TextsConverge == <>[](misread \/ Converged)
=============================================================================
