------------------------------ MODULE LintItems ------------------------------
(***************************************************************************)
(* The items of the lint request queue (src/src/lint/koLintService.py) and *)
(* the list operation on them that remove_uid is built from.  An item is   *)
(* a koILintRequest, of which the queue looks only at the uid (the view it *)
(* belongs to), or None, the sentinel that tells the thread to quit.       *)
(***************************************************************************)
EXTENDS Subsequences

CONSTANTS
    Uids,         \* the uids of the views that ask for a lint
    Quit,         \* the quit sentinel, None in the code
    Nothing,      \* what a thread has got before its first get returns
    MaxRequests   \* bound: requests made in a behaviour

ASSUME MaxRequestsAssumption == MaxRequests \in Nat

\* The number stands for the identity of the request object.
Request == [uid : Uids, num : 1..MaxRequests]

ASSUME QuitAssumption == Quit \notin Request

Item == Request \cup {Quit}

(***************************************************************************)
(* The list comprehension of _remove_uid: the items that have a uid, and   *)
(* another one than u, in their order.  The sentinel has no uid attribute, *)
(* so the comprehension drops it too.                                      *)
(***************************************************************************)
Kept(q, u) == {i \in DOMAIN q : q[i] # Quit /\ q[i].uid # u}

WithoutUid(q, u) == Picked(q, Kept(q, u))
=============================================================================
