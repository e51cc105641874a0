----------------------------- MODULE MCAsyncOps -----------------------------
(***************************************************************************)
(* A small instance of AsyncOps for TLC: three operations, two of them on  *)
(* each of two URIs.                                                       *)
(***************************************************************************)
EXTENDS AsyncOps

CONSTANTS op1, op2, op3, u, v

AffectedUris ==
    [o \in Ops |-> IF o = op1 THEN {u} ELSE IF o = op2 THEN {u, v} ELSE {v}]
=============================================================================
