----------------------------- MODULE MCDocument -----------------------------
(***************************************************************************)
(* A small instance of Document for TLC: three texts, and a truncated one. *)
(***************************************************************************)
EXTENDS Document

CONSTANTS old, new, other
=============================================================================
