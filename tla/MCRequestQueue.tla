--------------------------- MODULE MCRequestQueue ---------------------------
(***************************************************************************)
(* Small instances of RequestQueue for TLC.                                *)
(***************************************************************************)
EXTENDS RequestQueue
=============================================================================
