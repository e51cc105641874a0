----------------------------- MODULE MCMobWrite -----------------------------
(***************************************************************************)
(* Small instances of MobWrite for TLC.                                    *)
(***************************************************************************)
EXTENDS MobWrite

CONSTANTS a, b, p1, p2, p3

OpeningText == {p1}

(***************************************************************************)
(* "Textobj lock required for read/patch/write cycle." (core.py:286): what *)
(* a merge writes is the text as it is, patched.                           *)
(***************************************************************************)
MergesAreAtomic ==
    [][\A c \in Clients : MergeDelta(c) /\ text' # text
            => text' = Patch(text, Head(msg[c].edits))]_vars
=============================================================================
