------------------------------ MODULE MCHistory ------------------------------
(* Small instances of History: a file that stays and two buffers that can  *)
(* be closed.                                                              *)
EXTENDS History

CONSTANTS file, buffer, diff, none

ThePlaces == {file, buffer, diff}
Buffers == {buffer, diff}
Symmetry == Permutations(Buffers)
==============================================================================
