------------------------------- MODULE MCFiles -------------------------------
(***************************************************************************)
(* Small instances of Files: two names, and perhaps "./a.gcode" for a.     *)
(***************************************************************************)
EXTENDS Files, TLC

CONSTANTS a, b, dot_a

Paths == [n \in Names \cup Aliases |-> IF n = b THEN b ELSE a]

FileSymmetry == Permutations(Uploads) \cup Permutations(Inodes)
=============================================================================
