---------------------------- MODULE MCClientUpdate ----------------------------
(***************************************************************************)
(* Small instances of ClientUpdate: three releases, of which the first has  *)
(* a file less.                                                            *)
(***************************************************************************)
EXTENDS ClientUpdate, TLC

CONSTANTS index, script

Archives == [r \in Releases |-> IF r = 1 THEN {index} ELSE Files]
=============================================================================
