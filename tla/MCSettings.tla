------------------------------ MODULE MCSettings ------------------------------
(***************************************************************************)
(* Instances of Settings: integers of two bits, and numbers below and      *)
(* above them.                                                             *)
(***************************************************************************)
EXTENDS Settings, TLC

Around == 0..2 \cup Width..(Width + 1)
=============================================================================
