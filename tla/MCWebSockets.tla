---------------------------- MODULE MCWebSockets ----------------------------
(***************************************************************************)
(* Small instances of WebSockets.                                          *)
(***************************************************************************)
EXTENDS WebSockets, TLC

ClientSymmetry == Permutations(Clients)
=============================================================================
