------------------------------ MODULE MCSessions ------------------------------
(***************************************************************************)
(* Small instances of Sessions.                                            *)
(***************************************************************************)
EXTENDS Sessions, TLC

CONSTANTS u1, u2

SessionsSymmetry == Permutations(Logins)

\* file.access and file.edit; the same and settings.edit; admin.
Viewer == [u \in Users |-> IF u = u1 THEN 12 ELSE 44]
Admin == [u \in Users |-> IF u = u1 THEN 12 ELSE 1 + 12]
=============================================================================
