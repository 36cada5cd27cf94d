------------------------------ MODULE MCPrintJob ------------------------------
(***************************************************************************)
(* Small instances of PrintJob: r1 has opened the connection.              *)
(***************************************************************************)
EXTENDS PrintJob, TLC

CONSTANTS r1, r2, r3, r4

NoLines == {}

Interrupted == (r1 :> {}) @@ (r2 :> {"print"}) @@ (r3 :> {"cancel"}) @@ (r4 :> {"terminal"})
Again       == (r1 :> {}) @@ (r2 :> {"print"}) @@ (r3 :> {"cancel"}) @@ (r4 :> {"print"})
=============================================================================
