------------------------------ MODULE MCServer ------------------------------
(***************************************************************************)
(* Small instances of Server.  Each run gives the requests their routes, so*)
(* that a run spends its states on the question it asks: r1 always opens a *)
(* connection, the others are what may happen to it.                       *)
(***************************************************************************)
EXTENDS Server, TLC

CONSTANTS r1, r2, r3, r4

RequestSymmetry == Permutations(Requests)

\* Three clients that open and close connections.
ConnectRoutes == [r \in Requests |-> {"create", "disconnect", "reconnect"}]

\* A connection, at boot or later, that is closed while another is opened.
BootAndReopen == (r1 :> {"boot", "create"}) @@ (r2 :> {"disconnect"}) @@ (r3 :> {"create"})

CloseAndOpen == (r1 :> {"create"}) @@ (r2 :> {"disconnect"}) @@ (r3 :> {"create"})
TwoPrints    == (r1 :> {"create"}) @@ (r2 :> {"print"}) @@ (r3 :> {"print", "cancel", "terminal"})
OneClose     == (r1 :> {"create"}) @@ (r2 :> {"disconnect"})
LosePrint    == (r1 :> {"create"}) @@ (r2 :> {"disconnect"}) @@ (r3 :> {"print"})
Reopen       == (r1 :> {"create"}) @@ (r2 :> {"create"})
Terminal     == (r1 :> {"create"}) @@ (r2 :> {"print"}) @@ (r3 :> {"cancel"})
                  @@ (r4 :> {"terminal"})

Line(is_ok, kind, n) == [ok |-> is_ok, kind |-> kind, n |-> n]

Silent == {}

\* The least a printer says to get connected.
Marlin == {Line(FALSE, "firmware", 0), Line(TRUE, "plain", 0)}

\* A set-up with a capability, and printers that are no Marlin or report errors.
Setup == Marlin \cup {Line(FALSE, "capTemp", 0), Line(FALSE, "error", 0)}

\* While printing: lines within the file, past its end, and far out of it.
PrintLines ==
    Marlin \cup {Line(TRUE, "number", 1), Line(TRUE, "number", 3),
                 Line(FALSE, "resend", 1), Line(FALSE, "resend", 3)}
=============================================================================
