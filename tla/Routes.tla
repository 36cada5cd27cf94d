------------------------------- MODULE Routes -------------------------------
(***************************************************************************)
(* The API requests that act on the connection and on the print, and the   *)
(* connection attempt at boot.  A handler compares a copy of `state` with  *)
(* the state it requires and sends its event to the distributor.  For      *)
(* create_connection and cancel_print the guard of the state mutex is a    *)
(* temporary of the router's call and is held until the handler returns;   *)
(* the other handlers have released it before they send.                   *)
(*                                                                         *)
(* A request that is refused changes nothing and is not issued here.  A    *)
(* request whose body breaks off makes its handler panic, and the hook     *)
(* reports it as an error of the connection.                               *)
(***************************************************************************)
EXTENDS Events

CONSTANTS
    Routes,       \* what each request may be
    GcodeLengths  \* gcode.len() of the files that can be printed

RouteNames == {"boot", "create", "disconnect", "reconnect", "print", "cancel", "terminal"}

ASSUME RoutesAssumption ==
    /\ Routes \in [Requests -> SUBSET RouteNames]
    /\ GcodeLengths \subseteq Nat \ {0}

VARIABLES
    req,    \* how far the handler of each request is
    booted  \* connect_boot runs once

routesVars == <<req, booted>>

RoutesTypeOK ==
    /\ req \in [Requests -> {"idle", "boot", "disconnect", "reconnect", "settings", "print",
                             "terminal", "done"}]
    /\ booted \in BOOLEAN

RoutesInit ==
    /\ req = [r \in Requests |-> "idle"]
    /\ booted = FALSE

Issue(r, route) == route \in Routes[r] /\ req[r] = "idle"

GoesTo(r, s) == req' = [req EXCEPT ![r] = s]

\* The device path and baud rate are stored and valid, missing, or do not parse.
ReadSettings(r) ==
    \/ Send(CreateBridge(r))
    \/ UNCHANGED distributor
    \/ "settings" \in Faults /\ PanicHook

CreateConnection(r) ==
    /\ Issue(r, "create")
    /\ state.state \in Offline
    /\ ReadSettings(r)
    /\ GoesTo(r, "done")
    /\ UNCHANGED <<bridge_channel, state, booted>>

CancelPrint(r) ==
    /\ Issue(r, "cancel")
    /\ state.state = "PRINTING"
    /\ Send(PrintEnd)
    /\ GoesTo(r, "done")
    /\ UNCHANGED <<bridge_channel, state, booted>>

\* connect_boot gives up when somebody was faster; it is not a request.
AcceptBoot(r) ==
    /\ Issue(r, "boot")
    /\ ~ booted
    /\ booted' = TRUE
    /\ state.state = "DISCONNECTED"
    /\ GoesTo(r, "boot")
    /\ UNCHANGED busVars

ConnectBoot(r) ==
    /\ req[r] = "boot"
    /\ ReadSettings(r)
    /\ GoesTo(r, "done")
    /\ UNCHANGED <<bridge_channel, state, booted>>

AcceptDisconnect(r) ==
    /\ Issue(r, "disconnect")
    /\ state.state \notin Offline
    /\ GoesTo(r, "disconnect")
    /\ UNCHANGED <<busVars, booted>>

AcceptReconnect(r) ==
    /\ Issue(r, "reconnect")
    /\ state.state \notin Offline
    /\ GoesTo(r, "reconnect")
    /\ UNCHANGED <<busVars, booted>>

\* start_print reads its body before it looks at the state.
PrintBreaksOff(r) ==
    /\ Issue(r, "print")
    /\ "body" \in Faults
    /\ PanicHook
    /\ GoesTo(r, "done")
    /\ UNCHANGED <<bridge_channel, state, booted>>

AcceptPrint(r) ==
    /\ Issue(r, "print")
    /\ state.state = "CONNECTED"
    /\ GoesTo(r, "print")
    /\ UNCHANGED <<busVars, booted>>

AcceptTerminal(r) ==
    /\ Issue(r, "terminal")
    /\ state.state = "CONNECTED"
    /\ GoesTo(r, "terminal")
    /\ UNCHANGED <<busVars, booted>>

Disconnect(r) ==
    /\ req[r] = "disconnect"
    /\ Send(StateUpdate("DISCONNECTED", None))
    /\ GoesTo(r, "done")
    /\ UNCHANGED <<bridge_channel, state, booted>>

\* The handler then sleeps for 100 ms and does not look at `state` again.
Reconnect(r) ==
    /\ req[r] = "reconnect"
    /\ Send(StateUpdate("DISCONNECTED", None))
    /\ GoesTo(r, "settings")
    /\ UNCHANGED <<bridge_channel, state, booted>>

Connect(r) ==
    /\ req[r] = "settings"
    /\ ReadSettings(r)
    /\ GoesTo(r, "done")
    /\ UNCHANGED <<bridge_channel, state, booted>>

\* The file is read into memory, or it cannot be.
StartPrintFile(r) ==
    /\ req[r] = "print"
    /\ \/ \E len \in GcodeLengths : Send(PrintStart(NewPrintInfo(r, len)))
       \/ UNCHANGED distributor
    /\ GoesTo(r, "done")
    /\ UNCHANGED <<bridge_channel, state, booted>>

\* The body is a message, or it is malformed or breaks off.
SendTerminal(r) ==
    /\ req[r] = "terminal"
    /\ \/ Send(OutGoing(Command("user", r)))
       \/ UNCHANGED distributor
       \/ "body" \in Faults /\ PanicHook
    /\ GoesTo(r, "done")
    /\ UNCHANGED <<bridge_channel, state, booted>>

\* A client may or may not do these.
Arrives(r) ==
    \/ CreateConnection(r)
    \/ CancelPrint(r)
    \/ AcceptDisconnect(r)
    \/ AcceptReconnect(r)
    \/ PrintBreaksOff(r)
    \/ AcceptPrint(r)
    \/ AcceptTerminal(r)

\* These the handlers do.
HandlerStep(r) ==
    \/ ConnectBoot(r)
    \/ Disconnect(r)
    \/ Reconnect(r)
    \/ Connect(r)
    \/ StartPrintFile(r)
    \/ SendTerminal(r)

RouteStep(r) == Arrives(r) \/ AcceptBoot(r) \/ HandlerStep(r)
=============================================================================
