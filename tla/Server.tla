------------------------------- MODULE Server -------------------------------
(***************************************************************************)
(* The whole process: the main loop, the bridges and the API handlers over *)
(* the shared event bus.  A panic of the main loop ends the process; the   *)
(* panic of any other task only ends that task.                            *)
(***************************************************************************)
EXTENDS Manager, Routes, FiniteSets

vars == <<busVars, managerVars, bridgeVars, routesVars>>

Init ==
    /\ BusInit
    /\ ManagerInit
    /\ BridgeInit
    /\ RoutesInit

ManagerNext   == ManagerStep /\ UNCHANGED routesVars
BridgeNext(b) == BridgeStep(b) /\ UNCHANGED <<managerVars, routesVars>>
RouteNext(r)  == RouteStep(r) /\ UNCHANGED <<managerVars, bridgeVars>>

Next ==
    /\ main # "panicked"
    /\ \/ ManagerNext
       \/ \E b \in Bridges : BridgeNext(b)
       \/ \E r \in Requests : RouteNext(r)

Spec == Init /\ [][Next]_vars

(***************************************************************************)
(* Every task the runtime has started goes on running: the tokio tasks     *)
(* yield or sleep in their loops, the serial port answers within its 10 ms *)
(* read timeout, open() returns and the websockets the main loop writes to *)
(* take what they are sent.  Clients and the printer need not do anything, *)
(* so Arrives, ReaderReceives and ReaderIoError are not fair.              *)
(***************************************************************************)
Running(A) == main # "panicked" /\ A

Fairness ==
    /\ WF_vars(Running(ManagerNext))
    /\ \A b \in Bridges :
         /\ WF_vars(Running(StartStep(b)    /\ UNCHANGED <<managerVars, routesVars>>))
         /\ WF_vars(Running(TimeoutStep(b)  /\ UNCHANGED <<managerVars, routesVars>>))
         /\ WF_vars(Running(ListenerStep(b) /\ UNCHANGED <<managerVars, routesVars>>))
         /\ WF_vars(Running(ReaderStep(b)   /\ UNCHANGED <<managerVars, routesVars>>))
    /\ \A r \in Requests :
         WF_vars(Running(HandlerStep(r) /\ UNCHANGED <<managerVars, bridgeVars>>))

FairSpec == Spec /\ Fairness

-----------------------------------------------------------------------------
(* Safety                                                                  *)

\* Every variable keeps the shape the Rust types give it.
TypeOK ==
    /\ BusTypeOK
    /\ ManagerTypeOK
    /\ BridgeTypeOK
    /\ RoutesTypeOK

Starting(b)  == start_task[b] \in {"spawned", "opening"}
Listening(b) == listener[b] \notin {"none", "exited"}
Alive        == {b \in Bridges : Starting(b) \/ Listening(b)}

Kills == {i \in 1 .. Len(bridge_channel) : bridge_channel[i] = KillBridge}

\* Of all bridges that are starting or listening, the manager knows at most
\* one; for each of the others a KillBridge is on its way.  Were there fewer
\* kills than strays, two bridges could hold the port and share the channel
\* for good (main.rs 124-201, bridge.rs 537-541).
NoStrayListener ==
    Cardinality(Alive) <= Cardinality(Kills) + (IF bridge_thread = None THEN 0 ELSE 1)

\* A bridge the manager holds on to, once announced, is one the clients see:
\* the state does not stay DISCONNECTED or ERRORED while it runs, so nobody
\* is invited to open a second connection next to it (create_connection.rs
\* 26-29 accepts in those states; main.rs 188-201 lets go in them).
AttachedIsVisible ==
    /\ main = "recv"
    /\ bridge_thread # None
    /\ start_task[bridge_thread] # "spawned"
    /\ ~ Contains(distributor, StateUpdate("CONNECTING", bridge_thread))
    => state.state \notin Offline

InPrint(p) == \E b \in Bridges : Printing(b, p)
Ending     == \E b \in Bridges : listener[b] = "ended"
Shows(p)   == Wrapper("PRINTING", p)

Supersedes(e, p) ==
    /\ e.type = "StateUpdate"
    /\ e.wrapper.state \in {"CONNECTED", "PRINTING"}
    /\ e.wrapper # Shows(p)

\* A print that has ended is not shown as going on for good: unless a listener
\* is about to send CONNECTED, behind every update that says it is (stored, or
\* still queued) another one follows that says something else.  Progress
\* updates, sent by the reader, must not overtake the end of the print, sent by
\* the listener: that is what the print_info lock is for (bridge.rs 149-204,
\* 577-584, 591-617).  The print_info of a bridge that died in the middle of a print is
\* never cleared (539-541, 478), so that its print does not count as ended: nothing is
\* said of a PRINTING that is stored late, after a kill or an ERRORED.
EndNotShown(p) ==
    ~ InPrint(p) /\ ~ Ending =>
        /\ state = Shows(p) =>
             \E j \in 1 .. Len(distributor) : Supersedes(distributor[j], p)
        /\ \A i \in 1 .. Len(distributor) :
             distributor[i] = StateUpdate("PRINTING", p) =>
               \E j \in i + 1 .. Len(distributor) : Supersedes(distributor[j], p)

EndedPrintNotShown == \A p \in Prints : EndNotShown(p)

Preamble(p) == OutGoing(Command("M110 N0", p))
IsLineOf(e, p) ==
    e.type = "OutGoingTerminalMessage" /\ e.message.command = "line" /\ e.message.of = p

\* No line of a print is queued ahead of the M110 N0 that resets the printer's
\* line counter for it: the lock again (bridge.rs 591-617 against 149-203).
PreambleFirst ==
    \A p \in Prints : \A i, j \in 1 .. Len(distributor) :
        IsLineOf(distributor[i], p) /\ distributor[j] = Preamble(p) => j < i

-----------------------------------------------------------------------------
(* Liveness                                                                *)

\* CONNECTING never lasts: the printer answers, the port cannot be opened or
\* the timer reports (bridge.rs 60-130, 275-294).
ConnectingResolves ==
    state.state = "CONNECTING" ~> (state.state # "CONNECTING" \/ main = "panicked")

\* Stray listeners are found by the kills meant for them: again and again at
\* most one bridge is left reading the channel.
ListenersConverge ==
    []<>(main = "panicked" \/ Cardinality({b \in Bridges : Listening(b)}) <= 1)

\* A bridge that was killed lets go of the serial port: its reader ends too
\* (bridge.rs 316, 459, 478, 539).
KilledReaderStops ==
    \A b \in Bridges : canceled[b] ~> (reader[b] = "exited" \/ main = "panicked")

-----------------------------------------------------------------------------
(* What the comments and messages of the code promise.                     *)

\* main.rs 184: the manager panics with "Connection error when thread was
\* already closed.", an error it takes to be impossible.
ErrorsComeFromOwnThread == main # "panicked"

\* create_connection.rs 2-7: the route starts a connection in the states
\* "Disconnected | Errored".  It does not last if a KillBridge meant for an
\* earlier connection reaches its listener while the manager holds it and the
\* server shows it as CONNECTING.
OwnBridgeNotKilled ==
    [][\A b \in Bridges :
         ListenerKilled(b) => bridge_thread # b \/ state # Wrapper("CONNECTING", b)]_vars

\* terminal.rs 2: "Sends a message to the printer."  A message that got as far
\* as the bridge channel is taken by a listener as long as the server shows a
\* connection and the manager holds on to it.
TerminalDelivered ==
    \A r \in Requests :
        LET message == OutGoing(Command("user", r)) IN
        Contains(bridge_channel, message) ~>
            \/ ~ Contains(bridge_channel, message)
            \/ main = "panicked"
            \/ state.state \in Offline
            \/ bridge_thread = None

\* bridge.rs 287: "Timed out".  What ends an attempt is its own ten seconds, not those of
\* an earlier attempt that was given up.
TimeoutIsOwn ==
    [][\A b \in Bridges :
         TimeoutElapses(b) /\ state.state = "CONNECTING" => state.of = b]_vars

\* start_print.rs 2-12: "start a print" in "State: Connected".  A print is not dropped for
\* want of a bridge while the server shows that it is connected.
PrintHasBridge ==
    [][OnPrintStart => bridge_thread # None \/ state.state # "CONNECTED"]_vars
=============================================================================
