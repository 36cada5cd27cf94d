------------------------------ MODULE Manager -------------------------------
(***************************************************************************)
(* Manager::start in main.rs: the main loop, the only reader of the        *)
(* distributor and the only writer of `state`.  It handles one event at a  *)
(* time; the arm of StateUpdate writes `state` first and lets go of the    *)
(* connection in a second step, after the websockets have been told, so    *)
(* other tasks see the new state in between.                               *)
(***************************************************************************)
EXTENDS Bridge

VARIABLES
    main,          \* the main loop: "recv", "detach" inside an offline update, "panicked"
    bridge_thread  \* the bridge whose start task the manager holds the handle of

managerVars == <<main, bridge_thread>>

ManagerTypeOK ==
    /\ main \in {"recv", "detach", "panicked"}
    /\ bridge_thread \in Bridges \cup {None}

ManagerInit ==
    /\ main = "recv"
    /\ bridge_thread = None

\* try_recv() returned an event of this type.
Handles(type) ==
    /\ main = "recv"
    /\ distributor # <<>>
    /\ Head(distributor).type = type

\* The event is taken and e is sent to the distributor by its handler.
TakeAndSend(e) == distributor' = Append(Tail(distributor), e)
Take           == distributor' = Tail(distributor)

\* A bridge exists already: both it and the request are given up.
OnSecondCreateBridge ==
    /\ Handles("CreateBridge")
    /\ bridge_thread # None
    /\ TakeAndSend(CreateBridgeError)
    /\ UNCHANGED <<bridge_channel, state, managerVars, bridgeVars>>

\* A wrong OnCreateBridge: it does not look at bridge_thread.
OnCreateBridgeAnyway ==
    LET b == Head(distributor).bridge IN
    /\ Handles("CreateBridge")
    /\ Take
    /\ bridge_thread' = b
    /\ start_task' = [start_task EXCEPT ![b] = "spawned"]
    /\ UNCHANGED <<bridge_channel, state, main, timeout, listenerVars, print_info, readerVars>>

OnCreateBridge ==
    LET b == Head(distributor).bridge IN
    /\ Handles("CreateBridge")
    /\ bridge_thread = None
    /\ Take
    /\ bridge_thread' = b
    /\ start_task' = [start_task EXCEPT ![b] = "spawned"]
    /\ UNCHANGED <<bridge_channel, state, main, timeout, listenerVars, print_info, readerVars>>

\* start() never awaits: abort() only stops a task that has not begun.
Aborted(status) == IF status = "spawned" THEN "done" ELSE status

OnCreateBridgeError ==
    /\ Handles("CreateBridgeError")
    /\ TakeAndSend(Errored)
    /\ SendToBridge(KillBridge)
    /\ IF bridge_thread = None
       THEN main' = "panicked" /\ UNCHANGED <<bridge_thread, start_task>>
       ELSE /\ start_task' = [start_task EXCEPT ![bridge_thread] = Aborted(@)]
            /\ bridge_thread' = None
            /\ UNCHANGED main
    /\ UNCHANGED <<state, timeout, listenerVars, print_info, readerVars>>

OnStateUpdate ==
    LET new_state == Head(distributor).wrapper IN
    /\ Handles("StateUpdate")
    /\ Take
    /\ state' = new_state
    /\ main' = IF new_state.state \in Offline THEN "detach" ELSE "recv"
    /\ UNCHANGED <<bridge_channel, bridge_thread, bridgeVars>>

\* Wrong Detaches: the handle is kept; the listener is not told.
DetachKeepsThread ==
    /\ main = "detach"
    /\ SendToBridge(KillBridge)
    /\ main' = "recv"
    /\ UNCHANGED <<distributor, state, bridge_thread, bridgeVars>>

DetachWithoutKill ==
    /\ main = "detach"
    /\ bridge_thread' = None
    /\ main' = "recv"
    /\ UNCHANGED <<busVars, bridgeVars>>

Detach ==
    /\ main = "detach"
    /\ SendToBridge(KillBridge)
    /\ bridge_thread' = None
    /\ main' = "recv"
    /\ UNCHANGED <<distributor, state, bridgeVars>>

\* A message or the end of a print is handed on whether there is a bridge or not.
OnForwarded ==
    /\ Handles("PrintEnd") \/ Handles("OutGoingTerminalMessage")
    /\ Take
    /\ SendToBridge(Head(distributor))
    /\ UNCHANGED <<state, managerVars, bridgeVars>>

OnPrintStart ==
    /\ Handles("PrintStart")
    /\ Take
    /\ IF bridge_thread = None THEN UNCHANGED bridge_channel
                               ELSE SendToBridge(Head(distributor))
    /\ UNCHANGED <<state, managerVars, bridgeVars>>

ManagerStep ==
    \/ OnSecondCreateBridge
    \/ OnCreateBridge
    \/ OnCreateBridgeError
    \/ OnStateUpdate
    \/ Detach
    \/ OnForwarded
    \/ OnPrintStart
=============================================================================
