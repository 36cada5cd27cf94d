----------------------------- MODULE WebSockets -----------------------------
(***************************************************************************)
(* websocket_handler.rs and the part of the main loop that calls it: the   *)
(* map `sockets` of connected web clients, shared by                       *)
(*                                                                         *)
(*   handler  one task per client: registers its socket, sends "ready"     *)
(*   main     the manager's main loop: stores a state, tells every socket  *)
(*   checker  a loop that reads at most one message of every socket        *)
(*            each second and removes the sockets that are closed          *)
(*                                                                         *)
(* Two mutexes are involved.  Their guards are derived from the phases of  *)
(* the tasks: SocketsLocked and StateLocked.  A step is what a task does   *)
(* between two awaits at which another task can interfere.                 *)
(*                                                                         *)
(* Of a state only the BridgeState is kept; what a state update does to the*)
(* bridge is in Manager.  A message is "sent" when the socket takes it; a  *)
(* socket whose peer is gone may take messages until TCP notices.          *)
(***************************************************************************)
EXTENDS Naturals, Sequences, FiniteSets

CONSTANTS
    Clients,    \* websocket connections, each opened at most once
    None,
    Updates,    \* what other tasks report: states, or None for what is only broadcast
    MaxEvents,  \* bound: nothing new is reported while this many events are queued
    MaxInbox,   \* bound: unread messages of a client
    MayStall    \* whether a client may stop reading

\* PREPARING and FINISHING exist in the enum but nothing constructs them.
BridgeState == {"DISCONNECTED", "CONNECTED", "CONNECTING", "ERRORED", "PRINTING"}

ASSUME WebSocketsAssumption ==
    /\ Updates \subseteq BridgeState \cup {None}
    /\ None \notin BridgeState
    /\ MaxEvents \in Nat
    /\ MaxInbox \in Nat
    /\ MayStall \in BOOLEAN

\* What a client may send; any data message is like a text message.
ClientMessage == {"ping", "text", "close"}

VARIABLES
    state,     \* the BridgeState of the shared StateWrapper
    events,    \* to the main loop: a new state, or None for an event that is only broadcast
    main,      \* phase of the main loop
    message,   \* what it broadcasts: a state, or None for temperatures and terminal lines
    pending,   \* the sockets this broadcast has still to write to
    failed,    \* its delete_queue
    sockets,   \* the registered sockets
    stream,    \* "active", or "closed" once a Close was sent or received on it
    handler,   \* phase of the handler of each client
    snapshot,  \* the copy of the state it makes for "ready"
    checker,   \* phase of the checker
    unread,    \* the sockets this round has still to read from
    delete_queue,
    peer,      \* the client
    inbox,     \* what it has sent and nobody has read
    view       \* the last state it was told

mainVars    == <<main, message, pending, failed>>
handlerVars == <<handler, snapshot>>
checkerVars == <<checker, unread, delete_queue>>
clientVars  == <<peer, inbox>>
vars == <<state, events, mainVars, sockets, stream, handlerVars, checkerVars, clientVars, view>>

\* Shapes, and what the guards give: no socket is removed while main or the
\* checker iterates over the map.
TypeOK ==
    /\ state \in BridgeState
    /\ events \in Seq(BridgeState \cup {None})
    /\ main \in {"recv", "count", "wait", "sending", "removing"}
    /\ message \in BridgeState \cup {None}
    /\ pending \subseteq Clients
    /\ failed \subseteq Clients
    /\ sockets \subseteq Clients
    /\ stream \in [Clients -> {"active", "closed"}]
    /\ handler \in [Clients -> {"none", "upgraded", "inserted", "locked", "done", "panicked"}]
    /\ snapshot \in [Clients -> BridgeState \cup {None}]
    /\ checker \in {"sleep", "reading", "remove", "panicked"}
    /\ unread \subseteq Clients
    /\ delete_queue \subseteq Clients
    /\ peer \in [Clients -> {"out", "open", "stalled", "closing", "gone"}]
    /\ inbox \in [Clients -> Seq(ClientMessage)]
    /\ view \in [Clients -> BridgeState \cup {None}]
    /\ pending \subseteq sockets
    /\ unread \subseteq sockets
    /\ pending # {} => main = "sending"
    /\ unread # {} => checker = "reading"
    /\ main = "removing" <=> failed # {} /\ main # "sending"
    /\ message # None => main # "recv"

Init ==
    /\ state = "DISCONNECTED"
    /\ events = <<>>
    /\ main = "recv"
    /\ message = None
    /\ pending = {}
    /\ failed = {}
    /\ sockets = {}
    /\ stream = [c \in Clients |-> "active"]
    /\ handler = [c \in Clients |-> "none"]
    /\ snapshot = [c \in Clients |-> None]
    /\ checker = "sleep"
    /\ unread = {}
    /\ delete_queue = {}
    /\ peer = [c \in Clients |-> "out"]
    /\ inbox = [c \in Clients |-> <<>>]
    /\ view = [c \in Clients |-> None]

\* A wrong SocketsLocked: the checker works on the map without its guard.
LockedByMain == main = "sending"

\* The guard of `sockets` that main keeps for one broadcast, the checker for one round.
SocketsLocked == main = "sending" \/ checker = "reading"

\* A wrong StateLocked: the guard is dropped once the state is copied.
StateNeverLocked == FALSE

\* `let state_info = state_info.clone()` shadows the guard, which lives until
\* the handler returns.
StateLocked == \E c \in Clients : handler[c] = "locked"

\* The process-wide panic hook.
PanicHook == events' = Append(events, "ERRORED")

\* SinkExt::send: refused after a Close in either direction, and on a broken
\* connection; it does not return while the client's window is full.
CanTake(c)   == stream[c] = "active" /\ peer[c] # "stalled"
CanRefuse(c) == stream[c] = "closed" \/ peer[c] = "gone"

-----------------------------------------------------------------------------
(* The other tasks: a new state, or an event that is only broadcast.       *)

Report(s) ==
    /\ Len(events) < MaxEvents
    /\ events' = Append(events, s)
    /\ UNCHANGED <<state, mainVars, sockets, stream, handlerVars, checkerVars, clientVars, view>>

-----------------------------------------------------------------------------
(* The main loop.                                                          *)

\* send_websockets_updated_state, or the JSON of another event: what is broadcast.
Broadcasts(s) ==
    /\ message' = s
    /\ main' = "count"

\* A wrong OnStateUpdate: the new state is stored and nobody is told.
OnStateUpdateSilently ==
    /\ main = "recv"
    /\ events # <<>>
    /\ Head(events) # None
    /\ ~ StateLocked
    /\ state' = Head(events)
    /\ events' = Tail(events)
    /\ UNCHANGED <<mainVars, sockets, stream, handlerVars, checkerVars, clientVars, view>>

OnStateUpdate ==
    /\ main = "recv"
    /\ events # <<>>
    /\ Head(events) # None
    /\ ~ StateLocked
    /\ state' = Head(events)
    /\ events' = Tail(events)
    /\ Broadcasts(Head(events))
    /\ UNCHANGED <<pending, failed, sockets, stream, handlerVars, checkerVars, clientVars, view>>

OnBroadcastOnly ==
    /\ main = "recv"
    /\ events # <<>>
    /\ Head(events) = None
    /\ events' = Tail(events)
    /\ Broadcasts(None)
    /\ UNCHANGED <<state, pending, failed, sockets, stream, handlerVars, checkerVars, clientVars,
                   view>>

\* The broadcast goes on in phase s, or it is over.
MainGoesTo(s) ==
    /\ main' = s
    /\ message' = IF s = "recv" THEN None ELSE message

\* send_to_all_ws_clients: lock, return when there is nobody, unlock.
Count ==
    /\ main = "count"
    /\ ~ SocketsLocked
    /\ MainGoesTo(IF sockets = {} THEN "recv" ELSE "wait")
    /\ UNCHANGED <<state, events, pending, failed, sockets, stream, handlerVars,
                   checkerVars, clientVars, view>>

\* It locks again and writes to whoever is registered by now.
LockSockets ==
    /\ main = "wait"
    /\ ~ SocketsLocked
    /\ main' = "sending"
    /\ pending' = sockets
    /\ UNCHANGED <<state, events, message, failed, sockets, stream, handlerVars, checkerVars,
                   clientVars, view>>

\* Wrong SendTo: the result is ignored; a failed send is tried again.
SendToUnchecked(c) ==
    /\ main = "sending"
    /\ c \in pending
    /\ pending' = pending \ {c}
    /\ \/ /\ CanTake(c)
          /\ view' = IF message = None THEN view ELSE [view EXCEPT ![c] = message]
       \/ CanRefuse(c) /\ UNCHANGED view
    /\ UNCHANGED <<state, events, main, message, failed, sockets, stream, handlerVars,
                   checkerVars, clientVars>>

SendToRetries(c) ==
    /\ main = "sending"
    /\ c \in pending
    /\ CanTake(c)
    /\ pending' = pending \ {c}
    /\ view' = IF message = None THEN view ELSE [view EXCEPT ![c] = message]
    /\ UNCHANGED <<state, events, main, message, failed, sockets, stream, handlerVars,
                   checkerVars, clientVars>>

SendTo(c) ==
    /\ main = "sending"
    /\ c \in pending
    /\ pending' = pending \ {c}
    /\ \/ /\ CanTake(c)
          /\ view' = IF message = None THEN view ELSE [view EXCEPT ![c] = message]
          /\ UNCHANGED failed
       \/ /\ CanRefuse(c)
          /\ failed' = failed \cup {c}
          /\ UNCHANGED view
    /\ UNCHANGED <<state, events, main, message, sockets, stream, handlerVars, checkerVars,
                   clientVars>>

UnlockSockets ==
    /\ main = "sending"
    /\ pending = {}
    /\ MainGoesTo(IF failed = {} THEN "recv" ELSE "removing")
    /\ UNCHANGED <<state, events, pending, failed, sockets, stream, handlerVars,
                   checkerVars, clientVars, view>>

\* One lock for each socket; without a Close to it, it is gone already.
RemoveFailed(c) ==
    /\ main = "removing"
    /\ c \in failed
    /\ ~ SocketsLocked
    /\ sockets' = sockets \ {c}
    /\ failed' = failed \ {c}
    /\ MainGoesTo(IF failed = {c} THEN "recv" ELSE "removing")
    /\ UNCHANGED <<state, events, pending, stream, handlerVars, checkerVars, clientVars,
                   view>>

MainStep ==
    \/ OnStateUpdate
    \/ OnBroadcastOnly
    \/ Count
    \/ LockSockets
    \/ UnlockSockets
    \/ \E c \in Clients : SendTo(c) \/ RemoveFailed(c)

-----------------------------------------------------------------------------
(* handler: runs once the request has been upgraded.                       *)

Insert(c) ==
    /\ handler[c] = "upgraded"
    /\ ~ SocketsLocked
    /\ sockets' = sockets \cup {c}
    /\ handler' = [handler EXCEPT ![c] = "inserted"]
    /\ UNCHANGED <<state, events, mainVars, stream, snapshot, checkerVars, clientVars, view>>

LockState(c) ==
    /\ handler[c] = "inserted"
    /\ ~ StateLocked
    /\ handler' = [handler EXCEPT ![c] = "locked"]
    /\ snapshot' = [snapshot EXCEPT ![c] = state]
    /\ UNCHANGED <<state, events, mainVars, sockets, stream, checkerVars, clientVars, view>>

HandlerReturns(c, s) ==
    /\ handler' = [handler EXCEPT ![c] = s]
    /\ snapshot' = [snapshot EXCEPT ![c] = None]

\* The socket is looked up again: it may have been removed since.
SendReady(c) ==
    /\ handler[c] = "locked"
    /\ ~ SocketsLocked
    /\ \/ /\ c \notin sockets
          /\ HandlerReturns(c, "done")
          /\ UNCHANGED <<view, events>>
       \/ /\ c \in sockets
          /\ CanTake(c)
          /\ view' = [view EXCEPT ![c] = snapshot[c]]
          /\ HandlerReturns(c, "done")
          /\ UNCHANGED events
       \/ /\ c \in sockets
          /\ CanRefuse(c)
          /\ HandlerReturns(c, "panicked")
          /\ PanicHook
          /\ UNCHANGED view
    /\ UNCHANGED <<state, mainVars, sockets, stream, checkerVars, clientVars>>

HandlerStep(c) == Insert(c) \/ LockState(c) \/ SendReady(c)

-----------------------------------------------------------------------------
(* check_incoming_messages, called in a loop that sleeps for a second.     *)

StartRound ==
    /\ checker = "sleep"
    /\ ~ SocketsLocked
    /\ checker' = "reading"
    /\ unread' = sockets
    /\ delete_queue' = {}
    /\ UNCHANGED <<state, events, mainVars, sockets, stream, handlerVars, clientVars, view>>

Reads(c) ==
    /\ checker = "reading"
    /\ c \in unread

ReadsMessage(c, m) ==
    /\ Reads(c)
    /\ inbox[c] # <<>>
    /\ Head(inbox[c]) = m
    /\ inbox' = [inbox EXCEPT ![c] = Tail(@)]

ReadsNothing(c) ==
    /\ Reads(c)
    /\ inbox[c] = <<>>
    /\ peer[c] # "gone"
    /\ unread' = unread \ {c}
    /\ UNCHANGED <<state, events, mainVars, sockets, stream, handlerVars, checker, delete_queue,
                   clientVars, view>>

\* A wrong ReadsError: it is logged, the socket stays.
ReadsErrorAndKeeps(c) ==
    /\ Reads(c)
    /\ inbox[c] = <<>>
    /\ peer[c] = "gone"
    /\ unread' = unread \ {c}
    /\ UNCHANGED <<state, events, mainVars, sockets, stream, handlerVars, checker, delete_queue,
                   clientVars, view>>

ReadsError(c) ==
    /\ Reads(c)
    /\ inbox[c] = <<>>
    /\ peer[c] = "gone"
    /\ unread' = unread \ {c}
    /\ delete_queue' = delete_queue \cup {c}
    /\ UNCHANGED <<state, events, mainVars, sockets, stream, handlerVars, checker, clientVars,
                   view>>

ReadsClose(c) ==
    /\ ReadsMessage(c, "close")
    /\ stream' = [stream EXCEPT ![c] = "closed"]
    /\ unread' = unread \ {c}
    /\ delete_queue' = delete_queue \cup {c}
    /\ UNCHANGED <<state, events, mainVars, sockets, handlerVars, checker, peer, view>>

\* The answer that cannot be sent ends the loop, and what it has queued is lost.
ReadsPing(c) ==
    /\ ReadsMessage(c, "ping")
    /\ \/ /\ CanTake(c)
          /\ unread' = unread \ {c}
          /\ UNCHANGED <<events, checker, delete_queue>>
       \/ /\ CanRefuse(c)
          /\ PanicHook
          /\ checker' = "panicked"
          /\ unread' = {}
          /\ delete_queue' = {}
    /\ UNCHANGED <<state, mainVars, sockets, stream, handlerVars, peer, view>>

\* Closed as unsupported, but left registered; whether the Close can be sent
\* is ignored.
ReadsText(c) ==
    /\ ReadsMessage(c, "text")
    /\ CanTake(c) \/ CanRefuse(c)
    /\ stream' = [stream EXCEPT ![c] = "closed"]
    /\ unread' = unread \ {c}
    /\ UNCHANGED <<state, events, mainVars, sockets, handlerVars, checker, delete_queue, peer,
                   view>>

EndReading ==
    /\ checker = "reading"
    /\ unread = {}
    /\ checker' = "remove"
    /\ UNCHANGED <<state, events, mainVars, sockets, stream, handlerVars, unread, delete_queue,
                   clientVars, view>>

\* A second lock; the sockets a broadcast has removed meanwhile are skipped.
RemoveClosed ==
    /\ checker = "remove"
    /\ ~ SocketsLocked
    /\ \A c \in delete_queue \cap sockets : CanTake(c) \/ CanRefuse(c)
    /\ sockets' = sockets \ delete_queue
    /\ stream' = [c \in Clients |->
                    IF c \in delete_queue \cap sockets THEN "closed" ELSE stream[c]]
    /\ delete_queue' = {}
    /\ checker' = "sleep"
    /\ UNCHANGED <<state, events, mainVars, handlerVars, unread, clientVars, view>>

CheckerStep ==
    \/ StartRound
    \/ EndReading
    \/ RemoveClosed
    \/ \E c \in Clients :
         \/ ReadsNothing(c)
         \/ ReadsError(c)
         \/ ReadsClose(c)
         \/ ReadsPing(c)
         \/ ReadsText(c)

-----------------------------------------------------------------------------
(* The clients.                                                            *)

Connects(c) ==
    /\ peer[c] = "out"
    /\ peer' = [peer EXCEPT ![c] = "open"]
    /\ handler' = [handler EXCEPT ![c] = "upgraded"]
    /\ UNCHANGED <<state, events, mainVars, sockets, stream, snapshot, checkerVars, inbox, view>>

\* What a client does after its socket was dropped reaches nobody.
Served(c) == c \in sockets \/ handler[c] = "upgraded"

ClientSends(c, m) ==
    /\ peer[c] = "open"
    /\ Served(c)
    /\ Len(inbox[c]) < MaxInbox
    /\ inbox' = [inbox EXCEPT ![c] = Append(@, m)]
    /\ peer' = IF m = "close" THEN [peer EXCEPT ![c] = "closing"] ELSE peer
    /\ UNCHANGED <<state, events, mainVars, sockets, stream, handlerVars, checkerVars, view>>

PeerBecomes(c, s) ==
    /\ peer' = [peer EXCEPT ![c] = s]
    /\ UNCHANGED <<state, events, mainVars, sockets, stream, handlerVars, checkerVars, inbox, view>>

\* The connection breaks: no Close, no answer.
Leaves(c) ==
    /\ peer[c] \in {"open", "stalled", "closing"}
    /\ Served(c)
    /\ PeerBecomes(c, "gone")

\* It stops reading and its window fills, or it reads on.
Stalls(c)  == MayStall /\ peer[c] = "open" /\ Served(c) /\ PeerBecomes(c, "stalled")
Resumes(c) == peer[c] = "stalled" /\ PeerBecomes(c, "open")

ClientStep(c) ==
    \/ Connects(c)
    \/ \E m \in ClientMessage : ClientSends(c, m)
    \/ Leaves(c)
    \/ Stalls(c)
    \/ Resumes(c)

-----------------------------------------------------------------------------
Next ==
    \/ \E s \in Updates : Report(s)
    \/ MainStep
    \/ CheckerStep
    \/ \E c \in Clients : HandlerStep(c) \/ ClientStep(c)

Spec == Init /\ [][Next]_vars

(***************************************************************************)
(* The runtime goes on with every task that is not waiting; tokio's mutexes*)
(* are handed out first come, first served, so that a task that waits for a*)
(* lock gets it although others take it again and again.  Clients owe the  *)
(* server nothing: they need not read, answer or leave.                    *)
(***************************************************************************)
Fairness ==
    /\ SF_vars(MainStep)
    /\ SF_vars(CheckerStep)
    /\ \A c \in Clients : SF_vars(HandlerStep(c))

FairSpec == Spec /\ Fairness

-----------------------------------------------------------------------------
(* Safety                                                                  *)

V == INSTANCE Views WITH States <- BridgeState

\* Every state a client is told, by "ready" or by a broadcast, is the one the
\* server is in when it is told: the handler keeps the guard of the state until
\* "ready" is sent, so no update is stored in between and then overtaken
\* (websocket_handler.rs 71-148, main.rs 193-194).
ImplementsViews == V!Spec

\* Between two events of the main loop every client that is registered, and
\* whose handler has come to its end, knows the current state: nobody is missed
\* by a broadcast that runs while it connects, and whoever could not be told is
\* no longer registered (websocket_handler.rs 37, 71-148, 217-250).
ToldCurrent ==
    main = "recv" =>
        \A c \in sockets : handler[c] = "done" => view[c] = state

-----------------------------------------------------------------------------
(* Liveness                                                                *)

Stalled == \E c \in Clients : peer[c] = "stalled"

\* The main loop comes back to its events again and again, unless some client
\* stops reading for good: the locks of `state` and `sockets`, which handlers,
\* broadcasts and checker take in turn, block nobody for ever (main.rs 188-201,
\* websocket_handler.rs 71-148, 153-250).
MainReturns == []<>(main = "recv") \/ <>[]Stalled

\* The socket of a client whose connection broke does not stay registered, as
\* long as the checker is alive (websocket_handler.rs 153-205).
GoneIsRemoved ==
    \A c \in Clients :
        peer[c] = "gone" ~> (Stalled \/ [](c \notin sockets \/ checker = "panicked"))

\* A registered client that does not know the current state is told, by its
\* handler or by a broadcast, or it is dropped; not while somebody stops reading
\* (websocket_handler.rs 29-151, 217-250).
EverybodyLearns ==
    \A c \in Clients :
        c \in sockets /\ view[c] # state ~> c \notin sockets \/ view[c] = state \/ Stalled

-----------------------------------------------------------------------------
(* What the comments and messages of the code promise.                     *)

\* websocket_handler.rs 25: "state: current state arc, used for sending intial
\* ready event."  The first thing a client is told of the state is "ready".
ReadyIsFirst ==
    [][\A c \in Clients :
         view[c] = None /\ view'[c] # None => handler[c] = "locked"]_vars

\* websocket_handler.rs 178: expect("Cannot send message").  The checker can
\* always answer a ping; if not, its loop (main.rs 114-118) has ended for good.
PongCanBeSent == checker # "panicked"
=============================================================================
