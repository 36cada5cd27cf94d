-------------------------- MODULE WebSocketsProofs --------------------------
(***************************************************************************)
(* For any number of clients: TypeOK, ToldCurrent, and that WebSockets     *)
(* implements Views.                                                       *)
(*                                                                         *)
(* ToldCurrent is not inductive: during a broadcast some clients have not  *)
(* been told yet.  Inv says which ones those may be in each phase of the   *)
(* main loop, and that a copy of the state a handler made is still current.*)
(***************************************************************************)
EXTENDS WebSockets, TLAPS

USE WebSocketsAssumption DEF BridgeState

\* The queue of events stays one when an event is appended or the head taken.
LEMMA Queues ==
    ASSUME NEW q \in Seq(BridgeState \cup {None})
    PROVE  /\ \A e \in BridgeState \cup {None} : Append(q, e) \in Seq(BridgeState \cup {None})
           /\ q # <<>> => /\ Head(q) \in BridgeState \cup {None}
                         /\ Tail(q) \in Seq(BridgeState \cup {None})
OBVIOUS

\* And when a panic is reported.
LEMMA Hook ==
    ASSUME TypeOK, PanicHook
    PROVE  events' \in Seq(BridgeState \cup {None})
BY Queues DEF TypeOK, PanicHook

\* The same for what a client has sent.
LEMMA Inboxes ==
    ASSUME TypeOK, NEW c \in Clients
    PROVE  /\ \A m \in ClientMessage : Append(inbox[c], m) \in Seq(ClientMessage)
           /\ inbox[c] # <<>> => Tail(inbox[c]) \in Seq(ClientMessage)
BY DEF TypeOK

\* A client the broadcast in progress will still reach, or has to drop.
Concerned(c) ==
    \/ c \in failed
    \/ main \in {"count", "wait"} /\ message = state
    \/ main = "sending" /\ message = state /\ c \in pending

Inv ==
    /\ \A c \in Clients : handler[c] = "locked" => snapshot[c] = state
    /\ message # None => message = state
    /\ \A c \in sockets : handler[c] = "done" => view[c] = state \/ Concerned(c)

\* The main loop keeps the types.
LEMMA MainTypes ==
    ASSUME TypeOK, MainStep
    PROVE  TypeOK'
<1> USE DEF TypeOK, mainVars, handlerVars, checkerVars, clientVars
<1>1. CASE OnStateUpdate
  BY <1>1, Queues DEF OnStateUpdate, Broadcasts
<1>2. CASE OnBroadcastOnly
  BY <1>2, Queues DEF OnBroadcastOnly, Broadcasts
<1>3. CASE Count
  BY <1>3 DEF Count, MainGoesTo
<1>4. CASE LockSockets
  BY <1>4 DEF LockSockets
<1>5. CASE UnlockSockets
  BY <1>5 DEF UnlockSockets, MainGoesTo
<1>6. ASSUME NEW c \in Clients, SendTo(c)
      PROVE  TypeOK'
  BY <1>6 DEF SendTo
<1>7. ASSUME NEW c \in Clients, RemoveFailed(c)
      PROVE  TypeOK'
  BY <1>7 DEF RemoveFailed, MainGoesTo, SocketsLocked
<1> QED
  BY <1>1, <1>2, <1>3, <1>4, <1>5, <1>6, <1>7 DEF MainStep

\* So does the checker.
LEMMA CheckerTypes ==
    ASSUME TypeOK, CheckerStep
    PROVE  TypeOK'
<1> USE DEF TypeOK, mainVars, handlerVars, checkerVars, clientVars
<1>1. CASE StartRound
  BY <1>1 DEF StartRound
<1>2. CASE EndReading
  BY <1>2 DEF EndReading
<1>3. CASE RemoveClosed
  BY <1>3 DEF RemoveClosed, SocketsLocked
<1>4. ASSUME NEW c \in Clients, ReadsNothing(c) \/ ReadsError(c)
      PROVE  TypeOK'
  BY <1>4 DEF ReadsNothing, ReadsError, Reads
<1>5. ASSUME NEW c \in Clients, ReadsClose(c) \/ ReadsPing(c) \/ ReadsText(c)
      PROVE  TypeOK'
  <2> PICK m \in ClientMessage : ReadsMessage(c, m)
    BY <1>5 DEF ReadsClose, ReadsPing, ReadsText, ClientMessage
  <2>1. inbox' \in [Clients -> Seq(ClientMessage)] /\ checker = "reading"
    <3>1. inbox[c] # <<>> /\ inbox' = [inbox EXCEPT ![c] = Tail(inbox[c])] /\ checker = "reading"
      BY DEF ReadsMessage, Reads
    <3> QED
      BY <3>1, Inboxes
  <2>2. events' \in Seq(BridgeState \cup {None})
    <3>1. UNCHANGED events \/ PanicHook
      BY <1>5 DEF ReadsClose, ReadsPing, ReadsText
    <3> QED
      BY <3>1, Hook
  <2>3. UNCHANGED <<state, mainVars, sockets, handlerVars, peer, view>>
    BY <1>5 DEF ReadsClose, ReadsPing, ReadsText
  <2>4. /\ stream' \in [Clients -> {"active", "closed"}]
        /\ checker' \in {"reading", "panicked"}
        /\ unread' \subseteq unread
        /\ checker' = "panicked" => unread' = {}
        /\ delete_queue' \subseteq Clients
    BY <1>5, <2>1 DEF ReadsClose, ReadsPing, ReadsText
  <2> QED
    BY <2>1, <2>2, <2>3, <2>4
<1> QED
  BY <1>1, <1>2, <1>3, <1>4, <1>5 DEF CheckerStep

\* And the handlers, the clients and the other tasks.
LEMMA OtherTypes ==
    ASSUME TypeOK,
           \/ \E s \in Updates : Report(s)
           \/ \E c \in Clients : HandlerStep(c) \/ ClientStep(c)
    PROVE  TypeOK'
<1> USE DEF TypeOK, mainVars, handlerVars, checkerVars, clientVars
<1>1. ASSUME NEW s \in Updates, Report(s)
      PROVE  TypeOK'
  BY <1>1, Queues DEF Report
<1>2. ASSUME NEW c \in Clients, Insert(c)
      PROVE  TypeOK'
  BY <1>2 DEF Insert
<1>3. ASSUME NEW c \in Clients, LockState(c)
      PROVE  TypeOK'
  BY <1>3 DEF LockState
<1>4. ASSUME NEW c \in Clients, SendReady(c)
      PROVE  TypeOK'
  <2>1. events' \in Seq(BridgeState \cup {None})
    <3>1. UNCHANGED events \/ PanicHook
      BY <1>4 DEF SendReady
    <3> QED
      BY <3>1, Hook
  <2>2. /\ handler' \in [Clients -> {"none", "upgraded", "inserted", "locked", "done", "panicked"}]
        /\ snapshot' \in [Clients -> BridgeState \cup {None}]
    BY <1>4 DEF SendReady, HandlerReturns
  <2>3. view' \in [Clients -> BridgeState \cup {None}]
    BY <1>4 DEF SendReady
  <2>4. UNCHANGED <<state, mainVars, sockets, stream, checkerVars, clientVars>>
    BY <1>4 DEF SendReady
  <2> QED
    BY <2>1, <2>2, <2>3, <2>4
<1>5. ASSUME NEW c \in Clients, Connects(c)
      PROVE  TypeOK'
  BY <1>5 DEF Connects
<1>6. ASSUME NEW c \in Clients, NEW m \in ClientMessage, ClientSends(c, m)
      PROVE  TypeOK'
  BY <1>6, Inboxes DEF ClientSends
<1>7. ASSUME NEW c \in Clients, Leaves(c) \/ Stalls(c) \/ Resumes(c)
      PROVE  TypeOK'
  <2>1. PICK s \in {"gone", "stalled", "open"} : PeerBecomes(c, s)
    BY <1>7 DEF Leaves, Stalls, Resumes
  <2> QED
    BY <2>1 DEF PeerBecomes
<1> QED
  BY <1>1, <1>2, <1>3, <1>4, <1>5, <1>6, <1>7 DEF HandlerStep, ClientStep

\* Every variable keeps its type and main and the checker iterate over sockets
\* that stay registered while they do.
THEOREM WebSocketsTypeCorrect == Spec => []TypeOK
<1>1. Init => TypeOK
  BY DEF Init, TypeOK
<1>2. TypeOK /\ [Next]_vars => TypeOK'
  <2> SUFFICES ASSUME TypeOK, [Next]_vars
               PROVE  TypeOK'
    OBVIOUS
  <2>1. CASE UNCHANGED vars
    BY <2>1 DEF vars, mainVars, handlerVars, checkerVars, clientVars, TypeOK
  <2> QED
    BY <2>1, MainTypes, CheckerTypes, OtherTypes DEF Next
<1> QED
  BY <1>1, <1>2, PTL DEF Spec

\* The main loop: it stores a state and then tells it to everybody concerned.
LEMMA MainKeeps ==
    ASSUME TypeOK, Inv, MainStep
    PROVE  Inv'
<1> USE DEF TypeOK, Inv, Concerned, mainVars, handlerVars, checkerVars, clientVars
<1>1. CASE OnStateUpdate
  <2>1. ~ StateLocked
    BY <1>1 DEF OnStateUpdate, Broadcasts
  <2> QED
    BY <1>1, <2>1 DEF OnStateUpdate, Broadcasts, StateLocked
<1>2. CASE OnBroadcastOnly
  BY <1>2 DEF OnBroadcastOnly, Broadcasts
<1>3. CASE Count
  BY <1>3 DEF Count, MainGoesTo
<1>4. CASE LockSockets
  BY <1>4 DEF LockSockets
<1>5. CASE UnlockSockets
  BY <1>5 DEF UnlockSockets, MainGoesTo
<1>6. ASSUME NEW c \in Clients, SendTo(c)
      PROVE  Inv'
  BY <1>6 DEF SendTo
<1>7. ASSUME NEW c \in Clients, RemoveFailed(c)
      PROVE  Inv'
  BY <1>7 DEF RemoveFailed, MainGoesTo
<1> QED
  BY <1>1, <1>2, <1>3, <1>4, <1>5, <1>6, <1>7 DEF MainStep

\* The handlers: "ready" carries the current state.
LEMMA HandlerKeeps ==
    ASSUME TypeOK, Inv, NEW c \in Clients, HandlerStep(c)
    PROVE  Inv'
<1> USE DEF TypeOK, Inv, Concerned, mainVars, handlerVars, checkerVars, clientVars
<1>1. CASE Insert(c)
  BY <1>1 DEF Insert
<1>2. CASE LockState(c)
  BY <1>2 DEF LockState
<1>3. CASE SendReady(c)
  BY <1>3 DEF SendReady, HandlerReturns
<1> QED
  BY <1>1, <1>2, <1>3 DEF HandlerStep

\* What neither registers nor tells anybody, nor changes the state, is harmless.
LEMMA OthersKeep ==
    ASSUME TypeOK, Inv,
           UNCHANGED <<state, mainVars, snapshot, view>>,
           sockets' \subseteq sockets,
           \A c \in Clients : handler'[c] \in {"locked", "done"} => handler'[c] = handler[c]
    PROVE  Inv'
BY DEF TypeOK, Inv, Concerned, mainVars

\* The checker, the clients and the other tasks are like that.
LEMMA OthersAreHarmless ==
    ASSUME TypeOK,
           \/ CheckerStep
           \/ \E s \in Updates : Report(s)
           \/ \E c \in Clients : ClientStep(c)
    PROVE  /\ UNCHANGED <<state, mainVars, snapshot, view>>
           /\ sockets' \subseteq sockets
           /\ \A c \in Clients : handler'[c] \in {"locked", "done"} => handler'[c] = handler[c]
<1> USE DEF TypeOK, handlerVars, clientVars
<1>1. CASE CheckerStep
  BY <1>1 DEF CheckerStep, StartRound, EndReading, RemoveClosed, ReadsNothing, ReadsError,
              ReadsClose, ReadsPing, ReadsText
<1>2. CASE \E s \in Updates : Report(s)
  BY <1>2 DEF Report
<1>3. ASSUME NEW c \in Clients, ClientStep(c)
      PROVE  /\ UNCHANGED <<state, mainVars, snapshot, view>>
             /\ sockets' \subseteq sockets
             /\ \A d \in Clients : handler'[d] \in {"locked", "done"} => handler'[d] = handler[d]
  BY <1>3 DEF ClientStep, Connects, ClientSends, Leaves, Stalls, Resumes, PeerBecomes
<1> QED
  BY <1>1, <1>2, <1>3

\* Inv is an invariant.
LEMMA InvIsInvariant == Spec => []Inv
<1>1. Init => Inv
  BY DEF Init, Inv
<1>2. TypeOK /\ Inv /\ [Next]_vars => Inv'
  <2> SUFFICES ASSUME TypeOK, Inv, [Next]_vars
               PROVE  Inv'
    OBVIOUS
  <2>1. CASE UNCHANGED vars
    BY <2>1 DEF vars, mainVars, handlerVars, Inv, Concerned
  <2> QED
    BY <2>1, MainKeeps, HandlerKeeps, OthersKeep, OthersAreHarmless DEF Next
<1> QED
  BY <1>1, <1>2, WebSocketsTypeCorrect, PTL DEF Spec

\* Whatever the number of clients, and whenever they come and go: between two
\* events of the main loop whoever is registered has been told the state.
THEOREM ClientsToldCurrent == Spec => []ToldCurrent
<1>1. TypeOK /\ Inv => ToldCurrent
  BY DEF TypeOK, Inv, Concerned, ToldCurrent
<1> QED
  BY <1>1, WebSocketsTypeCorrect, InvIsInvariant, PTL

\* WebSockets implements Views: every step changes the state, tells one client
\* the current one, or is invisible.
THEOREM Implementation == Spec => ImplementsViews
<1>1. Init => V!Init
  BY DEF Init, V!Init
<1>2. TypeOK /\ Inv /\ [Next]_vars => [V!Next]_<<state, view>>
  <2> SUFFICES ASSUME TypeOK, Inv, [Next]_vars
               PROVE  [V!Next]_<<state, view>>
    OBVIOUS
  <2>1. CASE OnStateUpdate
    BY <2>1 DEF OnStateUpdate, V!Next, V!Changes, TypeOK
  <2>2. ASSUME NEW c \in Clients, SendTo(c)
        PROVE  [V!Next]_<<state, view>>
    BY <2>2 DEF SendTo, Inv, V!Next, V!Told
  <2>3. ASSUME NEW c \in Clients, SendReady(c)
        PROVE  [V!Next]_<<state, view>>
    BY <2>3 DEF SendReady, Inv, V!Next, V!Told
  <2>4. ASSUME \/ OnBroadcastOnly \/ Count \/ LockSockets \/ UnlockSockets
               \/ \E c \in Clients : RemoveFailed(c) \/ Insert(c) \/ LockState(c)
        PROVE  UNCHANGED <<state, view>>
    BY <2>4 DEF OnBroadcastOnly, Count, LockSockets, UnlockSockets, RemoveFailed, Insert, LockState
  <2>5. CASE UNCHANGED vars
    BY <2>5 DEF vars
  <2> QED
    BY <2>1, <2>2, <2>3, <2>4, <2>5, OthersAreHarmless DEF Next, MainStep, HandlerStep
<1> QED
  BY <1>1, <1>2, WebSocketsTypeCorrect, InvIsInvariant, PTL DEF Spec, V!Spec, ImplementsViews
=============================================================================
