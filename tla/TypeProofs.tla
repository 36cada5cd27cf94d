----------------------------- MODULE TypeProofs -----------------------------
(***************************************************************************)
(* What every step of Server does, in three parts.                         *)
(*   Events: facts about the events and the two channels.                  *)
(*   Types: TypeOK is an inductive invariant; every handler finds what it  *)
(*     reads in the shape its code relies on, and leaves it so.            *)
(*   Steps: what each task can do to the distributor, to the prints and to *)
(*     `state`.  Only the main loop takes events and writes `state`; every *)
(*     other task appends one event at most, and what it says about a      *)
(*     print is true.                                                      *)
(***************************************************************************)
EXTENDS Server, SequenceTheorems, TLAPS

\* The constructors build events: each sender of models.rs's send() is typed.
LEMMA Constructors ==
    /\ \A s \in BridgeState, r \in Requests \cup {None} : StateUpdate(s, r) \in EventType
    /\ \A b \in Bridges : CreateBridge(b) \in EventType
    /\ {CreateBridgeError, KillBridge, PrintEnd} \subseteq EventType
    /\ \A info \in PrintInfo : PrintStart(info) \in EventType
    /\ \A m \in Message : OutGoing(m) \in EventType
    /\ Errored \in EventType
BY DEF StateUpdate, CreateBridge, CreateBridgeError, KillBridge, PrintEnd, PrintStart, OutGoing,
       Errored, EventType, StateWrapper, Wrapper, BridgeState

\* The messages for the printer are typed.
LEMMA Messages ==
    /\ \A c \in Commands, r \in Requests \cup {None} : Command(c, r) \in Message
    /\ \A p \in Prints, k \in Nat : NumberedLine(p, k) \in Message
BY DEF Command, NumberedLine, Message

\* What the type field of an event says about the rest of it.
LEMMA Payloads ==
    ASSUME NEW e \in EventType
    PROVE  /\ e.type = "StateUpdate" => e.wrapper \in StateWrapper
           /\ e.type = "CreateBridge" => e.bridge \in Bridges
           /\ e.type = "PrintStart" => e.info \in PrintInfo
           /\ e.type = "OutGoingTerminalMessage" => e.message \in Message
BY DEF EventType

\* A queue of events stays one when an event is appended or the head taken.
LEMMA Queues ==
    ASSUME NEW q \in Seq(EventType)
    PROVE  /\ \A e \in EventType : Append(q, e) \in Seq(EventType)
           /\ q # <<>> => Head(q) \in EventType /\ Tail(q) \in Seq(EventType)
OBVIOUS

-----------------------------------------------------------------------------
(* Types                                                                   *)

\* The main loop.
LEMMA ManagerTypes ==
    ASSUME TypeOK, ManagerNext
    PROVE  TypeOK'
<1> USE DEF TypeOK, BusTypeOK, ManagerTypeOK, BridgeTypeOK, RoutesTypeOK, routesVars, busVars,
            managerVars, bridgeVars, startVars, listenerVars, readerVars, setupVars, Locked,
            ListenerState, ReaderState, Working
<1>1. CASE OnSecondCreateBridge
  BY <1>1, ManagerNext, Constructors, Queues
     DEF ManagerNext, OnSecondCreateBridge, Handles, TakeAndSend
<1>2. CASE OnCreateBridge
  BY <1>2, ManagerNext, Payloads, Queues DEF ManagerNext, OnCreateBridge, Handles, Take
<1>3. CASE OnCreateBridgeError
  <2>1. distributor' \in Seq(EventType) /\ bridge_channel' \in Seq(EventType)
    BY <1>3, Constructors, Queues DEF OnCreateBridgeError, Handles, TakeAndSend, SendToBridge
  <2>2. ManagerTypeOK' /\ start_task' \in [Bridges -> {"none", "spawned", "opening", "opened",
                                                         "done"}]
    <3>1. CASE bridge_thread = None
      BY <1>3, <3>1 DEF OnCreateBridgeError
    <3>2. CASE bridge_thread # None
      <4>1. Aborted(start_task[bridge_thread]) \in {"none", "spawned", "opening", "opened",
                                                    "done"}
        BY <3>2 DEF Aborted
      <4> QED
        BY <1>3, <3>2, <4>1 DEF OnCreateBridgeError
    <3> QED
      BY <3>1, <3>2
  <2>3. UNCHANGED <<state, timeout, listenerVars, print_info, readerVars, routesVars>>
    BY <1>3, ManagerNext DEF ManagerNext, OnCreateBridgeError
  <2> QED
    BY <2>1, <2>2, <2>3
<1>4. CASE OnStateUpdate
  BY <1>4, ManagerNext, Payloads, Queues DEF ManagerNext, OnStateUpdate, Handles, Take
<1>5. CASE Detach
  BY <1>5, ManagerNext, Constructors, Queues DEF ManagerNext, Detach, SendToBridge
<1>6. CASE OnForwarded
  BY <1>6, ManagerNext, Queues DEF ManagerNext, OnForwarded, Handles, Take, SendToBridge
<1>7. CASE OnPrintStart
  BY <1>7, ManagerNext, Queues DEF ManagerNext, OnPrintStart, Handles, Take, SendToBridge
<1> QED
  BY ManagerNext, <1>1, <1>2, <1>3, <1>4, <1>5, <1>6, <1>7 DEF ManagerNext, ManagerStep

\* The start task and the events it sends.
LEMMA StartTypes ==
    ASSUME TypeOK, NEW b \in Bridges, StartStep(b), UNCHANGED <<managerVars, routesVars>>
    PROVE  TypeOK'
<1> USE DEF TypeOK, BusTypeOK, ManagerTypeOK, BridgeTypeOK, RoutesTypeOK, routesVars, busVars,
            managerVars, bridgeVars, startVars, listenerVars, readerVars, setupVars, Locked,
            ListenerState, ReaderState, Working
<1>1. CASE StartAnnounces(b)
  BY <1>1, Constructors, Queues
     DEF StartAnnounces, Send, BridgeState, Bridges
<1>2. CASE OpenSucceeds(b)
  BY <1>2
     DEF OpenSucceeds
<1>3. CASE StartAsksFirmware(b)
  BY <1>3, Constructors, Messages, Queues
     DEF StartAsksFirmware, Send, Commands
<1>4. CASE OpenFails(b)
  BY <1>4, Constructors, Queues
     DEF OpenFails, Send
<1>5. CASE OpenPanics(b)
  BY <1>5, Constructors, Queues
     DEF OpenPanics, Send, PanicHook, BridgeState
<1> QED
  BY <1>1, <1>2, <1>3, <1>4, <1>5 DEF StartStep

\* The timer.
LEMMA TimeoutTypes ==
    ASSUME TypeOK, NEW b \in Bridges, TimeoutStep(b), UNCHANGED <<managerVars, routesVars>>
    PROVE  TypeOK'
<1> USE DEF TypeOK, BusTypeOK, ManagerTypeOK, BridgeTypeOK, RoutesTypeOK, routesVars, busVars,
            managerVars, bridgeVars, startVars, listenerVars, readerVars, setupVars, Locked,
            ListenerState, ReaderState, Working
<1>1. CASE TimeoutElapses(b)
  BY <1>1
     DEF TimeoutElapses
<1>2. CASE TimeoutReports(b)
  BY <1>2, Constructors, Queues
     DEF TimeoutReports, Send
<1> QED
  BY <1>1, <1>2 DEF TimeoutStep

\* parse_responses yields an action, and Error only without a number.
LEMMA Parsed ==
    ASSUME NEW responses \in Seq(PrinterLine), NEW a \in ParseResponses(responses)
    PROVE  a \in BridgeAction
BY DEF ParseResponses, Deciding, Decides, Meaning, PrinterLine, BridgeAction

\* A line of the print or its end is an event.
LEMMA LineSent ==
    ASSUME distributor \in Seq(EventType), NEW b \in Bridges, print_info[b] \in PrintInfo,
           action[b].n \in Nat \cup {None}, SendLine(b)
    PROVE  distributor' \in Seq(EventType)
<1>1. Wanted(action[b]) \in Nat
  BY DEF Wanted
<1>2. print_info[b].print \in Prints
  BY DEF PrintInfo
<1>3. OutGoing(NumberedLine(print_info[b].print, Wanted(action[b]))) \in EventType
  BY <1>1, <1>2, Constructors, Messages
<1> QED
  BY <1>3, Constructors, Queues DEF SendLine, Send

\* So is its progress.
LEMMA ProgressSent ==
    ASSUME distributor \in Seq(EventType), NEW b \in Bridges, print_info[b] \in PrintInfo,
           SendProgress(b)
    PROVE  distributor' \in Seq(EventType)
BY Constructors, Queues DEF SendProgress, Send, PrintInfo, Prints, BridgeState

\* The listener: it keeps the print it starts until it has started it.
LEMMA ListenerTypes ==
    ASSUME TypeOK, NEW b \in Bridges, ListenerStep(b), UNCHANGED <<managerVars, routesVars>>
    PROVE  TypeOK'
<1> USE DEF TypeOK, BusTypeOK, ManagerTypeOK, BridgeTypeOK, RoutesTypeOK, routesVars, busVars,
            managerVars, bridgeVars, startVars, listenerVars, readerVars, setupVars, Locked,
            ListenerState, ReaderState, Working, ListenerGoesTo
<1>1. CASE ListenerStarts(b)
  BY <1>1
     DEF ListenerStarts
<1>2. CASE ListenerPanics(b)
  BY <1>2, Constructors, Queues
     DEF ListenerPanics, Send, PanicHook, BridgeState
<1>3. CASE ListenerKilled(b)
  BY <1>3, Queues
     DEF ListenerKilled, Takes
<1>4. CASE ListenerWrites(b)
  BY <1>4, Constructors, Queues
     DEF ListenerWrites, Takes, Send
<1>5. CASE ListenerTakesPrintEnd(b)
  BY <1>5, Queues DEF ListenerTakesPrintEnd, Takes
<1>6. CASE ListenerTakesPrintStart(b)
  <2>1. Head(bridge_channel).info \in PrintInfo /\ bridge_channel' \in Seq(EventType)
    BY <1>6, Queues, Payloads DEF ListenerTakesPrintStart, Takes
  <2> QED
    BY <1>6, <2>1 DEF ListenerTakesPrintStart, Takes
<1>7. CASE ListenerChecks(b)
  <2>1. PICK s \in {"end", "start", "exited"} :
          ListenerGoesTo(b, s) /\ (s = "start" => listener[b] = "startCheck")
    BY <1>7 DEF ListenerChecks
  <2>2. UNCHANGED <<busVars, startVars, next_print, canceled, print_info, readerVars>>
    BY <1>7 DEF ListenerChecks
  <2>3. listener' \in [Bridges -> ListenerState] /\ \A c \in Bridges : ~ Locked(c)' \/ Locked(c)
    BY <2>1, <2>2
  <2>4. \A c \in Bridges :
          listener'[c] \in {"startCheck", "start"} => next_print[c] \in PrintInfo
    BY <2>1
  <2> QED
    BY <2>2, <2>3, <2>4
<1>8. CASE ListenerEndsPrint(b)
  <2>1. distributor' \in Seq(EventType)
    <3>1. Append(distributor, StateUpdate("CONNECTED", None)) \in Seq(EventType)
      BY Constructors, Queues DEF BridgeState
    <3> QED
      BY <1>8, <3>1 DEF ListenerEndsPrint, Send
  <2>2. CASE listener[b] = "end"
    <3>1. /\ ~ Locked(b)
          /\ listener' = [listener EXCEPT ![b] = "ended"]
          /\ print_info' = [print_info EXCEPT ![b] = None]
          /\ UNCHANGED <<bridge_channel, state, startVars, next_print, canceled, readerVars>>
      BY <1>8, <2>2 DEF ListenerEndsPrint
    <3> QED
      BY <2>1, <3>1
  <2>3. CASE listener[b] = "ended"
    <3>1. /\ listener' = [listener EXCEPT ![b] = "running"]
          /\ UNCHANGED <<bridge_channel, state, startVars, next_print, canceled, print_info,
                         readerVars>>
      BY <1>8, <2>3 DEF ListenerEndsPrint
    <3> QED
      BY <2>1, <3>1
  <2> QED
    BY <1>8, <2>2, <2>3 DEF ListenerEndsPrint
<1>9. CASE ListenerStartsPrint(b)
  <2>1. next_print[b] \in PrintInfo /\ next_print[b].print \in Prints
    BY <1>9 DEF ListenerStartsPrint, PrintInfo
  <2>2. distributor' \in Seq(EventType)
    BY <1>9, <2>1, Constructors, Queues DEF ListenerStartsPrint, Send, Prints, BridgeState
  <2> QED
    BY <1>9, <2>1, <2>2 DEF ListenerStartsPrint
<1>10. CASE ListenerSendsPreamble(b)
  <2>1. print_info[b].print \in Requests
    BY <1>10 DEF ListenerSendsPreamble, PrintInfo, Prints
  <2>2. OutGoing(Command("M110 N0", print_info[b].print)) \in EventType
    BY <2>1, Constructors, Messages DEF Commands
  <2>3. distributor' \in Seq(EventType)
    BY <1>10, <2>2, Queues DEF ListenerSendsPreamble, Send
  <2> QED
    BY <1>10, <2>3 DEF ListenerSendsPreamble
<1> QED
  BY <1>1, <1>2, <1>3, <1>4, <1>5, <1>6, <1>7, <1>8, <1>9, <1>10 DEF ListenerStep

\* The set-up phase of the reader.
LEMMA HandshakeTypes ==
    ASSUME TypeOK, NEW b \in Bridges, ReaderHandshake(b), UNCHANGED <<managerVars, routesVars>>
    PROVE  TypeOK'
<1> USE DEF TypeOK, BusTypeOK, ManagerTypeOK, BridgeTypeOK, RoutesTypeOK, routesVars, busVars,
            managerVars, bridgeVars, startVars, listenerVars, readerVars, setupVars, Locked,
            ListenerState, ReaderState, Working
<1>1. CASE ReaderLineConnecting(b)
  BY <1>1 DEF ReaderLineConnecting, ReaderGoesTo
<1>8. CASE ReaderReportsError(b)
  <2>1. distributor' \in Seq(EventType)
    <3>1. Append(distributor, Errored) \in Seq(EventType)
      BY Constructors, Queues
    <3> QED
      BY <1>8, <3>1 DEF ReaderReportsError, Send
  <2> QED
    BY <1>8, <2>1 DEF ReaderReportsError, ReaderGoesTo
<1>9. CASE ReaderChecksSetup(b)
  BY <1>9 DEF ReaderChecksSetup, ReaderGoesTo
<1>2. CASE ReaderConnected(b)
  BY <1>2, Constructors, Queues
     DEF ReaderConnected, Send, ReaderGoesTo, ForgetResponses, BridgeState
<1>3. CASE ReaderSendsSetup(b)
  <2>1. PICK last \in LastCommand(commands_left_to_send[b]) :
          /\ Send(OutGoing(Command(commands_left_to_send[b][last], None)))
          /\ commands_left_to_send' =
                [commands_left_to_send EXCEPT
                   ![b] = SubSeq(commands_left_to_send[b], 1, last - 1)]
    BY <1>3 DEF ReaderSendsSetup
  <2>2. commands_left_to_send[b][last] \in SetupCommands /\ last \in Nat
    BY <2>1 DEF LastCommand
  <2>3. distributor' \in Seq(EventType)
    BY <2>1, <2>2, Constructors, Messages, Queues DEF Send, SetupCommands, Commands
  <2>4. SubSeq(commands_left_to_send[b], 1, last - 1) \in Seq(SetupCommands \cup {None})
    BY <2>1 DEF LastCommand
  <2> QED
    BY <1>3, <2>1, <2>3, <2>4 DEF ReaderSendsSetup, ReaderGoesTo
<1>4. CASE ReaderCollects(b)
  BY <1>4
     DEF ReaderCollects, Collect, ReaderGoesTo
<1>5. CASE ReaderLeavesOk(b)
  BY <1>5
     DEF ReaderLeavesOk, ReaderGoesTo
<1>6. CASE ReaderAsksAgain(b)
  <2>1. distributor' \in Seq(EventType)
    BY <1>6, Constructors, Messages, Queues DEF ReaderAsksAgain, Send, Commands
  <2> QED
    BY <1>6, <2>1 DEF ReaderAsksAgain, ReaderGoesTo, ForgetResponses
<1>7. CASE ReaderHasCapabilities(b)
  <2>1. distributor' \in Seq(EventType)
    BY <1>7, Constructors, Messages, Queues DEF ReaderHasCapabilities, Send, Commands
  <2>2. CommandsFor(collected_responses[b]) \in Seq(SetupCommands \cup {None})
    <3> DEFINE n == Len(collected_responses[b])
               T == SetupCommands \cup {None}
    <3>1. n \in Nat
      OBVIOUS
    <3>2. \A i \in 1 .. n : CommandFor(collected_responses[b][i]) \in T
      BY DEF CommandFor, SetupCommands
    <3>3. CommandsFor(collected_responses[b]) \in [1 .. n -> T]
      BY <3>2 DEF CommandsFor
    <3> HIDE DEF n, T
    <3>4. CommandsFor(collected_responses[b]) \in Seq(T)
      BY <3>1, <3>3, SeqDef
    <3> QED
      BY <3>4 DEF T
  <2>3. line[b] \in PrinterLine
    BY <1>7 DEF ReaderHasCapabilities
  <2> QED
    BY <1>7, <2>1, <2>2, <2>3 DEF ReaderHasCapabilities, ReaderGoesTo, Collect
<1> QED
  BY <1>1, <1>2, <1>3, <1>4, <1>5, <1>6, <1>7, <1>8, <1>9 DEF ReaderHandshake

\* Counting a resend (report_resend) leaves a PrintInfo one.
LEMMA Resending ==
    ASSUME NEW info \in PrintInfo
    PROVE  Resent(info) \in PrintInfo
BY DEF Resent, PrintInfo

\* So does set_line_number.
LEMMA Renumbering ==
    ASSUME NEW info \in PrintInfo, NEW n \in Nat
    PROVE  [info EXCEPT !.line_number = n] \in PrintInfo
BY DEF PrintInfo

\* Between the progress and the line the print stays locked.
LEMMA ProgressTypes ==
    ASSUME TypeOK, NEW b \in Bridges, SendProgress(b),
           action[b] \in BridgeAction, action[b].kind # "Error",
           distributor' \in Seq(EventType),
           print_info' \in [Bridges -> PrintInfo \cup {None}], print_info'[b] \in PrintInfo,
           \A c \in Bridges : c # b => print_info'[c] = print_info[c],
           UNCHANGED <<bridge_channel, managerVars, routesVars>>
    PROVE  TypeOK'
<1> USE DEF TypeOK, BusTypeOK, ManagerTypeOK, BridgeTypeOK, RoutesTypeOK, routesVars, busVars,
            managerVars, bridgeVars, startVars, listenerVars, readerVars, setupVars, Locked,
            ListenerState, ReaderState, Working
<1>1. /\ reader' = [reader EXCEPT ![b] = "progress"]
      /\ UNCHANGED <<state, startVars, listenerVars, line, action, collected, setupVars>>
  BY DEF SendProgress
<1> QED
  BY <1>1

\* handle_ok_response.
LEMMA OkTypes ==
    ASSUME TypeOK, NEW b \in Bridges, HandleOkResponse(b), UNCHANGED <<managerVars, routesVars>>
    PROVE  TypeOK'
<1> USE DEF TypeOK, BusTypeOK, ManagerTypeOK, BridgeTypeOK, RoutesTypeOK, routesVars, busVars,
            managerVars, bridgeVars, startVars, listenerVars, readerVars, setupVars, Locked,
            ListenerState, ReaderState, Working
<1>1. CASE ReaderOk(b)
  <2>1. PICK a \in ParseResponses(collected_responses[b]) :
          \/ Send(Errored) /\ ReaderGoesTo(b, "reading") /\ action' = action
          \/ distributor' = distributor /\ ReaderGoesTo(b, "reading") /\ action' = action
          \/ /\ a.kind # "Error"
             /\ ReaderGoesTo(b, "print")
             /\ action' = [action EXCEPT ![b] = a]
             /\ distributor' = distributor
    BY <1>1 DEF ReaderOk
  <2>2. a \in BridgeAction
    BY Parsed
  <2>3. distributor' \in Seq(EventType)
    <3>1. Append(distributor, Errored) \in Seq(EventType)
      BY Constructors, Queues
    <3> QED
      BY <2>1, <3>1 DEF Send
  <2>4. CASE action' = action /\ ReaderGoesTo(b, "reading")
    BY <1>1, <2>3, <2>4 DEF ReaderOk, ForgetResponses, ReaderGoesTo
  <2>5. CASE /\ a.kind # "Error"
             /\ ReaderGoesTo(b, "print")
             /\ action' = [action EXCEPT ![b] = a]
    BY <1>1, <2>2, <2>3, <2>5 DEF ReaderOk, ForgetResponses, ReaderGoesTo
  <2> QED
    BY <2>1, <2>4, <2>5
<1>2. CASE ReaderIgnoresOk(b)
  BY <1>2
     DEF ReaderIgnoresOk, Handled
<1>3. CASE ReaderFirstLine(b)
  <2>1. print_info[b] \in PrintInfo /\ action[b] \in BridgeAction /\ action[b].n \in Nat \cup {None}
    BY <1>3 DEF ReaderFirstLine, BridgeAction
  <2>2. distributor' \in Seq(EventType)
    BY <1>3, <2>1, LineSent, ProgressSent DEF ReaderFirstLine
  <2>3. [print_info[b] EXCEPT !.line_number = 1] \in PrintInfo
    BY <2>1 DEF PrintInfo
  <2>4. print_info' \in [Bridges -> PrintInfo \cup {None}] /\ print_info'[b] \in PrintInfo
    BY <1>3, <2>3 DEF ReaderFirstLine
  <2>5. \A c \in Bridges : c # b => print_info'[c] = print_info[c]
    BY <1>3 DEF ReaderFirstLine
  <2>6. CASE Handled(b, "reading")
    BY <1>3, <2>2, <2>4, <2>5, <2>6 DEF ReaderFirstLine, Handled
  <2>7. CASE SendProgress(b)
    BY <1>3, <2>1, <2>2, <2>4, <2>5, <2>7, ProgressTypes DEF ReaderFirstLine
  <2> QED
    BY <1>3, <2>6, <2>7 DEF ReaderFirstLine
<1>4. CASE ReaderNextLine(b)
  <2>1. print_info[b] \in PrintInfo /\ action[b] \in BridgeAction /\ action[b].n \in Nat
    BY <1>4 DEF ReaderNextLine, BridgeAction
  <2>2. distributor' \in Seq(EventType)
    BY <1>4, <2>1, LineSent, ProgressSent DEF ReaderNextLine
  <2>3. [print_info[b] EXCEPT !.line_number = action[b].n] \in PrintInfo
    BY <2>1 DEF PrintInfo
  <2>4. print_info' \in [Bridges -> PrintInfo \cup {None}] /\ print_info'[b] \in PrintInfo
    BY <1>4, <2>3 DEF ReaderNextLine
  <2>5. \A c \in Bridges : c # b => print_info'[c] = print_info[c]
    BY <1>4 DEF ReaderNextLine
  <2>6. CASE Handled(b, "reading")
    BY <1>4, <2>2, <2>4, <2>5, <2>6 DEF ReaderNextLine, Handled
  <2>7. CASE SendProgress(b)
    BY <1>4, <2>1, <2>2, <2>4, <2>5, <2>7, ProgressTypes DEF ReaderNextLine
  <2> QED
    BY <1>4, <2>6, <2>7 DEF ReaderNextLine
<1>8. CASE ReaderSendsLine(b)
  <2>1. print_info[b] \in PrintInfo /\ action[b] \in BridgeAction /\ action[b].n \in Nat \cup {None}
    BY <1>8 DEF ReaderSendsLine, BridgeAction
  <2>2. distributor' \in Seq(EventType)
    BY <1>8, <2>1, LineSent DEF ReaderSendsLine
  <2> QED
    BY <1>8, <2>2 DEF ReaderSendsLine, Handled
<1>5. CASE ReaderPanics(b)
  <2>1. distributor' \in Seq(EventType)
    BY <1>5, Constructors, Queues DEF ReaderPanics, PanicHook, Send, BridgeState
  <2>2. Resent(print_info[b]) \in PrintInfo
    BY <1>5, Resending DEF ReaderPanics
  <2> QED
    <3>1. /\ print_info' \in [Bridges -> PrintInfo \cup {None}]
          /\ \A c \in Bridges : c # b => print_info'[c] = print_info[c]
      BY <1>5, <2>2 DEF ReaderPanics
    <3>2. Handled(b, "exited") /\ ~ Locked(b) /\ UNCHANGED bridge_channel
      BY <1>5 DEF ReaderPanics
    <3> QED
      BY <2>1, <3>1, <3>2 DEF Handled
<1>6. CASE ReaderRefusesResend(b)
  <2>1. distributor' \in Seq(EventType)
    BY <1>6, Constructors, Queues DEF ReaderRefusesResend, Send
  <2>2. Resent(print_info[b]) \in PrintInfo
    BY <1>6, Resending DEF ReaderRefusesResend
  <2> QED
    BY <1>6, <2>1, <2>2 DEF ReaderRefusesResend, Handled
<1>7. CASE ReaderResends(b)
  <2>1. print_info[b] \in PrintInfo /\ action[b].n \in Nat
    BY <1>7 DEF ReaderResends, BridgeAction
  <2>2. OutGoing(NumberedLine(print_info[b].print, action[b].n)) \in EventType
    BY <2>1, Constructors, Messages DEF PrintInfo
  <2>3. distributor' \in Seq(EventType) /\ bridge_channel' \in Seq(EventType)
    BY <1>7, <2>2, Constructors, Queues DEF ReaderResends, Send, SendToBridge
  <2>4. [Resent(print_info[b]) EXCEPT !.line_number = action[b].n] \in PrintInfo
    BY <2>1, Resending, Renumbering
  <2> QED
    BY <1>7, <2>3, <2>4 DEF ReaderResends, Handled
<1> QED
  BY <1>1, <1>2, <1>3, <1>4, <1>5, <1>6, <1>7, <1>8 DEF HandleOkResponse

\* The reader takes whatever the printer may say.
LEMMA ReceivesTypes ==
    ASSUME TypeOK, NEW b \in Bridges, UNCHANGED <<managerVars, routesVars>>,
           NEW l \in PrinterLine, ReaderReceives(b, l)
    PROVE  TypeOK'
<1> USE DEF TypeOK, BusTypeOK, ManagerTypeOK, BridgeTypeOK, RoutesTypeOK, routesVars, busVars,
            managerVars, bridgeVars, startVars, listenerVars, readerVars, setupVars, Locked,
            ListenerState, ReaderState, Working
<1>1. [l EXCEPT !.ok = l.ok \/ collected[b]] \in PrinterLine
  <2>1. (l.ok \/ collected[b]) \in BOOLEAN
    OBVIOUS
  <2> QED
    BY <2>1 DEF PrinterLine
<1>2. /\ reader' = [reader EXCEPT ![b] = "line"]
      /\ line' = [line EXCEPT ![b] = [l EXCEPT !.ok = l.ok \/ collected[b]]]
      /\ collected' = [collected EXCEPT ![b] = FALSE]
      /\ UNCHANGED <<busVars, startVars, listenerVars, print_info, action, setupVars>>
  BY DEF ReaderReceives
<1> QED
  BY <1>1, <1>2

\* The rest of the reader, and the printer it listens to.
LEMMA ReaderTypes ==
    ASSUME TypeOK, NEW b \in Bridges, UNCHANGED <<managerVars, routesVars>>,
           \/ ReaderStep(b)
           \/ ReaderIoError(b)
           \/ \E l \in Lines : ReaderReceives(b, l)
    PROVE  TypeOK'
<1> USE DEF TypeOK, BusTypeOK, ManagerTypeOK, BridgeTypeOK, RoutesTypeOK, routesVars, busVars,
            managerVars, bridgeVars, startVars, listenerVars, readerVars, setupVars, Locked,
            ListenerState, ReaderState, Working
<1>1. CASE ReaderFailed(b)
  BY <1>1, Constructors, Queues DEF ReaderFailed, Send
<1>2. CASE ReaderStops(b)
  BY <1>2 DEF ReaderStops
<1>3. CASE ReaderLine(b)
  <2>1. line[b] \in PrinterLine
    BY <1>3 DEF ReaderLine
  <2>2. collected_responses' \in [Bridges -> Seq(PrinterLine)]
    <3>1. Append(collected_responses[b], line[b]) \in Seq(PrinterLine)
      BY <2>1
    <3>2. \/ collected_responses' = collected_responses
          \/ collected_responses' = [collected_responses EXCEPT
                                       ![b] = Append(collected_responses[b], line[b])]
      BY <1>3 DEF ReaderLine, Collect
    <3> QED
      BY <3>1, <3>2
  <2>3. CASE line[b].ok
    BY <1>3, <2>1, <2>2, <2>3 DEF ReaderLine, ReaderGoesTo
  <2>4. CASE ~ line[b].ok
    BY <1>3, <2>2, <2>4 DEF ReaderLine, ReaderGoesTo
  <2> QED
    BY <2>3, <2>4
<1>4. CASE ReaderIoError(b)
  BY <1>4 DEF ReaderIoError
<1>5. ASSUME NEW l \in Lines, ReaderReceives(b, l)
      PROVE  TypeOK'
  BY <1>5, ReceivesTypes, BridgeAssumption
<1> QED
  BY <1>1, <1>2, <1>3, <1>4, <1>5, HandshakeTypes, OkTypes DEF ReaderStep

\* What reading the settings sends is an event.
LEMMA SettingsRead ==
    ASSUME distributor \in Seq(EventType), NEW r \in Requests, ReadSettings(r)
    PROVE  distributor' \in Seq(EventType)
BY Constructors, Queues DEF ReadSettings, PanicHook, Send, Bridges, BridgeState

\* The handlers of the API, and the attempt at boot.
LEMMA RouteTypes ==
    ASSUME TypeOK, NEW r \in Requests, RouteStep(r), UNCHANGED <<managerVars, bridgeVars>>
    PROVE  TypeOK'
<1> USE DEF TypeOK, BusTypeOK, ManagerTypeOK, BridgeTypeOK, RoutesTypeOK, routesVars, busVars,
            managerVars, bridgeVars, startVars, listenerVars, readerVars, setupVars, Locked,
            ListenerState, ReaderState, Working
<1>1. CASE CreateConnection(r)
  BY <1>1, SettingsRead DEF CreateConnection, GoesTo
<1>2. CASE CancelPrint(r)
  BY <1>2, Constructors, Queues DEF CancelPrint, GoesTo, Send, BridgeState
<1>3. CASE AcceptBoot(r)
  BY <1>3 DEF AcceptBoot, GoesTo
<1>4. CASE ConnectBoot(r)
  BY <1>4, SettingsRead DEF ConnectBoot, GoesTo
<1>5. CASE AcceptDisconnect(r)
  BY <1>5 DEF AcceptDisconnect, GoesTo
<1>6. CASE AcceptReconnect(r)
  BY <1>6 DEF AcceptReconnect, GoesTo
<1>7. CASE AcceptPrint(r)
  BY <1>7 DEF AcceptPrint, GoesTo
<1>8. CASE AcceptTerminal(r)
  BY <1>8 DEF AcceptTerminal, GoesTo
<1>9. CASE Disconnect(r)
  BY <1>9, Constructors, Queues DEF Disconnect, GoesTo, Send, BridgeState
<1>10. CASE Reconnect(r)
  BY <1>10, Constructors, Queues DEF Reconnect, GoesTo, Send, BridgeState
<1>11. CASE Connect(r)
  BY <1>11, SettingsRead DEF Connect, GoesTo
<1>12. CASE StartPrintFile(r)
  <2>1. \A len \in GcodeLengths : NewPrintInfo(r, len) \in PrintInfo
    BY RoutesAssumption DEF NewPrintInfo, PrintInfo, Prints
  <2>2. distributor' \in Seq(EventType)
    <3>1. \A len \in GcodeLengths : PrintStart(NewPrintInfo(r, len)) \in EventType
      BY <2>1, Constructors
    <3>2. \/ distributor' = distributor
          \/ \E len \in GcodeLengths :
               distributor' = Append(distributor, PrintStart(NewPrintInfo(r, len)))
      BY <1>12 DEF StartPrintFile, Send
    <3>3. distributor \in Seq(EventType)
      OBVIOUS
    <3> HIDE DEF TypeOK
    <3> QED
      BY <3>1, <3>2, <3>3, Queues
  <2> QED
    BY <1>12, <2>2 DEF StartPrintFile, GoesTo
<1>13. CASE SendTerminal(r)
  <2>1. distributor' \in Seq(EventType)
    <3>1. /\ OutGoing(Command("user", r)) \in EventType
          /\ StateUpdate("ERRORED", None) \in EventType
      BY Constructors, Messages DEF Commands, BridgeState
    <3>2. \/ distributor' = distributor
          \/ distributor' = Append(distributor, OutGoing(Command("user", r)))
          \/ distributor' = Append(distributor, StateUpdate("ERRORED", None))
      BY <1>13 DEF SendTerminal, Send, PanicHook
    <3>3. distributor \in Seq(EventType)
      OBVIOUS
    <3> HIDE DEF TypeOK
    <3> QED
      BY <3>1, <3>2, <3>3, Queues
  <2> QED
    BY <1>13, <2>1 DEF SendTerminal, GoesTo
<1>14. CASE PrintBreaksOff(r)
  BY <1>14, Constructors, Queues DEF PrintBreaksOff, PanicHook, GoesTo, Send, BridgeState
<1> QED
  BY <1>1, <1>2, <1>3, <1>4, <1>5, <1>6, <1>7, <1>8, <1>9, <1>10, <1>11, <1>12, <1>13, <1>14
     DEF RouteStep, Arrives, HandlerStep

\* Every variable keeps its type, whatever the printer sends, the clients do
\* and the environment gets wrong.
THEOREM TypeCorrect == Spec => []TypeOK
<1>1. Init => TypeOK
  <2> SUFFICES ASSUME Init
               PROVE  TypeOK
    OBVIOUS
  <2>1. BusTypeOK
    BY DEF Init, BusInit, BusTypeOK, Wrapper, StateWrapper, BridgeState
  <2>2. ManagerTypeOK
    BY DEF Init, ManagerInit, ManagerTypeOK
  <2>3. BridgeTypeOK
    BY DEF Init, BridgeInit, BridgeTypeOK, Locked, Working, ListenerState, ReaderState
  <2>4. RoutesTypeOK
    BY DEF Init, RoutesInit, RoutesTypeOK
  <2> QED
    BY <2>1, <2>2, <2>3, <2>4 DEF TypeOK
<1>2. TypeOK /\ [Next]_vars => TypeOK'
  <2> SUFFICES ASSUME TypeOK, [Next]_vars
               PROVE  TypeOK'
    OBVIOUS
  <2>1. CASE ManagerNext
    BY <2>1, ManagerTypes
  <2>2. ASSUME NEW b \in Bridges, BridgeNext(b)
        PROVE  TypeOK'
    BY <2>2, StartTypes, TimeoutTypes, ListenerTypes, ReaderTypes DEF BridgeNext, BridgeStep
  <2>3. ASSUME NEW r \in Requests, RouteNext(r)
        PROVE  TypeOK'
    BY <2>3, RouteTypes DEF RouteNext
  <2>4. CASE UNCHANGED vars
    BY <2>4 DEF vars, busVars, managerVars, bridgeVars, routesVars, startVars, listenerVars,
                readerVars, setupVars, TypeOK, BusTypeOK, ManagerTypeOK, BridgeTypeOK, RoutesTypeOK,
                Locked
  <2> QED
    BY <2>1, <2>2, <2>3, <2>4 DEF Next
<1> QED
  BY <1>1, <1>2, PTL DEF Spec

-----------------------------------------------------------------------------
(* Steps                                                                   *)

\* An event that shows no print.
Harmless(e) == e \in EventType /\ \A p \in Prints : e # StateUpdate("PRINTING", p)

\* An event that asks for a bridge or a print: no bridge sends one.
Asks(e) == e.type \in {"CreateBridge", "PrintStart"}

SendsQuietly == distributor' = distributor \/ \E e : Harmless(e) /\ ~ Asks(e) /\ Send(e)

\* What it adds is no request, and shows a print only if that is going on.
Adds ==
    \/ distributor' = distributor
    \/ \E e \in EventType :
         /\ Send(e)
         /\ ~ Asks(e)
         /\ \A p \in Prints : e = StateUpdate("PRINTING", p) => InPrint(p)'

\* No bridge begins, ends or changes its print.
SamePrints == \A b \in Bridges, p \in Prints : Printing(b, p)' <=> Printing(b, p)

\* Which events are harmless.
LEMMA HarmlessEvents ==
    /\ {CreateBridgeError, PrintEnd, Errored} \subseteq {e \in EventType : Harmless(e)}
    /\ \A m \in Message : Harmless(OutGoing(m))
    /\ \A b \in Bridges : Harmless(CreateBridge(b))
    /\ \A info \in PrintInfo : Harmless(PrintStart(info))
    /\ \A s \in BridgeState \ {"PRINTING"}, r \in Requests \cup {None} :
         Harmless(StateUpdate(s, r))
    /\ \A p \in Prints : StateUpdate("PRINTING", p) \in EventType
<1>1. ASSUME NEW p \in Prints
      PROVE  /\ StateUpdate("PRINTING", p).type = "StateUpdate"
             /\ StateUpdate("PRINTING", p).wrapper.state = "PRINTING"
  BY DEF StateUpdate, Wrapper
<1>2. /\ CreateBridgeError.type # "StateUpdate"
      /\ PrintEnd.type # "StateUpdate"
      /\ Errored.wrapper.state # "PRINTING"
      /\ \A m \in Message : OutGoing(m).type # "StateUpdate"
      /\ \A b \in Bridges : CreateBridge(b).type # "StateUpdate"
      /\ \A info \in PrintInfo : PrintStart(info).type # "StateUpdate"
      /\ \A s \in BridgeState, r \in Requests \cup {None} : StateUpdate(s, r).wrapper.state = s
  BY DEF CreateBridgeError, PrintEnd, OutGoing, CreateBridge, PrintStart, StateUpdate, Wrapper,
         Errored
<1>3. {CreateBridgeError, PrintEnd, Errored} \subseteq EventType
  BY Constructors
<1> QED
  BY <1>1, <1>2, <1>3, Constructors DEF Harmless, Prints, BridgeState

\* And which are no requests.
LEMMA NoRequests ==
    /\ ~ Asks(CreateBridgeError) /\ ~ Asks(PrintEnd) /\ ~ Asks(Errored)
    /\ \A m : ~ Asks(OutGoing(m))
    /\ \A s, r : ~ Asks(StateUpdate(s, r))
BY DEF Asks, CreateBridgeError, PrintEnd, Errored, OutGoing, StateUpdate

\* Adding a harmless event, or nothing, is adding something true.
LEMMA QuietAdds ==
    ASSUME SendsQuietly
    PROVE  Adds
BY DEF SendsQuietly, Adds, Harmless

\* A task that leaves print_info alone neither begins nor ends a print.
LEMMA NoPrintChanges ==
    ASSUME print_info' = print_info
    PROVE  SamePrints
BY DEF SamePrints, Printing

\* Counting lines and resends neither begins nor ends a print.
LEMMA CountingKeepsPrints ==
    ASSUME TypeOK, NEW b \in Bridges, NEW info \in PrintInfo,
           print_info[b] # None, info.print = print_info[b].print,
           print_info' = [print_info EXCEPT ![b] = info]
    PROVE  SamePrints
<1>1. print_info \in [Bridges -> PrintInfo \cup {None}] /\ info # None
  BY NoneAssumption DEF TypeOK, BridgeTypeOK
<1>2. \A c \in Bridges, p \in Prints : Printing(c, p)' <=> Printing(c, p)
  BY <1>1 DEF Printing
<1> QED
  BY <1>2 DEF SamePrints

\* The start task.
LEMMA StartSends ==
    ASSUME TypeOK, NEW b \in Bridges, StartStep(b)
    PROVE  UNCHANGED <<state, print_info>> /\ SendsQuietly
<1>1. UNCHANGED <<state, print_info>>
  BY DEF StartStep, StartAnnounces, OpenSucceeds, StartAsksFirmware, OpenFails, OpenPanics, busVars
<1>2. Harmless(StateUpdate("CONNECTING", b))
  BY HarmlessEvents DEF Bridges, BridgeState
<1>3. Harmless(OutGoing(Command("M115", None)))
  BY HarmlessEvents, Messages DEF Commands
<1>4. Harmless(CreateBridgeError) /\ Harmless(Errored)
  BY HarmlessEvents
<1>5. SendsQuietly
  BY <1>2, <1>3, <1>4, NoRequests
     DEF StartStep, StartAnnounces, OpenSucceeds, StartAsksFirmware, OpenFails, OpenPanics,
         PanicHook, Errored, busVars, SendsQuietly
<1> QED
  BY <1>1, <1>5

\* The timer.
LEMMA TimeoutSends ==
    ASSUME TypeOK, NEW b \in Bridges, TimeoutStep(b)
    PROVE  UNCHANGED <<state, print_info>> /\ SendsQuietly
BY HarmlessEvents, NoRequests
   DEF TimeoutStep, TimeoutElapses, TimeoutReports, busVars, SendsQuietly

\* The listener, when it neither begins nor ends a print.
LEMMA ListenerSends ==
    ASSUME TypeOK, NEW b \in Bridges, ListenerStep(b),
           ~ ListenerEndsPrint(b), ~ ListenerStartsPrint(b)
    PROVE  UNCHANGED <<state, print_info>> /\ SendsQuietly
<1>1. CASE ListenerSendsPreamble(b)
  <2>1. print_info[b].print \in Requests
    BY <1>1 DEF ListenerSendsPreamble, TypeOK, BridgeTypeOK, Locked, PrintInfo, Prints
  <2>2. Harmless(OutGoing(Command("M110 N0", print_info[b].print)))
    BY <2>1, HarmlessEvents, Messages DEF Commands
  <2> QED
    BY <1>1, <2>2, NoRequests DEF ListenerSendsPreamble, SendsQuietly
<1>2. CASE ~ ListenerSendsPreamble(b)
  BY <1>2, HarmlessEvents, NoRequests
     DEF ListenerStep, ListenerStarts, ListenerPanics, ListenerKilled, ListenerWrites,
         ListenerTakesPrintEnd, ListenerTakesPrintStart, ListenerChecks, busVars, PanicHook,
         Errored, SendsQuietly
<1> QED
  BY <1>1, <1>2

\* The set-up phase of the reader.
LEMMA HandshakeSends ==
    ASSUME TypeOK, NEW b \in Bridges, ReaderHandshake(b)
    PROVE  UNCHANGED <<state, print_info, listener>> /\ SendsQuietly
<1> USE DEF ReaderHandshake, ReaderLineConnecting, ReaderReportsError, ReaderChecksSetup,
            ReaderConnected, ReaderCollects, ReaderLeavesOk, ReaderAsksAgain,
            ReaderHasCapabilities, ReaderSendsSetup, busVars, listenerVars
<1>1. UNCHANGED <<state, print_info, listener>>
  OBVIOUS
<1>2. Harmless(OutGoing(Command("M115", None))) /\ Harmless(OutGoing(Command("G90", None)))
  BY HarmlessEvents, Messages DEF Commands
<1>3. Harmless(StateUpdate("CONNECTED", None)) /\ Harmless(Errored)
  BY HarmlessEvents DEF BridgeState
<1>4. CASE ReaderSendsSetup(b)
  <2>1. PICK last \in LastCommand(commands_left_to_send[b]) :
          Send(OutGoing(Command(commands_left_to_send[b][last], None)))
    BY <1>4
  <2>2. commands_left_to_send[b] \in Seq(SetupCommands \cup {None})
    BY DEF TypeOK, BridgeTypeOK
  <2>3. commands_left_to_send[b][last] \in SetupCommands
    BY <2>1, <2>2 DEF LastCommand
  <2>4. Harmless(OutGoing(Command(commands_left_to_send[b][last], None)))
    BY <2>3, HarmlessEvents, Messages DEF SetupCommands, Commands
  <2> QED
    BY <1>1, <2>1, <2>4, NoRequests DEF SendsQuietly
<1>5. CASE ~ ReaderSendsSetup(b)
  BY <1>1, <1>2, <1>3, <1>5, NoRequests DEF SendsQuietly
<1> QED
  BY <1>4, <1>5

\* A line of a print, or its end.
LEMMA LineAdds ==
    ASSUME TypeOK, NEW b \in Bridges, print_info[b] \in PrintInfo,
           action[b].n \in Nat \cup {None}, SendLine(b)
    PROVE  Adds
<1>1. Wanted(action[b]) \in Nat /\ print_info[b].print \in Prints
  BY DEF Wanted, PrintInfo
<1>2. Harmless(OutGoing(NumberedLine(print_info[b].print, Wanted(action[b])))) /\ Harmless(PrintEnd)
  BY <1>1, HarmlessEvents, Messages
<1> QED
  BY <1>2, NoRequests, QuietAdds DEF SendLine, SendsQuietly

\* Its progress, as long as it goes on.
LEMMA ProgressAdds ==
    ASSUME TypeOK, NEW b \in Bridges, print_info[b] \in PrintInfo, SendProgress(b), SamePrints
    PROVE  Adds
<1> DEFINE q == print_info[b].print
           e == StateUpdate("PRINTING", q)
<1>1. q \in Prints /\ InPrint(q)
  BY NoneAssumption DEF PrintInfo, InPrint, Printing
<1>2. e \in EventType /\ ~ Asks(e)
  BY <1>1, HarmlessEvents, NoRequests
<1>3. \A p \in Prints : e = StateUpdate("PRINTING", p) => p = q
  BY DEF StateUpdate, Wrapper
<1>4. \A p \in Prints : e = StateUpdate("PRINTING", p) => InPrint(p)'
  BY <1>1, <1>3 DEF SamePrints, InPrint
<1>5. Send(e)
  BY DEF SendProgress
<1> HIDE DEF e
<1> QED
  BY <1>2, <1>4, <1>5 DEF Adds

\* handle_ok_response.
LEMMA OkSends ==
    ASSUME TypeOK, NEW b \in Bridges, HandleOkResponse(b)
    PROVE  UNCHANGED <<state, listener>> /\ Adds /\ SamePrints
<1>1. UNCHANGED <<state, listener>>
  BY DEF HandleOkResponse, ReaderOk, ReaderIgnoresOk, ReaderFirstLine, ReaderNextLine,
         ReaderSendsLine, ReaderPanics, ReaderRefusesResend, ReaderResends, Handled, SendProgress,
         listenerVars
<1>2. Harmless(Errored) /\ ~ Asks(Errored)
  BY HarmlessEvents, NoRequests
<1>3. CASE ReaderOk(b) \/ ReaderIgnoresOk(b)
  <2>1. SendsQuietly
    BY <1>2, <1>3 DEF ReaderOk, ReaderIgnoresOk, SendsQuietly
  <2>2. print_info' = print_info
    BY <1>3 DEF ReaderOk, ReaderIgnoresOk
  <2> QED
    BY <1>1, <2>1, <2>2, QuietAdds, NoPrintChanges
<1>4. CASE ReaderFirstLine(b)
  <2> DEFINE info == [print_info[b] EXCEPT !.line_number = 1]
  <2>1. /\ print_info[b] \in PrintInfo /\ print_info[b] # None
        /\ action[b].n \in Nat \cup {None} /\ 1 \in Nat
    BY <1>4 DEF ReaderFirstLine, TypeOK, BridgeTypeOK, BridgeAction
  <2>2. info \in PrintInfo /\ info.print = print_info[b].print
    BY <2>1 DEF PrintInfo
  <2>3. print_info' = [print_info EXCEPT ![b] = info]
    BY <1>4 DEF ReaderFirstLine
  <2> HIDE DEF info
  <2>4. SamePrints
    BY <2>1, <2>2, <2>3, CountingKeepsPrints
  <2>5. Adds
    BY <1>4, <2>1, <2>4, LineAdds, ProgressAdds DEF ReaderFirstLine
  <2> QED
    BY <1>1, <2>4, <2>5
<1>5. CASE ReaderNextLine(b)
  <2> DEFINE info == [print_info[b] EXCEPT !.line_number = action[b].n]
  <2>1. /\ print_info[b] \in PrintInfo /\ print_info[b] # None
        /\ action[b].n \in Nat \cup {None} /\ action[b].n \in Nat
    BY <1>5 DEF ReaderNextLine, TypeOK, BridgeTypeOK, BridgeAction
  <2>2. info \in PrintInfo /\ info.print = print_info[b].print
    BY <2>1 DEF PrintInfo
  <2>3. print_info' = [print_info EXCEPT ![b] = info]
    BY <1>5 DEF ReaderNextLine
  <2> HIDE DEF info
  <2>4. SamePrints
    BY <2>1, <2>2, <2>3, CountingKeepsPrints
  <2>5. Adds
    BY <1>5, <2>1, <2>4, LineAdds, ProgressAdds DEF ReaderNextLine
  <2> QED
    BY <1>1, <2>4, <2>5
<1>6. CASE ReaderSendsLine(b)
  <2>1. print_info[b] \in PrintInfo /\ action[b].n \in Nat \cup {None}
    BY <1>6 DEF ReaderSendsLine, TypeOK, BridgeTypeOK, BridgeAction, Locked
  <2>2. SendLine(b) /\ print_info' = print_info
    BY <1>6 DEF ReaderSendsLine
  <2> QED
    BY <1>1, <2>1, <2>2, LineAdds, NoPrintChanges
<1>7. CASE ReaderPanics(b) \/ ReaderRefusesResend(b)
  <2>1. print_info[b] \in PrintInfo /\ print_info[b] # None /\ SendsQuietly
    BY <1>2, <1>7
       DEF ReaderPanics, ReaderRefusesResend, TypeOK, BridgeTypeOK, PanicHook, Errored,
           SendsQuietly
  <2>2. /\ Resent(print_info[b]) \in PrintInfo
        /\ Resent(print_info[b]).print = print_info[b].print
    BY <2>1, Resending DEF Resent, PrintInfo
  <2>3. \/ print_info' = print_info
        \/ print_info' = [print_info EXCEPT ![b] = Resent(print_info[b])]
    BY <1>7 DEF ReaderPanics, ReaderRefusesResend
  <2> QED
    BY <1>1, <2>1, <2>2, <2>3, QuietAdds, NoPrintChanges, CountingKeepsPrints
<1>8. CASE ReaderResends(b)
  <2> DEFINE info == [Resent(print_info[b]) EXCEPT !.line_number = action[b].n]
  <2>1. print_info[b] \in PrintInfo /\ print_info[b] # None /\ action[b].n \in Nat
    BY <1>8 DEF ReaderResends, TypeOK, BridgeTypeOK, BridgeAction
  <2>2. info \in PrintInfo /\ info.print = print_info[b].print
    BY <2>1, Resending DEF PrintInfo, Resent
  <2>3. print_info' = [print_info EXCEPT ![b] = info]
    BY <1>8 DEF ReaderResends
  <2>4. SendsQuietly
    BY <1>2, <1>8 DEF ReaderResends, SendsQuietly
  <2> HIDE DEF info
  <2> QED
    BY <1>1, <2>1, <2>2, <2>3, <2>4, QuietAdds, CountingKeepsPrints
<1> QED
  BY <1>3, <1>4, <1>5, <1>6, <1>7, <1>8 DEF HandleOkResponse

\* The rest of the reader.
LEMMA ReaderSends ==
    ASSUME TypeOK, NEW b \in Bridges,
           \/ ReaderStep(b)
           \/ ReaderIoError(b)
           \/ \E l \in Lines : ReaderReceives(b, l)
    PROVE  UNCHANGED <<state, listener>> /\ Adds /\ SamePrints
<1>1. CASE ReaderFailed(b)
  <2>1. UNCHANGED <<state, listener, print_info>> /\ Send(Errored)
    BY <1>1 DEF ReaderFailed, listenerVars
  <2> QED
    BY <2>1, HarmlessEvents, NoRequests, QuietAdds, NoPrintChanges DEF SendsQuietly
<1>2. CASE ReaderStops(b) \/ ReaderLine(b) \/ ReaderIoError(b)
           \/ \E l \in Lines : ReaderReceives(b, l)
  <2>1. UNCHANGED <<distributor, state, listener, print_info>>
    BY <1>2 DEF ReaderStops, ReaderLine, ReaderIoError, ReaderReceives, busVars, listenerVars
  <2> QED
    BY <2>1, NoPrintChanges DEF Adds
<1>3. CASE ReaderHandshake(b)
  BY <1>3, HandshakeSends, QuietAdds, NoPrintChanges
<1> QED
  BY <1>1, <1>2, <1>3, OkSends DEF ReaderStep

\* The beginning of a print is announced by the step that makes it one.
LEMMA StartOfPrint ==
    ASSUME TypeOK, NEW b \in Bridges, ListenerStartsPrint(b)
    PROVE  /\ next_print[b].print \in Prints
           /\ Send(StateUpdate("PRINTING", next_print[b].print))
           /\ \A p \in Prints : p = next_print[b].print => InPrint(p)'
           /\ Adds
<1> DEFINE q == next_print[b].print
           e == StateUpdate("PRINTING", q)
<1>1. next_print[b] \in PrintInfo /\ q \in Prints
  BY DEF ListenerStartsPrint, TypeOK, BridgeTypeOK, PrintInfo
<1>2. print_info'[b] = next_print[b] /\ next_print[b] # None
  BY <1>1, NoneAssumption DEF ListenerStartsPrint, TypeOK, BridgeTypeOK
<1>3. \A p \in Prints : p = q => InPrint(p)'
  BY <1>2 DEF InPrint, Printing
<1>4. Send(e)
  BY DEF ListenerStartsPrint
<1>5. e \in EventType /\ ~ Asks(e)
  BY <1>1, HarmlessEvents, NoRequests
<1>6. \A p \in Prints : e = StateUpdate("PRINTING", p) => p = q
  BY DEF StateUpdate, Wrapper
<1>7. \A p \in Prints : e = StateUpdate("PRINTING", p) => InPrint(p)'
  BY <1>3, <1>6
<1>8. Adds
  <2> HIDE DEF e
  <2> QED
    BY <1>4, <1>5, <1>7 DEF Adds
<1> QED
  BY <1>1, <1>3, <1>4, <1>8

\* The end of a print, sent or not yet.
LEMMA EndOfPrint ==
    ASSUME TypeOK, NEW b \in Bridges, ListenerEndsPrint(b)
    PROVE  UNCHANGED state /\ SendsQuietly
<1>1. Harmless(StateUpdate("CONNECTED", None))
  BY HarmlessEvents DEF BridgeState
<1> QED
  BY <1>1, NoRequests DEF ListenerEndsPrint, SendsQuietly

\* A bridge never takes from the distributor and never writes `state`; what it
\* sends about a print is true.
LEMMA BridgeAdds ==
    ASSUME TypeOK, NEW b \in Bridges, BridgeStep(b)
    PROVE  UNCHANGED state /\ Adds
<1>1. CASE ListenerStartsPrint(b)
  BY <1>1, StartOfPrint DEF ListenerStartsPrint
<1>2. CASE ListenerEndsPrint(b)
  BY <1>2, EndOfPrint, QuietAdds
<1>3. CASE ListenerStep(b) /\ ~ ListenerStartsPrint(b) /\ ~ ListenerEndsPrint(b)
  BY <1>3, ListenerSends, QuietAdds
<1> QED
  BY <1>1, <1>2, <1>3, StartSends, TimeoutSends, ReaderSends, QuietAdds DEF BridgeStep

\* The handlers of the API: a request that sends CreateBridge or PrintStart is
\* done and has not been done before, and the event carries its name.
LEMMA RouteSends ==
    ASSUME TypeOK, NEW r \in Requests, RouteNext(r)
    PROVE  /\ UNCHANGED <<state, managerVars, bridgeVars>>
           /\ req[r] # "done" /\ \A c \in Requests : c # r => req'[c] = req[c]
           /\ \/ distributor' = distributor
              \/ \E e : Harmless(e) /\ Send(e) /\ ~ Asks(e)
              \/ Harmless(CreateBridge(r)) /\ Send(CreateBridge(r)) /\ req'[r] = "done"
              \/ \E len \in GcodeLengths :
                   LET e == PrintStart(NewPrintInfo(r, len))
                   IN  Harmless(e) /\ Send(e) /\ req'[r] = "done"
<1>1. Harmless(PrintEnd) /\ Harmless(Errored) /\ Harmless(CreateBridge(r))
  BY HarmlessEvents DEF Bridges
<1>2. Harmless(StateUpdate("DISCONNECTED", None)) /\ Harmless(OutGoing(Command("user", r)))
  BY HarmlessEvents, Messages DEF BridgeState, Commands
<1>3. \A len \in GcodeLengths : Harmless(PrintStart(NewPrintInfo(r, len)))
  BY HarmlessEvents, RoutesAssumption DEF NewPrintInfo, PrintInfo, Prints
<1>4. req \in [Requests -> {"idle", "boot", "disconnect", "reconnect", "settings", "print",
                            "terminal", "done"}]
  BY DEF TypeOK, RoutesTypeOK
<1>5. UNCHANGED <<managerVars, bridgeVars>>
  BY DEF RouteNext
<1>6. CASE Arrives(r) \/ AcceptBoot(r)
  BY <1>1, <1>4, <1>5, <1>6, NoRequests
     DEF Arrives, CreateConnection, CancelPrint, AcceptBoot, AcceptDisconnect, AcceptReconnect,
         AcceptPrint, PrintBreaksOff, AcceptTerminal, Issue, GoesTo, ReadSettings,
         PanicHook, Errored, busVars
<1>7. CASE HandlerStep(r) /\ ~ StartPrintFile(r)
  BY <1>1, <1>2, <1>4, <1>5, <1>7, NoRequests
     DEF HandlerStep, ConnectBoot, Disconnect, Reconnect, Connect, SendTerminal, GoesTo,
         ReadSettings, PanicHook, Errored
<1>8. CASE StartPrintFile(r)
  BY <1>3, <1>4, <1>5, <1>8 DEF StartPrintFile, GoesTo
<1> QED
  BY <1>6, <1>7, <1>8 DEF RouteNext, RouteStep

\* What is left behind the head of the queue.
LEMMA Behind ==
    ASSUME NEW q \in Seq(EventType), q # <<>>
    PROVE  /\ Len(Tail(q)) = Len(q) - 1 /\ Len(q) >= 1
           /\ \A i \in 1 .. Len(q) - 1 : Tail(q)[i] = q[i + 1]
           /\ Head(q) = q[1]
OBVIOUS

\* The main loop takes the head and may add an event that shows no print.
HandlesHead ==
    /\ distributor # <<>>
    /\ \/ distributor' = Tail(distributor)
       \/ \E e : Harmless(e) /\ ~ Asks(e) /\ distributor' = Append(Tail(distributor), e)

\* What was behind the head is where it was, one place nearer.
LEMMA Shifted ==
    ASSUME TypeOK, HandlesHead
    PROVE  LET n == Len(distributor) IN
           /\ n \in Nat /\ n >= 1
           /\ n - 1 <= Len(distributor') /\ Len(distributor') <= n
           /\ \A i \in 1 .. n - 1 : distributor'[i] = distributor[i + 1]
           /\ Len(distributor') = n => Harmless(distributor'[n]) /\ ~ Asks(distributor'[n])
<1> DEFINE n == Len(distributor)
           t == Tail(distributor)
<1>1. distributor \in Seq(EventType) /\ distributor # <<>>
  BY DEF TypeOK, BusTypeOK, HandlesHead
<1>2. /\ n \in Nat /\ n >= 1 /\ Len(t) = n - 1 /\ t \in Seq(EventType)
      /\ \A i \in 1 .. n - 1 : t[i] = distributor[i + 1]
  BY <1>1
<1> HIDE DEF t, n
<1>3. CASE distributor' = t
  BY <1>2, <1>3 DEF n
<1>4. ASSUME NEW e, Harmless(e), ~ Asks(e), distributor' = Append(t, e)
      PROVE  /\ Len(distributor') = n /\ distributor'[n] = e
             /\ \A i \in 1 .. n - 1 : distributor'[i] = t[i]
  <2>1. e \in EventType
    BY <1>4 DEF Harmless
  <2> QED
    BY <1>2, <1>4, <2>1
<1>5. CASE \E e : Harmless(e) /\ ~ Asks(e) /\ distributor' = Append(t, e)
  BY <1>2, <1>4, <1>5 DEF n
<1> QED
  BY <1>3, <1>5 DEF HandlesHead, t

\* Which handlers of the main loop do that.
LEMMA ManagerHandles ==
    ASSUME TypeOK, ManagerNext
    PROVE  /\ UNCHANGED <<print_info, listener>>
           /\ \/ Detach /\ UNCHANGED <<distributor, state>>
              \/ HandlesHead /\ OnStateUpdate
              \/ HandlesHead /\ state' = state /\ distributor[1].type # "StateUpdate"
<1> USE DEF OnSecondCreateBridge, OnCreateBridge, OnCreateBridgeError, OnStateUpdate, Detach,
            OnForwarded, OnPrintStart, bridgeVars
<1>1. UNCHANGED <<print_info, listener>>
  BY DEF ManagerNext, ManagerStep, listenerVars
<1>2. CASE Detach
  BY <1>1, <1>2
<1>3. distributor # <<>> => Head(distributor) = distributor[1]
  BY Behind DEF TypeOK, BusTypeOK
<1>4. CASE OnStateUpdate
  BY <1>1, <1>4 DEF HandlesHead, Handles, Take
<1>5. CASE OnSecondCreateBridge \/ OnCreateBridgeError
  <2>1. /\ Harmless(CreateBridgeError) /\ Harmless(Errored)
        /\ ~ Asks(CreateBridgeError) /\ ~ Asks(Errored)
    BY HarmlessEvents, NoRequests
  <2>2. state' = state /\ distributor[1].type # "StateUpdate"
    BY <1>3, <1>5 DEF Handles
  <2>3. HandlesHead
    BY <1>5, <2>1 DEF HandlesHead, Handles, TakeAndSend
  <2> QED
    BY <1>1, <2>2, <2>3
<1>6. CASE OnCreateBridge \/ OnForwarded \/ OnPrintStart
  <2>1. state' = state /\ distributor[1].type # "StateUpdate"
    BY <1>3, <1>6 DEF Handles
  <2>2. HandlesHead
    BY <1>6 DEF HandlesHead, Handles, Take
  <2> QED
    BY <1>1, <2>1, <2>2
<1> QED
  BY <1>2, <1>4, <1>5, <1>6 DEF ManagerNext, ManagerStep
=============================================================================
