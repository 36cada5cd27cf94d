------------------------------- MODULE Bridge -------------------------------
(***************************************************************************)
(* bridge.rs: the tasks one connection to a printer is made of.            *)
(*                                                                         *)
(*   start     Bridge::start, the task the manager holds the handle of     *)
(*   timeout   spawn_timeout, fires once, ten seconds after the port opened*)
(*   listener  spawn_event_listener, takes events from bridge_channel      *)
(*   reader    spawn_bridge_serial_reader, handles the printer's lines     *)
(*                                                                         *)
(* Several bridges may be alive at once: every variable but the bus is a   *)
(* function of the bridge.  A step is what a task does between two points  *)
(* where another task can see or change what it works on: taking an event, *)
(* reading `state` and each send are steps of their own, and print_info is *)
(* locked across the steps between which the code holds its guard.         *)
(*                                                                         *)
(* `ready` is only ever assigned true and `message_queue` is only pushed to*)
(* while it is false, so neither has a value to model: a message for the   *)
(* printer is always written at once.                                      *)
(***************************************************************************)
EXTENDS Events

CONSTANTS
    Lines,         \* the lines the printer may send, a set of PrinterLine
    ResendScale,   \* 1000 in the code: a print fails when resends * ResendScale > length
    MaxQueued,     \* bound: the printer is silent while this many events are queued
    MaxResponses   \* bound: lines a reader collects between two ok lines

\* A line is told apart by whether it starts with "ok" and by what matches in it.
LineKinds == {"plain", "firmware", "capTemp", "capEeprom", "error", "Error", "temp"}

PrinterLine == [ok: BOOLEAN, kind: LineKinds, n: {0}]
                 \cup [ok: BOOLEAN, kind: {"number", "resend"}, n: Nat]

ASSUME BridgeAssumption ==
    /\ Lines \subseteq PrinterLine
    /\ ResendScale \in Nat \ {0}
    /\ MaxQueued \in Nat
    /\ MaxResponses \in Nat

BridgeAction == [kind: {"Continue"}, n: Nat \cup {None}]
                  \cup [kind: {"Resend"}, n: Nat]
                  \cup [kind: {"Error"}, n: {None}]

VARIABLES
    start_task,  \* Bridge::start
    timeout,     \* the ten second timer
    listener,    \* the event listener
    next_print,  \* the PrintInfo of the PrintStart event the listener has taken
    canceled,    \* is_canceled
    print_info,  \* the print in progress, None when there is none
    reader,      \* the serial reader
    line,        \* the complete line it works on
    action,      \* what parse_responses made of the collected responses
    collected,   \* an "ok" was left in the line buffer
    collected_responses,
    has_collected_capabilities,
    commands_left_to_send

startVars    == <<start_task, timeout>>
listenerVars == <<listener, next_print, canceled>>
setupVars    == <<collected_responses, has_collected_capabilities, commands_left_to_send>>
readerVars   == <<reader, line, action, collected, setupVars>>
bridgeVars   == <<startVars, listenerVars, print_info, readerVars>>

SetupCommands == {"M155 S2", "M501"}

\* With a PrintEnd the listener goes through "endCheck", "end" and "ended", with a
\* PrintStart through "startCheck", "start" and "started".
ListenerState == {"none", "starting", "running", "endCheck", "end", "ended",
                  "startCheck", "start", "started", "exited"}

ReaderState == {"none", "reading", "line", "connecting", "handshake", "setup", "capabilities",
                "ok", "print", "progress", "failed", "exited"}

\* A wrong Locked: the listener unlocks print_info before it sends.
LockedByReader(b) == reader[b] = "progress"

\* A task of b sends while it holds the guard of print_info.
Locked(b) == listener[b] = "started" \/ reader[b] = "progress"

\* The reader works on a line.
Working == {"line", "connecting", "handshake", "setup", "capabilities", "ok"}

BridgeTypeOK ==
    /\ start_task \in [Bridges -> {"none", "spawned", "opening", "opened", "done"}]
    /\ timeout \in [Bridges -> {"none", "armed", "expired", "done"}]
    /\ listener \in [Bridges -> ListenerState]
    /\ next_print \in [Bridges -> PrintInfo \cup {None}]
    /\ canceled \in [Bridges -> BOOLEAN]
    /\ print_info \in [Bridges -> PrintInfo \cup {None}]
    /\ reader \in [Bridges -> ReaderState]
    /\ line \in [Bridges -> PrinterLine \cup {None}]
    /\ action \in [Bridges -> BridgeAction \cup {None}]
    /\ collected \in [Bridges -> BOOLEAN]
    /\ collected_responses \in [Bridges -> Seq(PrinterLine)]
    /\ has_collected_capabilities \in [Bridges -> BOOLEAN]
    /\ commands_left_to_send \in [Bridges -> Seq(SetupCommands \cup {None})]
    /\ \A b \in Bridges :
         /\ listener[b] \in {"startCheck", "start"} => next_print[b] \in PrintInfo
         /\ Locked(b) => print_info[b] \in PrintInfo
         /\ reader[b] \in Working => line[b] \in PrinterLine
         /\ reader[b] \in {"print", "progress"} =>
              action[b] \in BridgeAction /\ action[b].kind # "Error"

\* Bridge::new, and what start() and the tasks it spawns begin with.
BridgeInit ==
    /\ start_task = [b \in Bridges |-> "none"]
    /\ timeout = [b \in Bridges |-> "none"]
    /\ listener = [b \in Bridges |-> "none"]
    /\ next_print = [b \in Bridges |-> None]
    /\ canceled = [b \in Bridges |-> FALSE]
    /\ print_info = [b \in Bridges |-> None]
    /\ reader = [b \in Bridges |-> "none"]
    /\ line = [b \in Bridges |-> None]
    /\ action = [b \in Bridges |-> None]
    /\ collected = [b \in Bridges |-> FALSE]
    /\ collected_responses = [b \in Bridges |-> <<>>]
    /\ has_collected_capabilities = [b \in Bridges |-> FALSE]
    /\ commands_left_to_send = [b \in Bridges |-> <<>>]

-----------------------------------------------------------------------------
(* start(): announce, open the port, spawn the other tasks, ask for M115.  *)

StartAnnounces(b) ==
    /\ start_task[b] = "spawned"
    /\ start_task' = [start_task EXCEPT ![b] = "opening"]
    /\ Send(StateUpdate("CONNECTING", b))
    /\ UNCHANGED <<bridge_channel, state, timeout, listenerVars, print_info, readerVars>>

OpenSucceeds(b) ==
    /\ start_task[b] = "opening"
    /\ start_task' = [start_task EXCEPT ![b] = "opened"]
    /\ timeout' = [timeout EXCEPT ![b] = "armed"]
    /\ listener' = [listener EXCEPT ![b] = "starting"]
    /\ reader' = [reader EXCEPT ![b] = "reading"]
    /\ UNCHANGED <<busVars, next_print, canceled, print_info, line, action, collected, setupVars>>

StartAsksFirmware(b) ==
    /\ start_task[b] = "opened"
    /\ start_task' = [start_task EXCEPT ![b] = "done"]
    /\ Send(OutGoing(Command("M115", None)))
    /\ UNCHANGED <<bridge_channel, state, timeout, listenerVars, print_info, readerVars>>

\* A wrong OpenFails: one kind of error is not reported to the manager.
OpenFailsSilently(b) ==
    /\ "open" \in Faults
    /\ start_task[b] = "opening"
    /\ start_task' = [start_task EXCEPT ![b] = "done"]
    /\ UNCHANGED <<busVars, timeout, listenerVars, print_info, readerVars>>

\* NoDevice, Unknown and Io.
OpenFails(b) ==
    /\ "open" \in Faults
    /\ start_task[b] = "opening"
    /\ start_task' = [start_task EXCEPT ![b] = "done"]
    /\ Send(CreateBridgeError)
    /\ UNCHANGED <<bridge_channel, state, timeout, listenerVars, print_info, readerVars>>

\* todo!() on InvalidInput, or, with the timer already running, the expect()s
\* on set_timeout and try_clone.
OpenPanics(b) ==
    /\ "configure" \in Faults
    /\ start_task[b] = "opening"
    /\ start_task' = [start_task EXCEPT ![b] = "done"]
    /\ \E t \in {"none", "armed"} : timeout' = [timeout EXCEPT ![b] = t]
    /\ PanicHook
    /\ UNCHANGED <<bridge_channel, state, listenerVars, print_info, readerVars>>

-----------------------------------------------------------------------------
(* spawn_timeout.  Ten seconds are long for the main loop, which polls     *)
(* every 300 ms at the latest: the timer does not run out before the       *)
(* CONNECTING update sent ahead of it has been handled.                    *)

\* A wrong TimeoutElapses: it reports unless the state is CONNECTING.
TimeoutElapsesInverted(b) ==
    /\ timeout[b] = "armed"
    /\ ~ Contains(distributor, StateUpdate("CONNECTING", b))
    /\ timeout' = [timeout EXCEPT ![b] =
                     IF state.state # "CONNECTING" THEN "expired" ELSE "done"]
    /\ UNCHANGED <<busVars, start_task, listenerVars, print_info, readerVars>>

TimeoutElapses(b) ==
    /\ timeout[b] = "armed"
    /\ ~ Contains(distributor, StateUpdate("CONNECTING", b))
    /\ timeout' = [timeout EXCEPT ![b] =
                     IF state.state = "CONNECTING" THEN "expired" ELSE "done"]
    /\ UNCHANGED <<busVars, start_task, listenerVars, print_info, readerVars>>

TimeoutReports(b) ==
    /\ timeout[b] = "expired"
    /\ timeout' = [timeout EXCEPT ![b] = "done"]
    /\ Send(Errored)
    /\ UNCHANGED <<bridge_channel, state, start_task, listenerVars, print_info, readerVars>>

-----------------------------------------------------------------------------
(* spawn_event_listener.  All listeners alive take from the one channel.   *)

\* It begins with the unwrap() of the baud rate of its clone of the port.
ListenerStarts(b) ==
    /\ listener[b] = "starting"
    /\ listener' = [listener EXCEPT ![b] = "running"]
    /\ UNCHANGED <<busVars, startVars, next_print, canceled, print_info, readerVars>>

ListenerPanics(b) ==
    /\ "configure" \in Faults
    /\ listener[b] = "starting"
    /\ listener' = [listener EXCEPT ![b] = "exited"]
    /\ PanicHook
    /\ UNCHANGED <<bridge_channel, state, startVars, next_print, canceled, print_info, readerVars>>

Takes(b, type) ==
    /\ listener[b] = "running"
    /\ bridge_channel # <<>>
    /\ Head(bridge_channel).type = type
    /\ bridge_channel' = Tail(bridge_channel)

ListenerGoesTo(b, s) == listener' = [listener EXCEPT ![b] = s]

\* A wrong ListenerKilled: it sets is_canceled but does not break.
ListenerKilledStays(b) ==
    /\ Takes(b, "KillBridge")
    /\ canceled' = [canceled EXCEPT ![b] = TRUE]
    /\ UNCHANGED <<distributor, state, startVars, listener, next_print, print_info, readerVars>>

ListenerKilled(b) ==
    /\ Takes(b, "KillBridge")
    /\ canceled' = [canceled EXCEPT ![b] = TRUE]
    /\ ListenerGoesTo(b, "exited")
    /\ UNCHANGED <<distributor, state, startVars, next_print, print_info, readerVars>>

\* The write to the port fails or not; a failure does not end the listener.
ListenerWrites(b) ==
    /\ Takes(b, "OutGoingTerminalMessage")
    /\ \/ "write" \in Faults /\ Send(Errored)
       \/ UNCHANGED distributor
    /\ UNCHANGED <<state, startVars, listenerVars, print_info, readerVars>>

ListenerTakesPrintEnd(b) ==
    /\ Takes(b, "PrintEnd")
    /\ ListenerGoesTo(b, "endCheck")
    /\ UNCHANGED <<distributor, state, startVars, next_print, canceled, print_info, readerVars>>

ListenerTakesPrintStart(b) ==
    /\ Takes(b, "PrintStart")
    /\ ListenerGoesTo(b, "startCheck")
    /\ next_print' = [next_print EXCEPT ![b] = Head(bridge_channel).info]
    /\ UNCHANGED <<distributor, state, startVars, canceled, print_info, readerVars>>

\* `return ()` in a wrong state: the listener ends without setting is_canceled.
ListenerChecks(b) ==
    /\ \/ listener[b] = "endCheck" /\ state.state = "PRINTING" /\ ListenerGoesTo(b, "end")
       \/ listener[b] = "endCheck" /\ state.state # "PRINTING" /\ ListenerGoesTo(b, "exited")
       \/ listener[b] = "startCheck" /\ state.state = "CONNECTED" /\ ListenerGoesTo(b, "start")
       \/ listener[b] = "startCheck" /\ state.state # "CONNECTED" /\ ListenerGoesTo(b, "exited")
    /\ UNCHANGED <<busVars, startVars, next_print, canceled, print_info, readerVars>>

\* A wrong ListenerEndsPrint: the state is sent before the print is cleared.
ListenerEndsPrintSwapped(b) ==
    /\ \/ /\ listener[b] = "end"
          /\ ListenerGoesTo(b, "ended")
          /\ Send(StateUpdate("CONNECTED", None))
          /\ UNCHANGED print_info
       \/ /\ listener[b] = "ended"
          /\ ~ Locked(b)
          /\ ListenerGoesTo(b, "running")
          /\ print_info' = [print_info EXCEPT ![b] = None]
          /\ UNCHANGED distributor
    /\ UNCHANGED <<bridge_channel, state, startVars, next_print, canceled, readerVars>>

\* Another wrong one: the listener returns once the print has ended.
ListenerEndsWithPrint(b) ==
    /\ \/ /\ listener[b] = "end"
          /\ ~ Locked(b)
          /\ ListenerGoesTo(b, "ended")
          /\ print_info' = [print_info EXCEPT ![b] = None]
          /\ UNCHANGED distributor
       \/ /\ listener[b] = "ended"
          /\ ListenerGoesTo(b, "exited")
          /\ Send(StateUpdate("CONNECTED", None))
          /\ UNCHANGED print_info
    /\ UNCHANGED <<bridge_channel, state, startVars, next_print, canceled, readerVars>>

\* The print is cleared; its guard is gone when the state is sent.
ListenerEndsPrint(b) ==
    /\ \/ /\ listener[b] = "end"
          /\ ~ Locked(b)
          /\ ListenerGoesTo(b, "ended")
          /\ print_info' = [print_info EXCEPT ![b] = None]
          /\ UNCHANGED distributor
       \/ /\ listener[b] = "ended"
          /\ ListenerGoesTo(b, "running")
          /\ Send(StateUpdate("CONNECTED", None))
          /\ UNCHANGED print_info
    /\ UNCHANGED <<bridge_channel, state, startVars, next_print, canceled, readerVars>>

\* b works on print p.
Printing(b, p) == print_info[b] # None /\ print_info[b].print = p

\* print_info is locked, set, and stays locked until both events are sent.
ListenerStartsPrint(b) ==
    /\ listener[b] = "start"
    /\ ~ Locked(b)
    /\ ListenerGoesTo(b, "started")
    /\ print_info' = [print_info EXCEPT ![b] = next_print[b]]
    /\ next_print' = [next_print EXCEPT ![b] = None]
    /\ Send(StateUpdate("PRINTING", next_print[b].print))
    /\ UNCHANGED <<bridge_channel, state, startVars, canceled, readerVars>>

ListenerSendsPreamble(b) ==
    /\ listener[b] = "started"
    /\ ListenerGoesTo(b, "running")
    /\ Send(OutGoing(Command("M110 N0", print_info[b].print)))
    /\ UNCHANGED <<bridge_channel, state, startVars, next_print, canceled, print_info, readerVars>>

ListenerStep(b) ==
    \/ ListenerStarts(b)
    \/ ListenerPanics(b)
    \/ ListenerKilled(b)
    \/ ListenerWrites(b)
    \/ ListenerTakesPrintEnd(b)
    \/ ListenerTakesPrintStart(b)
    \/ ListenerChecks(b)
    \/ ListenerEndsPrint(b)
    \/ ListenerStartsPrint(b)
    \/ ListenerSendsPreamble(b)

-----------------------------------------------------------------------------
(* spawn_bridge_serial_reader: bytes are collected up to a newline.        *)

ReaderReceives(b, l) ==
    /\ reader[b] = "reading"
    /\ ~ canceled[b]
    /\ Len(distributor) + Len(bridge_channel) < MaxQueued
    /\ l.ok \/ Len(collected_responses[b]) < MaxResponses
    /\ reader' = [reader EXCEPT ![b] = "line"]
    /\ line' = [line EXCEPT ![b] = [l EXCEPT !.ok = l.ok \/ collected[b]]]
    /\ collected' = [collected EXCEPT ![b] = FALSE]
    /\ UNCHANGED <<busVars, startVars, listenerVars, print_info, action, setupVars>>

ReaderIoError(b) ==
    /\ "read" \in Faults
    /\ reader[b] = "reading"
    /\ ~ canceled[b]
    /\ reader' = [reader EXCEPT ![b] = "failed"]
    /\ UNCHANGED <<busVars, startVars, listenerVars, print_info, line, action, collected,
                   setupVars>>

ReaderFailed(b) ==
    /\ reader[b] = "failed"
    /\ reader' = [reader EXCEPT ![b] = "exited"]
    /\ Send(Errored)
    /\ UNCHANGED <<bridge_channel, state, startVars, listenerVars, print_info, line, action,
                   collected, setupVars>>

\* A wrong ReaderStops: is_canceled is checked after a line only, not when
\* the port stays silent.
ReaderStopsAfterLine(b) ==
    /\ reader[b] = "line"
    /\ canceled[b]
    /\ reader' = [reader EXCEPT ![b] = "exited"]
    /\ UNCHANGED <<busVars, startVars, listenerVars, print_info, line, action, collected,
                   setupVars>>

ReaderStops(b) ==
    /\ reader[b] = "reading"
    /\ canceled[b]
    /\ reader' = [reader EXCEPT ![b] = "exited"]
    /\ UNCHANGED <<busVars, startVars, listenerVars, print_info, line, action, collected,
                   setupVars>>

\* The reader goes to s; the line it worked on is dropped when it reads on.
ReaderGoesTo(b, s) ==
    /\ reader' = [reader EXCEPT ![b] = s]
    /\ line' = IF s \in Working THEN line ELSE [line EXCEPT ![b] = None]

Collect(b, l) ==
    collected_responses' = [collected_responses EXCEPT ![b] = Append(@, l)]

ForgetResponses(b) ==
    collected_responses' = [collected_responses EXCEPT ![b] = <<>>]

IsError(l) == l.kind \in {"error", "Error"} /\ ~ l.ok

ReaderLineConnecting(b) ==
    /\ reader[b] = "line"
    /\ state.state = "CONNECTING"
    /\ ReaderGoesTo(b, "connecting")
    /\ UNCHANGED <<busVars, startVars, listenerVars, print_info, action, collected, setupVars>>

\* An error line is reported, and handled on.
ReaderReportsError(b) ==
    /\ reader[b] = "connecting"
    /\ IF IsError(line[b]) THEN Send(Errored) ELSE UNCHANGED distributor
    /\ ReaderGoesTo(b, "handshake")
    /\ UNCHANGED <<bridge_channel, state, startVars, listenerVars, print_info, action, collected,
                   setupVars>>

\* `state` is read again: only now does CONNECTING decide on the set-up phase.
InSetup(b) == has_collected_capabilities[b] /\ state.state = "CONNECTING"

ReaderChecksSetup(b) ==
    /\ reader[b] = "handshake"
    /\ ReaderGoesTo(b, IF InSetup(b) THEN "setup" ELSE "capabilities")
    /\ UNCHANGED <<busVars, startVars, listenerVars, print_info, action, collected, setupVars>>

(***************************************************************************)
(* The commands pushed for the collected lines, in their order: at most one*)
(* per line, None where the vector of the code has nothing.  pop() takes   *)
(* the last one.                                                           *)
(***************************************************************************)
CommandFor(l) ==
    CASE l.kind = "capTemp"   -> "M155 S2"
      [] l.kind = "capEeprom" -> "M501"
      [] OTHER                -> None

CommandsFor(responses) == [i \in 1 .. Len(responses) |-> CommandFor(responses[i])]

LastCommand(commands) ==
    {i \in 1 .. Len(commands) :
        commands[i] # None /\ \A j \in i + 1 .. Len(commands) : commands[j] = None}

ReaderConnected(b) ==
    /\ reader[b] = "setup"
    /\ LastCommand(commands_left_to_send[b]) = {}
    /\ Send(StateUpdate("CONNECTED", None))
    /\ ForgetResponses(b)
    /\ ReaderGoesTo(b, "reading")
    /\ UNCHANGED <<bridge_channel, state, startVars, listenerVars, print_info, action, collected,
                   has_collected_capabilities, commands_left_to_send>>

ReaderSendsSetup(b) ==
    LET commands == commands_left_to_send[b] IN
    /\ reader[b] = "setup"
    /\ \E last \in LastCommand(commands) :
          /\ Send(OutGoing(Command(commands[last], None)))
          /\ commands_left_to_send' =
                [commands_left_to_send EXCEPT ![b] = SubSeq(commands, 1, last - 1)]
    /\ ReaderGoesTo(b, "reading")
    /\ UNCHANGED <<bridge_channel, state, startVars, listenerVars, print_info, action, collected,
                   collected_responses, has_collected_capabilities>>

ReaderCollects(b) ==
    /\ reader[b] = "capabilities"
    /\ ~ line[b].ok
    /\ Collect(b, line[b])
    /\ ReaderGoesTo(b, "reading")
    /\ UNCHANGED <<busVars, startVars, listenerVars, print_info, action, collected,
                   has_collected_capabilities, commands_left_to_send>>

\* `continue` without clearing `collected`: the next line is read as an "ok" line.
ReaderLeavesOk(b) ==
    /\ reader[b] = "capabilities"
    /\ line[b].ok
    /\ collected_responses[b] = <<>>
    /\ collected' = [collected EXCEPT ![b] = TRUE]
    /\ ReaderGoesTo(b, "reading")
    /\ UNCHANGED <<busVars, startVars, listenerVars, print_info, action, setupVars>>

IsMarlin(l) == l.kind = "firmware" /\ ~ l.ok

ReaderAsksAgain(b) ==
    /\ reader[b] = "capabilities"
    /\ line[b].ok
    /\ collected_responses[b] # <<>>
    /\ ~ IsMarlin(Head(collected_responses[b]))
    /\ ForgetResponses(b)
    /\ Send(OutGoing(Command("M115", None)))
    /\ ReaderGoesTo(b, "reading")
    /\ UNCHANGED <<bridge_channel, state, startVars, listenerVars, print_info, action, collected,
                   has_collected_capabilities, commands_left_to_send>>

ReaderHasCapabilities(b) ==
    /\ reader[b] = "capabilities"
    /\ line[b].ok
    /\ collected_responses[b] # <<>>
    /\ IsMarlin(Head(collected_responses[b]))
    /\ commands_left_to_send' =
          [commands_left_to_send EXCEPT ![b] = @ \o CommandsFor(collected_responses[b])]
    /\ has_collected_capabilities' = [has_collected_capabilities EXCEPT ![b] = TRUE]
    /\ Send(OutGoing(Command("G90", None)))
    /\ Collect(b, line[b])
    /\ ReaderGoesTo(b, "reading")
    /\ UNCHANGED <<bridge_channel, state, startVars, listenerVars, print_info, action, collected>>

ReaderLine(b) ==
    /\ reader[b] = "line"
    /\ state.state # "CONNECTING"
    /\ IF line[b].kind = "temp" THEN UNCHANGED collected_responses ELSE Collect(b, line[b])
    /\ ReaderGoesTo(b, IF line[b].ok THEN "ok" ELSE "reading")
    /\ UNCHANGED <<busVars, startVars, listenerVars, print_info, action, collected,
                   has_collected_capabilities, commands_left_to_send>>

-----------------------------------------------------------------------------
(* handle_ok_response                                                      *)

\* parse_responses returns at the first response that means something to it.
Decides(l) == l.kind \in {"resend", "number"} \/ (l.kind = "error" /\ ~ l.ok)

Deciding(responses) ==
    {i \in 1 .. Len(responses) :
        Decides(responses[i]) /\ \A j \in 1 .. i - 1 : ~ Decides(responses[j])}

Meaning(l) ==
    CASE l.kind = "resend" -> [kind |-> "Resend", n |-> l.n]
      [] l.kind = "number" -> [kind |-> "Continue", n |-> l.n]
      [] l.kind = "error"  -> [kind |-> "Error", n |-> None]

ParseResponses(responses) ==
    IF Deciding(responses) = {} THEN {[kind |-> "Continue", n |-> None]}
    ELSE {Meaning(responses[i]) : i \in Deciding(responses)}

\* `state` is read after the parsing: outside PRINTING an ok has no effect.
ReaderOk(b) ==
    /\ reader[b] = "ok"
    /\ ForgetResponses(b)
    /\ \E a \in ParseResponses(collected_responses[b]) :
          \/ /\ a.kind = "Error"
             /\ Send(Errored)
             /\ ReaderGoesTo(b, "reading")
             /\ UNCHANGED action
          \/ /\ a.kind # "Error"
             /\ state.state # "PRINTING"
             /\ ReaderGoesTo(b, "reading")
             /\ UNCHANGED <<action, distributor>>
          \/ /\ a.kind # "Error"
             /\ state.state = "PRINTING"
             /\ ReaderGoesTo(b, "print")
             /\ action' = [action EXCEPT ![b] = a]
             /\ UNCHANGED distributor
    /\ UNCHANGED <<bridge_channel, state, startVars, listenerVars, print_info, collected,
                   has_collected_capabilities, commands_left_to_send>>

\* The reader is done with `action`.
Handled(b, s) ==
    /\ action' = [action EXCEPT ![b] = None]
    /\ reader' = [reader EXCEPT ![b] = s]
    /\ UNCHANGED <<state, startVars, listenerVars, line, collected, setupVars>>

\* A wrong InBounds: the number of a line, as if there was always a next one.
InBoundsButLast(info, n) == n + 1 < info.length

\* set_line_number panics beyond this.
InBounds(info, n) == n <= info.length + 1

\* A wrong HasLine: the last line of the file is taken to be past its end.
HasLineButLast(info, n) == n + 1 < info.length

\* get_line_by_index is Some.
HasLine(info, n) == n < info.length

\* The line a Continue asks for.
Wanted(a) == IF a.n = None THEN 1 ELSE a.n + 1

SendLine(b) ==
    LET info == print_info[b]
        n    == Wanted(action[b])
    IN  IF HasLine(info, n) THEN Send(OutGoing(NumberedLine(info.print, n))) ELSE Send(PrintEnd)

\* The progress is announced first when its first decimal moved, which is up to the bytes.
SendProgress(b) ==
    /\ HasLine(print_info[b], Wanted(action[b]))
    /\ Send(StateUpdate("PRINTING", print_info[b].print))
    /\ reader' = [reader EXCEPT ![b] = "progress"]
    /\ UNCHANGED <<state, startVars, listenerVars, line, action, collected, setupVars>>

\* No print any more, or the echo of something else than a numbered line.
ReaderIgnoresOk(b) ==
    /\ reader[b] = "print"
    /\ ~ Locked(b)
    /\ print_info[b] # None =>
          action[b] = [kind |-> "Continue", n |-> None] /\ print_info[b].line_number # 0
    /\ Handled(b, "reading")
    /\ UNCHANGED <<distributor, bridge_channel, print_info>>

ReaderFirstLine(b) ==
    /\ reader[b] = "print"
    /\ ~ Locked(b)
    /\ print_info[b] # None
    /\ action[b] = [kind |-> "Continue", n |-> None]
    /\ print_info[b].line_number = 0
    /\ (SendLine(b) /\ Handled(b, "reading")) \/ SendProgress(b)
    /\ print_info' = [print_info EXCEPT ![b].line_number = 1]
    /\ UNCHANGED bridge_channel

ReaderNextLine(b) ==
    LET n == action[b].n IN
    /\ reader[b] = "print"
    /\ ~ Locked(b)
    /\ print_info[b] # None
    /\ action[b].kind = "Continue"
    /\ n # None
    /\ InBounds(print_info[b], n)
    /\ (SendLine(b) /\ Handled(b, "reading")) \/ SendProgress(b)
    /\ print_info' = [print_info EXCEPT ![b].line_number = n]
    /\ UNCHANGED bridge_channel

\* A wrong ReaderSendsLine: it returns after the progress.
ReaderReturnsEarly(b) ==
    /\ reader[b] = "progress"
    /\ Handled(b, "reading")
    /\ UNCHANGED <<distributor, bridge_channel, print_info>>

\* print_info has been locked since.
ReaderSendsLine(b) ==
    /\ reader[b] = "progress"
    /\ SendLine(b)
    /\ Handled(b, "reading")
    /\ UNCHANGED <<bridge_channel, print_info>>

\* A wrong Resent: the counter is decremented.
ResentDown(info) == [info EXCEPT !.resend_amount = @ - 1]

Resent(info) == [info EXCEPT !.resend_amount = @ + 1]

TooManyResends(info) == info.resend_amount * ResendScale > info.length

\* Neither Continue nor Resend gets past set_line_number: the task dies.
ReaderPanics(b) ==
    /\ reader[b] = "print"
    /\ ~ Locked(b)
    /\ print_info[b] # None
    /\ action[b].n # None
    /\ ~ InBounds(print_info[b], action[b].n)
    /\ \/ /\ action[b].kind = "Continue"
          /\ UNCHANGED print_info
       \/ /\ action[b].kind = "Resend"
          /\ ~ TooManyResends(Resent(print_info[b]))
          /\ print_info' = [print_info EXCEPT ![b] = Resent(@)]
    /\ PanicHook
    /\ Handled(b, "exited")
    /\ UNCHANGED bridge_channel

\* A wrong ReaderRefusesResend: the request is ignored.
ReaderIgnoresResend(b) ==
    /\ reader[b] = "print"
    /\ ~ Locked(b)
    /\ print_info[b] # None
    /\ action[b].kind = "Resend"
    /\ TooManyResends(Resent(print_info[b]))
    /\ print_info' = [print_info EXCEPT ![b] = Resent(@)]
    /\ Handled(b, "reading")
    /\ UNCHANGED <<distributor, bridge_channel>>

ReaderRefusesResend(b) ==
    /\ reader[b] = "print"
    /\ ~ Locked(b)
    /\ print_info[b] # None
    /\ action[b].kind = "Resend"
    /\ TooManyResends(Resent(print_info[b]))
    /\ print_info' = [print_info EXCEPT ![b] = Resent(@)]
    /\ Send(Errored)
    /\ Handled(b, "reading")
    /\ UNCHANGED bridge_channel

\* The line goes straight to the bridge channel, past whatever main has queued.
ReaderResends(b) ==
    LET n == action[b].n IN
    /\ reader[b] = "print"
    /\ ~ Locked(b)
    /\ print_info[b] # None
    /\ action[b].kind = "Resend"
    /\ ~ TooManyResends(Resent(print_info[b]))
    /\ InBounds(print_info[b], n)
    /\ print_info' = [print_info EXCEPT ![b] = [Resent(@) EXCEPT !.line_number = n]]
    /\ IF HasLine(print_info[b], n)
       THEN SendToBridge(OutGoing(NumberedLine(print_info[b].print, n))) /\ UNCHANGED distributor
       ELSE Send(Errored) /\ UNCHANGED bridge_channel
    /\ Handled(b, "reading")

ReaderHandshake(b) ==
    \/ ReaderLineConnecting(b)
    \/ ReaderReportsError(b)
    \/ ReaderChecksSetup(b)
    \/ ReaderConnected(b)
    \/ ReaderSendsSetup(b)
    \/ ReaderCollects(b)
    \/ ReaderLeavesOk(b)
    \/ ReaderAsksAgain(b)
    \/ ReaderHasCapabilities(b)

HandleOkResponse(b) ==
    \/ ReaderOk(b)
    \/ ReaderIgnoresOk(b)
    \/ ReaderFirstLine(b)
    \/ ReaderNextLine(b)
    \/ ReaderSendsLine(b)
    \/ ReaderPanics(b)
    \/ ReaderRefusesResend(b)
    \/ ReaderResends(b)

\* What the reader does by itself: all but hearing from the printer.
ReaderStep(b) ==
    \/ ReaderFailed(b)
    \/ ReaderStops(b)
    \/ ReaderLine(b)
    \/ ReaderHandshake(b)
    \/ HandleOkResponse(b)

StartStep(b) ==
    \/ StartAnnounces(b)
    \/ OpenSucceeds(b)
    \/ StartAsksFirmware(b)
    \/ OpenFails(b)
    \/ OpenPanics(b)

TimeoutStep(b) ==
    \/ TimeoutElapses(b)
    \/ TimeoutReports(b)

BridgeStep(b) ==
    \/ StartStep(b)
    \/ TimeoutStep(b)
    \/ ListenerStep(b)
    \/ ReaderStep(b)
    \/ ReaderIoError(b)
    \/ \E l \in Lines : ReaderReceives(b, l)
=============================================================================
