------------------------------- MODULE PrintJob -------------------------------
(***************************************************************************)
(* Server with a printer at the other end of the serial port: how the      *)
(* lines of a file get there, one for each "ok" (bridge.rs 132-271 and     *)
(* 534-628).  It begins when the connection has been set up.  Nobody opens *)
(* another one after it: it may be closed or given up, but no request      *)
(* creates one or reconnects, and no other bridge takes a step.            *)
(*                                                                         *)
(* The printer is external.  It is a Marlin with ADVANCED_OK, which is what*)
(* LINENR and RESEND of parser.rs expect: it numbers its oks, executes line*)
(* n only after line n - 1, and asks for the line it waits for when it gets*)
(* another one or one whose checksum is wrong.  Only numbered lines have a *)
(* checksum.  Anything it says may be lost, which TCP would prevent and a  *)
(* serial line does not.                                                   *)
(***************************************************************************)
EXTENDS Server

CONSTANTS
    connection,   \* the request that opened the connection
    Corruptions,  \* bound on the lines that get to the printer damaged
    Losses        \* bound on the lines of the printer that get lost

ASSUME PrintJobAssumption ==
    /\ connection \in Requests
    /\ Corruptions \in Nat
    /\ Losses \in Nat
    /\ Faults = {}
    /\ \A r \in Requests : Routes[r] \cap {"boot", "create", "reconnect"} = {}
    /\ \E len \in GcodeLengths : TRUE

VARIABLES
    to_printer,    \* written to the port, not read by the printer yet
    from_printer,  \* lines sent by the printer, not read by the server yet
    last_line,     \* the printer's line number
    executed,      \* the lines of each print that the printer executed
    finished,      \* the prints whose end was reached by the reader
    damaged, lost  \* how often the line failed

printerVars == <<from_printer, last_line, executed, damaged>>
jobVars == <<to_printer, printerVars, finished, lost>>

OkLine         == [ok |-> TRUE, kind |-> "plain", n |-> 0]
NumberedOk(k)  == [ok |-> TRUE, kind |-> "number", n |-> k]
LineError      == [ok |-> FALSE, kind |-> "Error", n |-> 0]
ResendLine(k)  == [ok |-> FALSE, kind |-> "resend", n |-> k]

JobTypeOK ==
    /\ TypeOK
    /\ to_printer \in Seq(Message)
    /\ from_printer \in Seq(PrinterLine)
    /\ last_line \in Nat
    /\ executed \in [Prints -> Seq(Nat)]
    /\ finished \subseteq Prints
    /\ damaged \in 0..Corruptions
    /\ lost \in 0..Losses
    \* The printer's counter is that of the last line it executed.
    /\ last_line # 0 => \E p \in Prints : executed[p] # <<>> /\ executed[p][Len(executed[p])] = last_line

For(there, others) == [b \in Bridges |-> IF b = connection THEN there ELSE others]

\* The state that ReaderConnected leaves, once its update was stored.
JobInit ==
    /\ distributor = <<>>
    /\ bridge_channel = <<>>
    /\ state = Wrapper("CONNECTED", None)
    /\ main = "recv"
    /\ bridge_thread = connection
    /\ start_task = For("done", "none")
    /\ timeout = For("done", "none")
    /\ listener = For("running", "none")
    /\ next_print = For(None, None)
    /\ canceled = For(FALSE, FALSE)
    /\ print_info = For(None, None)
    /\ reader = For("reading", "none")
    /\ line = For(None, None)
    /\ action = For(None, None)
    /\ collected = For(FALSE, FALSE)
    /\ collected_responses = For(<<>>, <<>>)
    /\ has_collected_capabilities = For(TRUE, FALSE)
    /\ commands_left_to_send = For(<<>>, <<>>)
    /\ req = For("done", "idle")
    /\ booted = TRUE
    /\ to_printer = <<>>
    /\ from_printer = <<>>
    /\ last_line = 0
    /\ executed = [p \in Prints |-> <<>>]
    /\ finished = {}
    /\ damaged = 0
    /\ lost = 0

-----------------------------------------------------------------------------
(* The server's tasks                                                      *)

JobManager  == ManagerNext /\ UNCHANGED jobVars
JobRoute(r) == RouteNext(r) /\ UNCHANGED jobVars

\* The event that the listener takes is a message: it is written to the port.
Written ==
    IF listener[connection] = "running" /\ bridge_channel # <<>>
         /\ Head(bridge_channel).type = "OutGoingTerminalMessage"
    THEN <<Head(bridge_channel).message>> ELSE <<>>

JobListener ==
    /\ ListenerStep(connection)
    /\ to_printer' = to_printer \o Written
    /\ UNCHANGED <<managerVars, routesVars, printerVars, finished, lost>>

\* The reader reports the end of the file, not a client.
JobReader ==
    /\ ReaderStep(connection)
    /\ finished' = IF distributor' = Append(distributor, PrintEnd)
                   THEN finished \cup {print_info[connection].print} ELSE finished
    /\ UNCHANGED <<managerVars, routesVars, to_printer, printerVars, lost>>

JobReceives ==
    /\ from_printer # <<>>
    /\ ReaderReceives(connection, Head(from_printer))
    /\ from_printer' = Tail(from_printer)
    /\ UNCHANGED <<managerVars, routesVars, to_printer, last_line, executed, damaged, finished,
                   lost>>

-----------------------------------------------------------------------------
(* The printer and the line                                                *)

serverVars == <<busVars, managerVars, bridgeVars, routesVars>>

Replies(lines) == from_printer' = from_printer \o lines

PrinterResets(m) ==
    /\ m.command = "M110 N0"
    /\ last_line' = 0
    /\ Replies(<<OkLine>>)
    /\ UNCHANGED <<executed, damaged>>

PrinterObeys(m) ==
    /\ m.command \notin {"M110 N0", "line"}
    /\ Replies(<<OkLine>>)
    /\ UNCHANGED <<last_line, executed, damaged>>

PrinterExecutes(m) ==
    /\ m.command = "line"
    /\ m.n = last_line + 1
    /\ last_line' = m.n
    /\ executed' = [executed EXCEPT ![m.of] = Append(@, m.n)]
    /\ Replies(<<NumberedOk(m.n)>>)
    /\ UNCHANGED damaged

AsksAgain ==
    /\ Replies(<<LineError, ResendLine(last_line + 1), OkLine>>)
    /\ UNCHANGED <<last_line, executed>>

PrinterRejects(m) ==
    /\ m.command = "line"
    /\ m.n # last_line + 1
    /\ AsksAgain
    /\ UNCHANGED damaged

PrinterGetsDamaged(m) ==
    /\ m.command = "line"
    /\ damaged < Corruptions
    /\ damaged' = damaged + 1
    /\ AsksAgain

PrinterStep ==
    /\ to_printer # <<>>
    /\ to_printer' = Tail(to_printer)
    /\ \/ PrinterResets(Head(to_printer))
       \/ PrinterObeys(Head(to_printer))
       \/ PrinterExecutes(Head(to_printer))
       \/ PrinterRejects(Head(to_printer))
       \/ PrinterGetsDamaged(Head(to_printer))
    /\ UNCHANGED <<serverVars, finished, lost>>

LineLost ==
    /\ from_printer # <<>>
    /\ lost < Losses
    /\ lost' = lost + 1
    /\ from_printer' = Tail(from_printer)
    /\ UNCHANGED <<serverVars, to_printer, last_line, executed, damaged, finished>>

JobNext ==
    /\ main # "panicked"
    /\ \/ JobManager
       \/ \E r \in Requests : JobRoute(r)
       \/ JobListener
       \/ JobReader
       \/ JobReceives
       \/ PrinterStep
       \/ LineLost

jobAllVars == <<vars, jobVars>>

JobSpec == JobInit /\ [][JobNext]_jobAllVars

(***************************************************************************)
(* The fairness of Server, and a printer that reads what it is sent and    *)
(* answers it.                                                             *)
(***************************************************************************)
JobFairness ==
    /\ WF_jobAllVars(Running(JobManager))
    /\ WF_jobAllVars(Running(JobListener))
    /\ WF_jobAllVars(Running(JobReader))
    /\ WF_jobAllVars(Running(JobReceives))
    /\ WF_jobAllVars(Running(PrinterStep))
    /\ \A r \in Requests :
         WF_jobAllVars(Running(HandlerStep(r) /\ UNCHANGED <<managerVars, bridgeVars, jobVars>>))

FairJobSpec == JobSpec /\ JobFairness

-----------------------------------------------------------------------------

\* The lines of the file: gcode without its leading M110 N0.
FileLength == (CHOOSE len \in GcodeLengths : TRUE) - 1

Printed == INSTANCE Printout WITH Length <- FileLength, printed <- executed

\* With damaged lines, lost answers, a cancel or a terminal message, a print on an idle
\* connection is a printout: every line once and in order, and the end only after the last
\* (bridge.rs 147-206 and 225-271, models.rs 336-370).
ImplementsPrintout == Printed!Spec

Issued(route) == {r \in Requests : route \in Routes[r] /\ req[r] # "idle"}

\* Clients have ended the print: by a cancel, by closing the connection, or with another
\* print, which ends the listener if it is taken in PRINTING (bridge.rs 587-590).
Disturbed ==
    \/ Issued("cancel") \cup Issued("disconnect") # {}
    \/ Cardinality(Issued("print")) > 1

\* The printer has asked for more lines again than the server puts up with.
Refused == print_info[connection] # None /\ TooManyResends(print_info[connection])

\* A print is finished unless clients end it, it is refused for its resends, or something
\* the printer says gets lost: each ok brings the next line, each resend request the line
\* that is asked for (bridge.rs 147-206 and 225-271).
PrintFinishes ==
    \A p \in Prints : InPrint(p) ~> (p \in finished \/ Disturbed \/ Refused \/ lost # 0)

\* A message for the printer is written to the port, before, during and after a print that
\* nobody ends and that is not refused: the end of a print does not end the listener.  (A
\* cancel may add a second PrintEnd, which does; bridge.rs 573-590.)
MessageGetsThere ==
    \A r \in Requests :
        Contains(distributor, OutGoing(Command("user", r))) ~>
            Contains(to_printer, Command("user", r)) \/ Disturbed \/ Refused

\* A print that is refused takes its connection with it: the update of the reader comes
\* back as a KillBridge through the main loop and the listener, and the port is closed
\* (bridge.rs 237-244, main.rs 188-201, bridge.rs 537-541 and 478).  Clients that end the
\* print may end the listener before it gets there.
RefusedPrintEnds == Refused ~> (reader[connection] = "exited" \/ Disturbed)

\* In one print no number that the printer acknowledges or asks for makes the serial reader
\* panic, repeated and lost lines included (models.rs 359).
LineNumberInBounds == reader[connection] # "exited" \/ canceled[connection]

\* bridge.rs 646: "Finished print".  The reader reports the end of a file when the printer
\* has executed all of it.
FinishedIsPrinted == \A p \in finished : Len(executed[p]) = FileLength

\* bridge.rs 241: "Resend ratio went above 10%."  A print is refused when more than a tenth
\* of its lines had to be sent again.
RefusedAboveTenPercent ==
    Refused => print_info[connection].resend_amount * 10 > print_info[connection].length

=============================================================================
