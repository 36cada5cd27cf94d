---------------------------- MODULE PrintJobProofs ----------------------------
(***************************************************************************)
(* Theorems about PrintJob.                                                *)
(*                                                                         *)
(* The types are right for any number of prints.  The rest is about one    *)
(* print of one file (OnePrint, OneFile): with a second one an ok that     *)
(* belongs to the first may be counted for it, and none of this is true.   *)
(*                                                                         *)
(* The inductive invariant is JobInv.  It says what is under way between   *)
(* the API and the printer, and back: nothing but the one print and lines  *)
(* of its file (OfTheFile); its M110 N0 goes before its lines all the way  *)
(* to the printer (ResetLeads, on top of PrintInv); until it has arrived   *)
(* the printer has executed no line and named no number (NoneBefore); no   *)
(* number on the way back, collected by the reader or acted upon by it is  *)
(* beyond the printer's own counter (Unheard); and what the printer has    *)
(* executed are the first lines of the file up to that counter (InOrder).  *)
(* So the reader asks for the line after one that was executed, and finds  *)
(* none only after the last.                                               *)
(***************************************************************************)
EXTENDS PrintJob, SafetyProofs

\* An event that was appended is the one that was appended.
LEMMA LastAppended ==
    ASSUME NEW E, NEW q \in Seq(E), NEW e \in E, NEW f \in E
    PROVE  Append(q, e) # q /\ (Append(q, e) = Append(q, f) => e = f)
<1>1. /\ Len(q) \in Nat /\ Len(Append(q, e)) = Len(q) + 1
      /\ Append(q, e)[Len(q) + 1] = e /\ Append(q, f)[Len(q) + 1] = f
  OBVIOUS
<1> QED
  BY <1>1

\* The reader reports the end of a file when the line that is wanted next is not in it.
LEMMA ReaderEnds ==
    ASSUME TypeOK, NEW b \in Bridges, ReaderStep(b),
           distributor' = Append(distributor, PrintEnd)
    PROVE  /\ print_info[b] \in PrintInfo /\ action[b] \in BridgeAction
           /\ SendLine(b) /\ ~ HasLine(print_info[b], Wanted(action[b]))
           /\ \/ ReaderFirstLine(b)
              \/ ReaderNextLine(b)
              \/ ReaderSendsLine(b)
<1>1. distributor \in Seq(EventType) /\ PrintEnd \in EventType
  BY Constructors DEF TypeOK, BusTypeOK
<1>2. ASSUME NEW e \in EventType, e.type # "PrintEnd"
      PROVE  ~ Send(e)
  <2>1. e # PrintEnd
    BY <1>2 DEF PrintEnd
  <2> QED
    BY <1>1, <2>1, LastAppended DEF Send
<1>3. distributor' # distributor
  BY <1>1, LastAppended
<1>4. /\ \A s \in BridgeState, r \in Requests \cup {None} : ~ Send(StateUpdate(s, r))
      /\ ~ Send(Errored)
      /\ \A m \in Message : ~ Send(OutGoing(m))
  <2>1. /\ \A s, r : StateUpdate(s, r).type = "StateUpdate"
        /\ Errored.type = "StateUpdate"
        /\ \A m : OutGoing(m).type = "OutGoingTerminalMessage"
    BY DEF StateUpdate, Errored, OutGoing
  <2> QED
    BY <1>2, <2>1, Constructors
<1>5. ~ ReaderHandshake(b)
  <2> USE DEF ReaderHandshake, ReaderLineConnecting, ReaderReportsError, ReaderChecksSetup,
              ReaderConnected, ReaderCollects, ReaderLeavesOk, ReaderAsksAgain,
              ReaderHasCapabilities, ReaderSendsSetup, busVars
  <2>1. /\ \A c \in Commands : ~ Send(OutGoing(Command(c, None)))
        /\ ~ Send(StateUpdate("CONNECTED", None))
    BY <1>4, Messages DEF BridgeState
  <2>2. ~ ReaderSendsSetup(b)
    <3> SUFFICES ASSUME ReaderSendsSetup(b)
                 PROVE  FALSE
      OBVIOUS
    <3>1. PICK last \in LastCommand(commands_left_to_send[b]) :
            Send(OutGoing(Command(commands_left_to_send[b][last], None)))
      OBVIOUS
    <3>2. commands_left_to_send[b] \in Seq(SetupCommands \cup {None})
      BY DEF TypeOK, BridgeTypeOK
    <3>3. commands_left_to_send[b][last] \in SetupCommands
      BY <3>1, <3>2 DEF LastCommand
    <3>4. SetupCommands \subseteq Commands
      BY DEF SetupCommands, Commands
    <3> QED
      BY <2>1, <3>1, <3>3, <3>4
  <2> QED
    BY <1>3, <1>4, <2>1, <2>2 DEF Commands
<1>6. ~ ReaderFailed(b) /\ ~ ReaderStops(b) /\ ~ ReaderLine(b)
  BY <1>3, <1>4 DEF ReaderFailed, ReaderStops, ReaderLine, busVars
<1>7. /\ ~ ReaderOk(b) /\ ~ ReaderIgnoresOk(b) /\ ~ ReaderPanics(b) /\ ~ ReaderRefusesResend(b)
      /\ ~ ReaderResends(b)
  BY <1>3, <1>4
     DEF ReaderOk, ReaderIgnoresOk, ReaderPanics, ReaderRefusesResend, ReaderResends, PanicHook,
         Errored
<1>8. ReaderFirstLine(b) \/ ReaderNextLine(b) \/ ReaderSendsLine(b)
  BY <1>5, <1>6, <1>7 DEF ReaderStep, HandleOkResponse
<1>9. print_info[b] \in PrintInfo /\ action[b] \in BridgeAction
  BY <1>8 DEF ReaderFirstLine, ReaderNextLine, ReaderSendsLine, TypeOK, BridgeTypeOK, Locked
<1>10. SendLine(b)
  <2>1. ~ SendProgress(b)
    BY <1>4, <1>9 DEF SendProgress, PrintInfo, Prints, BridgeState
  <2> QED
    BY <1>8, <2>1 DEF ReaderFirstLine, ReaderNextLine, ReaderSendsLine
<1>11. ~ HasLine(print_info[b], Wanted(action[b]))
  <2>1. Wanted(action[b]) \in Nat /\ print_info[b].print \in Prints
    BY <1>9 DEF Wanted, BridgeAction, PrintInfo
  <2> QED
    BY <1>4, <1>10, <2>1, Messages DEF SendLine
<1> QED
  BY <1>8, <1>9, <1>10, <1>11

-----------------------------------------------------------------------------
(* Types                                                                   *)

LEMMA PrinterLines ==
    /\ OkLine \in PrinterLine /\ LineError \in PrinterLine
    /\ \A k \in Nat : NumberedOk(k) \in PrinterLine /\ ResendLine(k) \in PrinterLine
BY DEF OkLine, LineError, NumberedOk, ResendLine, PrinterLine, LineKinds

LEMMA ConnectionIsBridge == connection \in Bridges
BY PrintJobAssumption DEF Bridges

\* What is written to the port is the message that the listener takes.
LEMMA WrittenIsTaken ==
    ASSUME TypeOK, ListenerStep(connection)
    PROVE  \/ /\ Written = <<>>
              /\ bridge_channel' = bridge_channel \/
                    /\ bridge_channel # <<>> /\ bridge_channel' = Tail(bridge_channel)
                    /\ Head(bridge_channel).type # "OutGoingTerminalMessage"
           \/ /\ ListenerWrites(connection)
              /\ bridge_channel # <<>> /\ bridge_channel' = Tail(bridge_channel)
              /\ Head(bridge_channel).type = "OutGoingTerminalMessage"
              /\ Head(bridge_channel).message \in Message
              /\ Written = <<Head(bridge_channel).message>>
<1>1. bridge_channel # <<>> => Head(bridge_channel) \in EventType
  BY DEF TypeOK, BusTypeOK
<1>2. CASE ListenerWrites(connection)
  BY <1>1, <1>2, Payloads DEF ListenerWrites, Takes, Written
<1>3. CASE ListenerKilled(connection) \/ ListenerTakesPrintEnd(connection)
           \/ ListenerTakesPrintStart(connection)
  BY <1>3 DEF ListenerKilled, ListenerTakesPrintEnd, ListenerTakesPrintStart, Takes, Written
<1>4. CASE ListenerStarts(connection) \/ ListenerPanics(connection) \/ ListenerChecks(connection)
           \/ ListenerEndsPrint(connection) \/ ListenerStartsPrint(connection)
           \/ ListenerSendsPreamble(connection)
  BY <1>4
     DEF ListenerStarts, ListenerPanics, ListenerChecks, ListenerEndsPrint, ListenerStartsPrint,
         ListenerSendsPreamble, Written, busVars
<1> QED
  BY <1>2, <1>3, <1>4 DEF ListenerStep

\* The variables that the printer and the line share with nobody.
PrinterTypeOK ==
    /\ to_printer \in Seq(Message)
    /\ from_printer \in Seq(PrinterLine)
    /\ last_line \in Nat
    /\ executed \in [Prints -> Seq(Nat)]
    /\ finished \subseteq Prints
    /\ damaged \in 0 .. Corruptions
    /\ lost \in 0 .. Losses

CounterIsLast ==
    last_line # 0 =>
        \E p \in Prints : executed[p] # <<>> /\ executed[p][Len(executed[p])] = last_line

LEMMA JobTypeParts == JobTypeOK <=> TypeOK /\ PrinterTypeOK /\ CounterIsLast
BY DEF JobTypeOK, PrinterTypeOK, CounterIsLast

LEMMA PrinterTypes ==
    ASSUME JobTypeOK, PrinterStep
    PROVE  JobTypeOK'
<1> DEFINE m == Head(to_printer)
<1>1. /\ m \in Message /\ to_printer' \in Seq(Message)
      /\ m.command = "line" => m.of \in Prints /\ m.n \in Nat
  <2>1. m \in Message /\ to_printer' \in Seq(Message)
    BY DEF PrinterStep, JobTypeOK
  <2>2. \A x \in Message : x.command = "line" => x.of \in Prints /\ x.n \in Nat
    BY DEF Message, Commands
  <2> QED
    BY <2>1, <2>2
<1> HIDE DEF m
<1>2. TypeOK'
  BY DEF PrinterStep, serverVars, busVars, managerVars, bridgeVars, routesVars, startVars,
         listenerVars, readerVars, setupVars, JobTypeOK, TypeOK, BusTypeOK, ManagerTypeOK,
         BridgeTypeOK, RoutesTypeOK, Locked
<1>3. /\ from_printer \in Seq(PrinterLine) /\ last_line \in Nat
      /\ executed \in [Prints -> Seq(Nat)] /\ damaged \in 0 .. Corruptions
      /\ finished' \subseteq Prints /\ lost' \in 0 .. Losses /\ Corruptions \in Nat
      /\ CounterIsLast
  BY PrintJobAssumption DEF PrinterStep, JobTypeOK, CounterIsLast
<1>4. \A x \in Seq(PrinterLine) :
        Replies(x) => from_printer' \in Seq(PrinterLine)
  BY <1>3 DEF Replies
<1>5. /\ <<OkLine>> \in Seq(PrinterLine)
      /\ \A k \in Nat : /\ <<NumberedOk(k)>> \in Seq(PrinterLine)
                        /\ <<LineError, ResendLine(k), OkLine>> \in Seq(PrinterLine)
  BY PrinterLines
<1>6. ASSUME AsksAgain
      PROVE  from_printer' \in Seq(PrinterLine) /\ UNCHANGED <<last_line, executed>>
  <2>1. last_line + 1 \in Nat
    BY <1>3
  <2> QED
    BY <1>4, <1>5, <1>6, <2>1 DEF AsksAgain
<1>7. CASE PrinterExecutes(m)
  <2>1. m.of \in Prints /\ m.n \in Nat /\ last_line' = m.n /\ damaged' = damaged
    BY <1>1, <1>7 DEF PrinterExecutes
  <2>2. from_printer' \in Seq(PrinterLine)
    BY <1>4, <1>5, <1>7, <2>1 DEF PrinterExecutes
  <2>3. executed' \in [Prints -> Seq(Nat)] /\ executed'[m.of] = Append(executed[m.of], m.n)
    BY <1>3, <1>7, <2>1 DEF PrinterExecutes
  <2>4. /\ executed'[m.of] # <<>>
        /\ executed'[m.of][Len(executed'[m.of])] = m.n
    <3>1. executed[m.of] \in Seq(Nat)
      BY <1>3, <2>1
    <3> QED
      BY <2>1, <2>3, <3>1
  <2> QED
    BY <1>1, <1>2, <1>3, <2>1, <2>2, <2>3, <2>4 DEF JobTypeOK
<1>8. CASE PrinterResets(m) \/ PrinterObeys(m)
  <2>1. /\ from_printer' \in Seq(PrinterLine) /\ UNCHANGED <<executed, damaged>>
        /\ last_line' = 0 \/ last_line' = last_line
    BY <1>4, <1>5, <1>8 DEF PrinterResets, PrinterObeys
  <2> QED
    BY <1>1, <1>2, <1>3, <2>1 DEF JobTypeOK, CounterIsLast
<1>9. CASE PrinterRejects(m) \/ PrinterGetsDamaged(m)
  <2>1. AsksAgain /\ (damaged' = damaged \/ (damaged < Corruptions /\ damaged' = damaged + 1))
    BY <1>9 DEF PrinterRejects, PrinterGetsDamaged
  <2>2. damaged' \in 0 .. Corruptions
    BY <1>3, <2>1
  <2> QED
    BY <1>1, <1>2, <1>3, <1>6, <2>1, <2>2 DEF JobTypeOK, CounterIsLast
<1> QED
  BY <1>7, <1>8, <1>9 DEF PrinterStep, m

LEMMA JobInitTypes ==
    ASSUME JobInit
    PROVE  JobTypeOK
<1>1. \A x, y : For(x, y) = [b \in Bridges |-> IF b = connection THEN x ELSE y]
  BY DEF For
<1>2. BusTypeOK /\ ManagerTypeOK
  BY ConnectionIsBridge
     DEF JobInit, BusTypeOK, Wrapper, StateWrapper, BridgeState, ManagerTypeOK
<1>3. BridgeTypeOK
  <2>1. \A b \in Bridges :
           /\ listener[b] \in {"running", "none"} /\ reader[b] \in {"reading", "none"}
           /\ start_task[b] \in {"done", "none"} /\ timeout[b] \in {"done", "none"}
           /\ next_print[b] = None /\ print_info[b] = None /\ canceled[b] = FALSE
           /\ line[b] = None /\ action[b] = None /\ collected[b] = FALSE
           /\ collected_responses[b] = <<>> /\ commands_left_to_send[b] = <<>>
           /\ has_collected_capabilities[b] \in BOOLEAN
    BY DEF JobInit, For
  <2>2. \A f \in {start_task, timeout, listener, next_print, canceled, print_info, reader, line,
                  action, collected, collected_responses, has_collected_capabilities,
                  commands_left_to_send} :
           f = [b \in Bridges |-> f[b]]
    BY DEF JobInit, For
  <2>3. \A b \in Bridges : listener[b] \in ListenerState /\ reader[b] \in ReaderState
    BY <2>1 DEF ListenerState, ReaderState
  <2>4. \A b \in Bridges :
           /\ listener[b] \notin {"startCheck", "start"} /\ ~ Locked(b)
           /\ reader[b] \notin Working /\ reader[b] \notin {"print", "progress"}
    BY <2>1 DEF Locked, Working
  <2>5. \A S : <<>> \in Seq(S)
    OBVIOUS
  <2>6. \A b \in Bridges :
           /\ collected_responses[b] \in Seq(PrinterLine)
           /\ commands_left_to_send[b] \in Seq(SetupCommands \cup {None})
    BY <2>1, <2>5, Zenon
  <2> QED
    BY <2>1, <2>2, <2>3, <2>4, <2>6 DEF BridgeTypeOK
<1>4. RoutesTypeOK
  BY <1>1 DEF JobInit, RoutesTypeOK, Bridges
<1>5. PrinterTypeOK /\ CounterIsLast
  BY PrintJobAssumption DEF JobInit, PrinterTypeOK, CounterIsLast
<1> QED
  BY <1>2, <1>3, <1>4, <1>5, JobTypeParts DEF TypeOK

LEMMA JobNextTypes ==
    ASSUME JobTypeOK, [JobNext]_jobAllVars
    PROVE  JobTypeOK'
<1> USE ConnectionIsBridge
<1>1. TypeOK /\ PrinterTypeOK /\ CounterIsLast
  BY JobTypeParts
<1>2. ASSUME TypeOK', UNCHANGED jobVars
      PROVE  JobTypeOK'
  BY <1>1, <1>2 DEF JobTypeOK, PrinterTypeOK, CounterIsLast, jobVars, printerVars
<1>3. CASE JobManager
  BY <1>1, <1>2, <1>3, ManagerTypes DEF JobManager
<1>4. ASSUME NEW r \in Requests, JobRoute(r)
      PROVE  JobTypeOK'
  BY <1>1, <1>2, <1>4, RouteTypes DEF JobRoute, RouteNext
<1>5. CASE JobListener
  <2>1. TypeOK'
    BY <1>1, <1>5, ListenerTypes DEF JobListener
  <2>2. Written \in Seq(Message)
    <3>1. \/ Written = <<>>
          \/ \E x \in Message : Written = <<x>>
      BY <1>1, <1>5, WrittenIsTaken DEF JobListener
    <3>2. <<>> \in Seq(Message) /\ \A x \in Message : <<x>> \in Seq(Message)
      OBVIOUS
    <3> QED
      BY <3>1, <3>2, Zenon
  <2>3. to_printer' \in Seq(Message)
    BY <1>1, <1>5, <2>2 DEF JobListener, PrinterTypeOK
  <2> QED
    BY <1>1, <1>5, <2>1, <2>3 DEF JobListener, JobTypeOK, PrinterTypeOK, CounterIsLast, printerVars
<1>6. CASE JobReader
  <2>1. TypeOK'
    BY <1>1, <1>6, ReaderTypes DEF JobReader
  <2>2. finished' \subseteq Prints
    BY <1>1, <1>6, ReaderEnds DEF JobReader, PrinterTypeOK, PrintInfo
  <2> QED
    BY <1>1, <1>6, <2>1, <2>2 DEF JobReader, JobTypeOK, PrinterTypeOK, CounterIsLast, printerVars
<1>7. CASE JobReceives
  <2>1. Head(from_printer) \in PrinterLine /\ from_printer' \in Seq(PrinterLine)
    BY <1>1, <1>7 DEF JobReceives, PrinterTypeOK
  <2>2. TypeOK'
    BY <1>1, <1>7, <2>1, ReceivesTypes DEF JobReceives
  <2> QED
    BY <1>1, <1>7, <2>1, <2>2 DEF JobReceives, JobTypeOK, PrinterTypeOK, CounterIsLast
<1>8. CASE PrinterStep
  BY <1>8, PrinterTypes
<1>9. ASSUME UNCHANGED serverVars
      PROVE  TypeOK'
  BY <1>1, <1>9
     DEF serverVars, busVars, managerVars, bridgeVars, routesVars, startVars, listenerVars,
         readerVars, setupVars, TypeOK, BusTypeOK, ManagerTypeOK, BridgeTypeOK, RoutesTypeOK,
         Locked
<1>10. CASE LineLost
  <2>1. from_printer' \in Seq(PrinterLine) /\ lost' \in 0 .. Losses
    BY <1>1, <1>10, PrintJobAssumption DEF LineLost, PrinterTypeOK
  <2> QED
    BY <1>1, <1>9, <1>10, <2>1 DEF LineLost, JobTypeOK, PrinterTypeOK, CounterIsLast
<1>11. CASE UNCHANGED jobAllVars
  BY <1>2, <1>9, <1>11 DEF jobAllVars, vars, serverVars
<1> QED
  BY <1>3, <1>4, <1>5, <1>6, <1>7, <1>8, <1>10, <1>11 DEF JobNext

\* The variables of the print job keep their types, for any number of prints, and the printer's
\* counter is the number of a line it executed.
THEOREM JobTypeCorrect == JobSpec => []JobTypeOK
BY JobInitTypes, JobNextTypes, PTL DEF JobSpec

-----------------------------------------------------------------------------
(* One print of one file                                                   *)

\* The requests for a print.  The theorems below ask that there is one at most, and one file.
PrintRequests == {r \in Requests : "print" \in Routes[r]}
OnePrint == \A r, s \in PrintRequests : r = s
OneFile  == \A len \in GcodeLengths : len = FileLength + 1

\* A print of that file that was asked for, and messages and events that are of such a print.
InfoOK(info) == info.print \in PrintRequests /\ info.length = FileLength + 1
MessageOK(m) ==
    m.command \in {"M110 N0", "line"} => m.of \in PrintRequests /\ m.n <= FileLength

BadMessages == {m \in Message : ~ MessageOK(m)}
BadEvents ==
    {e \in EventType :
        \/ e.type = "PrintStart" /\ ~ InfoOK(e.info)
        \/ e.type = "OutGoingTerminalMessage" /\ ~ MessageOK(e.message)}

\* Nothing is under way but the print that was asked for and lines of the file.
OfTheFile ==
    /\ \A r \in Requests : req[r] = "print" => r \in PrintRequests
    /\ Free(distributor, BadEvents)
    /\ Free(bridge_channel, BadEvents)
    /\ Free(to_printer, BadMessages)
    /\ \A b \in Bridges :
          /\ next_print[b] # None => InfoOK(next_print[b])
          /\ print_info[b] # None => InfoOK(print_info[b])

\* The lines executed are the first ones of the file, up to the printer's counter.
InOrder ==
    /\ last_line <= FileLength
    /\ PrintRequests = {} => last_line = 0
    /\ \A p \in Prints :
          IF p \in PrintRequests
          THEN Len(executed[p]) = last_line /\ \A i \in 1 .. last_line : executed[p][i] = i
          ELSE executed[p] = <<>>

\* The messages that are parts of p.
ResetOf(p)      == Command("M110 N0", p)
PartMessages(p) == {m \in Message : m = ResetOf(p) \/ (m.command = "line" /\ m.of = p)}

\* On every stretch of the way to the printer the M110 N0 of p goes before its lines.
ResetLeads(p) ==
    /\ Early(p) \/ ~ Free(distributor, {Preamble(p)}) =>
          Free(bridge_channel, Parts(p)) /\ Free(to_printer, PartMessages(p))
    /\ ~ Free(bridge_channel, {Preamble(p)}) => Free(to_printer, PartMessages(p))
    /\ Leads(bridge_channel, {Preamble(p)}, Parts(p))
    /\ Leads(to_printer, {ResetOf(p)}, PartMessages(p))

\* The M110 N0 of p is in one of the queues, or not sent yet.
BeforeReset(p) ==
    \/ Early(p)
    \/ ~ Free(distributor, {Preamble(p)})
    \/ ~ Free(bridge_channel, {Preamble(p)})
    \/ ~ Free(to_printer, {ResetOf(p)})

\* Lines of the printer that name a number, and those that are beyond the k-th line.
Numbers   == {l \in PrinterLine : l.kind \in {"number", "resend"}}
Beyond(k) ==
    {l \in Numbers : \/ l.kind = "number" /\ l.n > k
                     \/ l.kind = "resend" /\ l.n > k + 1}

\* The line that makes the reader do a.
Meant(a) ==
    [ok |-> TRUE, kind |-> IF a.kind = "Resend" THEN "resend" ELSE "number", n |-> a.n]

\* Nothing of S is on its way to the reader, or with it.
Unheard(S) ==
    /\ Free(from_printer, S)
    /\ Free(collected_responses[connection], S)
    /\ reader[connection] \in Working => line[connection] \notin S
    /\ reader[connection] \in {"print", "progress"} /\ action[connection].n # None =>
          Meant(action[connection]) \notin S

\* Until the M110 N0 of p has arrived the printer has executed no line and named no number.
NoneBefore(p) == BeforeReset(p) => last_line = 0 /\ Unheard(Numbers)

\* The reader ends only when it is told to.  While it announces its progress it has a line to
\* send.
ReaderGoesOn ==
    /\ reader[connection] # "failed"
    /\ reader[connection] = "exited" => canceled[connection]
    /\ reader[connection] = "progress" =>
          HasLine(print_info[connection], Wanted(action[connection]))

JobInv ==
    /\ PrintInv
    /\ OfTheFile
    /\ InOrder
    /\ \A p \in PrintRequests : ResetLeads(p) /\ NoneBefore(p)
    /\ Unheard(Beyond(last_line))
    /\ ReaderGoesOn

-----------------------------------------------------------------------------
(* What the reader hears                                                   *)

LEMMA FreeJoined ==
    ASSUME NEW E, NEW q \in Seq(E), NEW r \in Seq(E), NEW S
    PROVE  Free(q \o r, S) <=> Free(q, S) /\ Free(r, S)
<1>1. /\ Len(q) \in Nat /\ Len(r) \in Nat /\ Len(q \o r) = Len(q) + Len(r)
      /\ \A i \in 1 .. Len(q) : (q \o r)[i] = q[i]
      /\ \A i \in 1 .. Len(r) : (q \o r)[Len(q) + i] = r[i]
  OBVIOUS
<1> DEFINE t == q \o r
<1>2. ASSUME Free(t, S)
      PROVE  Free(q, S) /\ Free(r, S)
  <2>1. \A i \in 1 .. Len(q) : i \in 1 .. Len(t)
    BY <1>1
  <2>2. \A i \in 1 .. Len(r) : Len(q) + i \in 1 .. Len(t)
    BY <1>1
  <2> HIDE DEF t
  <2>3. ASSUME NEW i \in 1 .. Len(q)
        PROVE  q[i] \notin S
    BY <1>1, <1>2, <2>1 DEF Free, t
  <2>4. ASSUME NEW i \in 1 .. Len(r)
        PROVE  r[i] \notin S
    BY <1>1, <1>2, <2>2 DEF Free, t
  <2> QED
    BY <2>3, <2>4 DEF Free
<1>3. ASSUME Free(q, S), Free(r, S), NEW i \in 1 .. Len(t)
      PROVE  t[i] \notin S
  <2>1. CASE i \in 1 .. Len(q)
    BY <1>1, <1>3, <2>1 DEF Free
  <2>2. CASE i \notin 1 .. Len(q)
    <3>1. i - Len(q) \in 1 .. Len(r) /\ t[i] = r[i - Len(q)]
      BY <1>1, <2>2
    <3> QED
      BY <1>3, <3>1 DEF Free
  <2> QED
    BY <2>1, <2>2
<1> QED
  BY <1>2, <1>3 DEF Free

\* It is not for the ok that a line is in S.
Closed(S) ==
    /\ S \subseteq Numbers
    /\ \A l \in S, x \in PrinterLine : x.kind = l.kind /\ x.n = l.n => x \in S

LEMMA NumbersAreClosed == Closed(Numbers) /\ \A k \in Nat : Closed(Beyond(k))
BY DEF Closed, Numbers, Beyond

\* What a step of the reader does with the line, the lines collected and the action.
LEMMA ReaderWorks ==
    ASSUME TypeOK, NEW b \in Bridges, ReaderStep(b)
    PROVE  /\ reader'[b] \in Working => reader[b] \in Working /\ line' = line
           /\ \/ collected_responses' = collected_responses
              \/ collected_responses' = [collected_responses EXCEPT ![b] = <<>>]
              \/ /\ reader[b] \in Working
                 /\ collected_responses' =
                      [collected_responses EXCEPT ![b] = Append(@, line[b])]
           /\ reader'[b] \in {"print", "progress"} =>
                \/ reader[b] \in {"print", "progress"} /\ action' = action
                \/ \E a \in ParseResponses(collected_responses[b]) :
                      a.kind # "Error" /\ action' = [action EXCEPT ![b] = a]
<1> USE DEF Working
<1>1. reader \in [Bridges -> ReaderState]
  BY DEF TypeOK, BridgeTypeOK
<1>2. CASE ReaderFailed(b) \/ ReaderStops(b) \/ ReaderLine(b)
  BY <1>1, <1>2
     DEF ReaderFailed, ReaderStops, ReaderLine, ReaderGoesTo, Collect, setupVars
<1>3. CASE ReaderHandshake(b)
  <2> USE DEF ReaderGoesTo, Collect, ForgetResponses, setupVars
  <2>1. CASE ReaderLineConnecting(b) \/ ReaderReportsError(b) \/ ReaderChecksSetup(b)
             \/ ReaderConnected(b)
    BY <1>1, <2>1
       DEF ReaderLineConnecting, ReaderReportsError, ReaderChecksSetup, ReaderConnected
  <2>2. CASE ReaderSendsSetup(b)
    BY <1>1, <2>2 DEF ReaderSendsSetup
  <2>3. CASE ReaderCollects(b) \/ ReaderLeavesOk(b) \/ ReaderAsksAgain(b)
             \/ ReaderHasCapabilities(b)
    BY <1>1, <2>3 DEF ReaderCollects, ReaderLeavesOk, ReaderAsksAgain, ReaderHasCapabilities
  <2> QED
    BY <1>3, <2>1, <2>2, <2>3 DEF ReaderHandshake
<1>4. CASE ReaderOk(b)
  <2>1. collected_responses' = [collected_responses EXCEPT ![b] = <<>>]
    BY <1>4 DEF ReaderOk, ForgetResponses
  <2>2. PICK a \in ParseResponses(collected_responses[b]) :
           \/ ReaderGoesTo(b, "reading")
           \/ /\ a.kind # "Error"
              /\ ReaderGoesTo(b, "print")
              /\ action' = [action EXCEPT ![b] = a]
    BY <1>4 DEF ReaderOk
  <2> QED
    BY <1>1, <2>1, <2>2 DEF ReaderGoesTo
<1>5. CASE HandleOkResponse(b) /\ ~ ReaderOk(b)
  <2>1. /\ \/ \E s \in {"reading", "exited"} : Handled(b, s)
           \/ reader' = [reader EXCEPT ![b] = "progress"] /\ UNCHANGED <<line, action, setupVars>>
        /\ reader[b] \in {"print", "progress"}
    BY <1>5
       DEF HandleOkResponse, ReaderIgnoresOk, ReaderFirstLine, ReaderNextLine, ReaderSendsLine,
           ReaderPanics, ReaderRefusesResend, ReaderResends, SendProgress
  <2> QED
    BY <1>1, <2>1 DEF Handled, setupVars
<1> QED
  BY <1>2, <1>3, <1>4, <1>5 DEF ReaderStep

\* What the reader has not heard of before, it has not after it went on by itself ...
LEMMA ReaderHearsNothing ==
    ASSUME TypeOK, ReaderStep(connection), from_printer' = from_printer,
           NEW S, Closed(S), Unheard(S)
    PROVE  Unheard(S)'
<1> DEFINE c == connection
           responses == collected_responses[c]
<1>1. /\ c \in Bridges /\ responses \in Seq(PrinterLine)
      /\ reader[c] \in Working => line[c] \in PrinterLine
      /\ action \in [Bridges -> BridgeAction \cup {None}]
      /\ collected_responses \in [Bridges -> Seq(PrinterLine)]
  BY ConnectionIsBridge DEF TypeOK, BridgeTypeOK
<1>2. Free(collected_responses'[c], S)
  <2>1. Free(<<>>, S)
    BY DEF Free
  <2>2. \A x \in PrinterLine : x \notin S => Free(Append(responses, x), S)
    BY <1>1, FreeSent DEF Unheard
  <2> QED
    BY <1>1, <2>1, <2>2, ReaderWorks DEF Unheard
<1>3. reader'[c] \in Working => line'[c] \notin S
  BY <1>1, ReaderWorks DEF Unheard
<1>4. ASSUME reader'[c] \in {"print", "progress"}, action'[c].n # None
      PROVE  Meant(action'[c]) \notin S
  <2>1. CASE reader[c] \in {"print", "progress"} /\ action' = action
    BY <1>4, <2>1 DEF Unheard
  <2>2. ASSUME NEW a \in ParseResponses(responses), a.kind # "Error",
               action' = [action EXCEPT ![c] = a]
        PROVE  Meant(action'[c]) \notin S
    <3>1. action'[c] = a
      BY <1>1, <2>2
    <3>2. PICK i \in Deciding(responses) : a = Meaning(responses[i])
      BY <1>4, <2>2, <3>1 DEF ParseResponses
    <3>3. responses[i] \in PrinterLine /\ responses[i] \notin S /\ Decides(responses[i])
      BY <1>1, <3>2 DEF Deciding, Unheard, Free
    <3>4. responses[i].kind \in {"resend", "number"}
      BY <2>2, <3>2, <3>3 DEF Decides, Meaning
    <3>5. Meant(a).kind = responses[i].kind /\ Meant(a).n = responses[i].n
      BY <3>2, <3>4 DEF Meaning, Meant
    <3> QED
      BY <3>1, <3>3, <3>5 DEF Closed
  <2> QED
    BY <1>1, <1>4, <2>1, <2>2, ReaderWorks
<1> QED
  BY <1>2, <1>3, <1>4 DEF Unheard, Free, Meant

\* ... or has taken another line.
LEMMA ReceivingHearsNothing ==
    ASSUME JobTypeOK, JobReceives, NEW S, Closed(S), Unheard(S)
    PROVE  Unheard(S)'
<1> DEFINE c == connection
           l == Head(from_printer)
<1>1. /\ from_printer \in Seq(PrinterLine) /\ from_printer # <<>> /\ l \in PrinterLine
      /\ from_printer' = Tail(from_printer) /\ c \in Bridges
      /\ reader \in [Bridges -> ReaderState] /\ line \in [Bridges -> PrinterLine \cup {None}]
      /\ collected[c] \in BOOLEAN
  BY ConnectionIsBridge DEF JobReceives, JobTypeOK, TypeOK, BridgeTypeOK
<1>2. Free(from_printer', S) /\ l \notin S
  BY <1>1, FreeTaken DEF Unheard
<1> HIDE DEF l
<1>3. /\ reader'[c] = "line" /\ line'[c] = [l EXCEPT !.ok = l.ok \/ collected[c]]
      /\ collected_responses' = collected_responses
  BY <1>1 DEF JobReceives, ReaderReceives, setupVars, l
<1>4. /\ line'[c].kind = l.kind /\ line'[c].n = l.n
      /\ line'[c] \in PrinterLine
  BY <1>1, <1>3 DEF PrinterLine
<1>5. line'[c] \notin S
  BY <1>1, <1>2, <1>4 DEF Closed
<1> QED
  BY <1>2, <1>3, <1>5 DEF Unheard

\* Others do not touch what it hears.
LEMMA OthersHearNothing ==
    ASSUME UNCHANGED <<readerVars, from_printer>>, NEW S, Unheard(S)
    PROVE  Unheard(S)'
BY DEF readerVars, setupVars, Unheard, Free, Meant

LEMMA LessIsUnheard ==
    ASSUME NEW S, NEW T \in SUBSET S, Unheard(S)
    PROVE  Unheard(T)
BY DEF Unheard, Free

-----------------------------------------------------------------------------
(* What is under way                                                       *)

LEMMA FileLengthIsNat == FileLength \in Nat
<1>1. (CHOOSE len \in GcodeLengths : TRUE) \in GcodeLengths
  BY PrintJobAssumption
<1>2. \A n \in Nat \ {0} : n - 1 \in Nat
  OBVIOUS
<1> QED
  BY <1>1, <1>2, RoutesAssumption DEF FileLength

\* Which events and messages are of the file.
LEMMA PlainIsOfTheFile == \A e \in PlainEvents : e \notin BadEvents
BY DEF PlainEvents, BadEvents, MessageOK

LEMMA PartsAreOfTheFile ==
    ASSUME NEW p \in PrintRequests, NEW n \in Nat, n <= FileLength
    PROVE  Preamble(p) \notin BadEvents /\ OutGoing(NumberedLine(p, n)) \notin BadEvents
<1>1. /\ Preamble(p).type = "OutGoingTerminalMessage" /\ Preamble(p).message.of = p
      /\ Preamble(p).message.n = 0
      /\ OutGoing(NumberedLine(p, n)).type = "OutGoingTerminalMessage"
      /\ OutGoing(NumberedLine(p, n)).message.of = p
      /\ OutGoing(NumberedLine(p, n)).message.n = n
  BY DEF Preamble, OutGoing, Command, NumberedLine
<1>2. 0 <= FileLength
  BY FileLengthIsNat
<1> QED
  BY <1>1, <1>2 DEF BadEvents, MessageOK

\* An event and the message it is about.
LEMMA EventOfMessage ==
    ASSUME NEW e \in EventType, e.type = "OutGoingTerminalMessage", NEW p \in Prints
    PROVE  /\ e.message \in Message
           /\ e \in BadEvents <=> e.message \in BadMessages
           /\ e \in Parts(p) <=> e.message \in PartMessages(p)
           /\ e = Preamble(p) <=> e.message = ResetOf(p)
           /\ e \notin Starts(p)
<1>1. e.message \in Message /\ e = OutGoing(e.message)
  BY DEF EventType, OutGoing
<1>2. \A m : OutGoing(m).message = m
  BY DEF OutGoing
<1>3. e = Preamble(p) <=> e.message = ResetOf(p)
  BY <1>1, <1>2 DEF Preamble, ResetOf
<1> QED
  BY <1>1, <1>3 DEF BadEvents, BadMessages, Parts, PartMessages, IsLineOf, Starts

\* A step of the main loop: what is added is plain, or the head is handed on.
LEMMA ManagerMoves ==
    ASSUME TypeOK, ManagerNext
    PROVE  /\ UNCHANGED <<listenerVars, print_info, readerVars, routesVars>>
           /\ \/ Passes(distributor, distributor') /\ Passes(bridge_channel, bridge_channel')
              \/ /\ distributor # <<>>
                 /\ distributor' = Tail(distributor)
                 /\ bridge_channel' = Append(bridge_channel, Head(distributor))
<1> USE DEF OnSecondCreateBridge, OnCreateBridge, OnCreateBridgeError, OnStateUpdate, Detach,
            OnForwarded, OnPrintStart
<1>1. UNCHANGED <<listenerVars, print_info, readerVars, routesVars>>
  BY DEF ManagerNext, ManagerStep, bridgeVars
<1>2. CASE OnForwarded \/ OnPrintStart
  BY <1>1, <1>2 DEF Handles, Take, SendToBridge, Passes
<1>3. CASE OnSecondCreateBridge \/ OnCreateBridge \/ OnCreateBridgeError \/ OnStateUpdate \/ Detach
  BY <1>1, <1>3, Plain DEF Passes, Handles, Take, TakeAndSend, SendToBridge
<1> QED
  BY <1>2, <1>3 DEF ManagerNext, ManagerStep

\* No bad event gets in with what is plain, nor with what is not bad.
LEMMA NothingBad ==
    ASSUME NEW q \in Seq(EventType), NEW r, Free(q, BadEvents),
           \/ Passes(q, r)
           \/ \E e \in EventType : e \notin BadEvents /\ r = Append(q, e)
    PROVE  Free(r, BadEvents)
<1>1. \A e \in PlainEvents : e \in EventType /\ e \notin BadEvents \cup {}
  BY PlainIsOfTheFile DEF PlainEvents
<1>2. \/ r = q
      \/ q # <<>> /\ r = Tail(q)
      \/ \E e \in EventType : e \notin BadEvents \cup {} /\ r = Append(q, e)
      \/ q # <<>> /\ \E e \in EventType : e \notin BadEvents \cup {} /\ r = Append(Tail(q), e)
  BY <1>1 DEF Passes
<1> QED
  BY <1>2, Unmoved

\* The reader counts; it changes nothing else of a print.
LEMMA ReaderCounts ==
    ASSUME TypeOK, NEW b \in Bridges, ReaderStep(b), NEW d \in Bridges, print_info'[d] # None
    PROVE  /\ print_info[d] # None
           /\ print_info'[d].print = print_info[d].print
           /\ print_info'[d].length = print_info[d].length
<1>1. print_info \in [Bridges -> PrintInfo \cup {None}]
  BY DEF TypeOK, BridgeTypeOK
<1>2. CASE print_info' = print_info
  BY <1>2
<1>3. ASSUME NEW info, print_info[b] # None, print_info' = [print_info EXCEPT ![b] = info],
             info.print = print_info[b].print, info.length = print_info[b].length
      PROVE  /\ print_info[d] # None
             /\ print_info'[d].print = print_info[d].print
             /\ print_info'[d].length = print_info[d].length
  BY <1>1, <1>3
<1>4. ASSUME NEW info, info = Resent(print_info[b]), print_info[b] # None
      PROVE  info.print = print_info[b].print /\ info.length = print_info[b].length
  BY <1>1, <1>4 DEF Resent, PrintInfo
<1>5. CASE ReaderFirstLine(b) \/ ReaderNextLine(b)
  <2>1. /\ print_info[b] \in PrintInfo /\ print_info[b] # None
        /\ \E n : print_info' = [print_info EXCEPT ![b] = [print_info[b] EXCEPT !.line_number = n]]
    BY <1>1, <1>5 DEF ReaderFirstLine, ReaderNextLine
  <2> QED
    BY <1>3, <2>1 DEF PrintInfo
<1>6. CASE ReaderResends(b)
  <2> DEFINE info == [Resent(print_info[b]) EXCEPT !.line_number = action[b].n]
  <2>1. /\ print_info[b] \in PrintInfo /\ print_info[b] # None
        /\ print_info' = [print_info EXCEPT ![b] = info]
    BY <1>1, <1>6 DEF ReaderResends
  <2>2. info.print = print_info[b].print /\ info.length = print_info[b].length
    BY <2>1 DEF Resent, PrintInfo
  <2> HIDE DEF info
  <2> QED
    BY <1>3, <2>1, <2>2
<1>7. CASE ReaderPanics(b) \/ ReaderRefusesResend(b)
  <2>1. /\ print_info[b] # None
        /\ \/ print_info' = print_info
           \/ print_info' = [print_info EXCEPT ![b] = Resent(print_info[b])]
    BY <1>7 DEF ReaderPanics, ReaderRefusesResend
  <2> QED
    BY <1>2, <1>3, <1>4, <2>1
<1>8. CASE ReaderHandshake(b)
  BY <1>2, <1>8, HandshakeSends
<1>9. CASE ReaderFailed(b) \/ ReaderStops(b) \/ ReaderLine(b) \/ ReaderOk(b) \/ ReaderIgnoresOk(b)
           \/ ReaderSendsLine(b)
  BY <1>2, <1>9
     DEF ReaderFailed, ReaderStops, ReaderLine, ReaderOk, ReaderIgnoresOk, ReaderSendsLine
<1> QED
  BY <1>5, <1>6, <1>7, <1>8, <1>9 DEF ReaderStep, HandleOkResponse

LEMMA ManagerKeepsFile ==
    ASSUME TypeOK, OfTheFile, ManagerNext, to_printer' = to_printer
    PROVE  OfTheFile'
<1>1. distributor \in Seq(EventType) /\ bridge_channel \in Seq(EventType)
  BY DEF TypeOK, BusTypeOK
<1>2. distributor # <<>> => Head(distributor) \in EventType /\ Head(distributor) \notin BadEvents
  BY <1>1, FreeTaken DEF OfTheFile
<1>3. Free(distributor', BadEvents)
  BY <1>1, ManagerMoves, NothingBad DEF OfTheFile, Passes
<1>4. Free(bridge_channel', BadEvents)
  BY <1>1, <1>2, ManagerMoves, NothingBad DEF OfTheFile
<1> QED
  BY <1>3, <1>4, ManagerMoves DEF OfTheFile, listenerVars, routesVars

LEMMA RouteKeepsFile ==
    ASSUME TypeOK, OneFile, OfTheFile, NEW r \in Requests, RouteNext(r), to_printer' = to_printer
    PROVE  OfTheFile'
<1>1. distributor \in Seq(EventType) /\ req \in [Requests -> {"idle", "boot", "disconnect",
         "reconnect", "settings", "print", "terminal", "done"}]
  BY DEF TypeOK, BusTypeOK, RoutesTypeOK
<1>2. \A s \in Requests : req'[s] = "print" => s \in PrintRequests
  BY <1>1
     DEF RouteNext, RouteStep, Arrives, CreateConnection, CancelPrint, AcceptBoot,
         AcceptDisconnect, AcceptReconnect, AcceptPrint, PrintBreaksOff,
             AcceptTerminal, Issue, HandlerStep,
         ConnectBoot, Disconnect, Reconnect, Connect, StartPrintFile, SendTerminal, GoesTo,
         OfTheFile, PrintRequests
<1>3. Free(distributor', BadEvents)
  <2>1. CASE AddsPlain
    <3>1. Passes(distributor, distributor')
      BY <2>1 DEF AddsPlain, Passes, Send
    <3> QED
      BY <1>1, <3>1, NothingBad DEF OfTheFile
  <2>2. ASSUME NEW len \in GcodeLengths, Send(PrintStart(NewPrintInfo(r, len))), req[r] = "print"
        PROVE  Free(distributor', BadEvents)
    <3> DEFINE info == NewPrintInfo(r, len)
               e == PrintStart(info)
    <3>1. info \in PrintInfo /\ info.print = r /\ info.length = len
      BY RoutesAssumption DEF NewPrintInfo, PrintInfo, Prints
    <3>2. InfoOK(info)
      BY <2>2, <3>1 DEF InfoOK, OneFile, OfTheFile
    <3>3. e \in EventType /\ e.type = "PrintStart" /\ e.info = info
      BY <3>1, Constructors DEF PrintStart
    <3>4. distributor' = Append(distributor, e)
      BY <2>2 DEF Send
    <3> HIDE DEF e, info
    <3>5. e \notin BadEvents
      BY <3>2, <3>3 DEF BadEvents
    <3> QED
      BY <1>1, <3>3, <3>4, <3>5, NothingBad DEF OfTheFile
  <2> QED
    BY <2>1, <2>2, RouteAdds
<1>4. UNCHANGED <<bridge_channel, next_print, print_info>>
  BY RouteAdds DEF RouteNext, bridgeVars, listenerVars
<1> QED
  BY <1>2, <1>3, <1>4 DEF OfTheFile

LEMMA ReaderKeepsFile ==
    ASSUME TypeOK, OfTheFile, NEW b \in Bridges, ReaderStep(b), UNCHANGED <<req, to_printer>>
    PROVE  OfTheFile'
<1>1. distributor \in Seq(EventType) /\ bridge_channel \in Seq(EventType)
  BY DEF TypeOK, BusTypeOK
<1>2. CASE bridge_channel' = bridge_channel /\ AddsPlain
  <2>1. Passes(distributor, distributor')
    BY <1>2 DEF AddsPlain, Passes, Send
  <2>2. Free(distributor', BadEvents) /\ Free(bridge_channel', BadEvents)
    BY <1>1, <1>2, <2>1, NothingBad DEF OfTheFile
  <2> QED
    BY <2>2, ReaderCounts, ReaderSendsLines DEF OfTheFile, InfoOK
<1>3. ASSUME NEW e, SendsLineOf(b, e)
      PROVE  OfTheFile'
  <2>1. PICK n \in Nat : /\ HasLine(print_info[b], n)
                         /\ e = OutGoing(NumberedLine(print_info[b].print, n))
    BY <1>3 DEF SendsLineOf
  <2>2. InfoOK(print_info[b]) /\ print_info[b].print \in Prints
    BY <1>3, NoneAssumption DEF SendsLineOf, OfTheFile, PrintInfo
  <2>3. n <= FileLength
    BY <2>1, <2>2, FileLengthIsNat DEF HasLine, InfoOK
  <2>4. e \in EventType /\ e \notin BadEvents
    BY <2>1, <2>2, <2>3, PartsAreOfTheFile, Messages, Constructors DEF InfoOK
  <2>5. Free(distributor', BadEvents) /\ Free(bridge_channel', BadEvents)
    <3>1. \/ bridge_channel' = bridge_channel /\ distributor' = Append(distributor, e)
          \/ distributor' = distributor /\ bridge_channel' = Append(bridge_channel, e)
      BY <1>3 DEF SendsLineOf, Send, SendToBridge
    <3> QED
      BY <1>1, <2>4, <3>1, NothingBad DEF OfTheFile
  <2> QED
    BY <2>5, ReaderCounts, ReaderSendsLines DEF OfTheFile, InfoOK
<1> QED
  BY <1>2, <1>3, ReaderSendsLines

\* The listener adds what is plain, or the M110 N0 of the print it begins.
LEMMA ListenerAdds ==
    ASSUME TypeOK, NEW b \in Bridges, ListenerStep(b)
    PROVE  \/ AddsPlain
           \/ /\ ListenerSendsPreamble(b)
              /\ print_info[b] \in PrintInfo
              /\ distributor' = Append(distributor, Preamble(print_info[b].print))
<1>1. CASE ListenerSendsPreamble(b)
  BY <1>1 DEF ListenerSendsPreamble, Send, Preamble, TypeOK, BridgeTypeOK, Locked
<1>2. CASE ListenerStartsPrint(b)
  <2>1. StateUpdate("PRINTING", next_print[b].print) \in PlainEvents
    BY <1>2, Plain
       DEF ListenerStartsPrint, TypeOK, BridgeTypeOK, PrintInfo, Prints, BridgeState
  <2> QED
    BY <1>2, <2>1 DEF ListenerStartsPrint, AddsPlain
<1>3. CASE ~ ListenerSendsPreamble(b) /\ ~ ListenerStartsPrint(b)
  <2>1. Errored \in PlainEvents /\ StateUpdate("CONNECTED", None) \in PlainEvents
    BY Plain DEF BridgeState
  <2>2. \/ distributor' = distributor \/ Send(Errored) \/ Send(StateUpdate("CONNECTED", None))
    BY <1>3
       DEF ListenerStep, ListenerStarts, ListenerPanics, ListenerKilled, ListenerWrites,
           ListenerTakesPrintEnd, ListenerTakesPrintStart, ListenerChecks, ListenerEndsPrint,
           busVars, PanicHook, Errored
  <2> QED
    BY <2>1, <2>2 DEF AddsPlain
<1> QED
  BY <1>1, <1>2, <1>3

LEMMA ListenerKeepsFile ==
    ASSUME JobTypeOK, OfTheFile, JobListener
    PROVE  OfTheFile'
<1> DEFINE c == connection
<1>1. /\ TypeOK /\ c \in Bridges /\ ListenerStep(c)
      /\ distributor \in Seq(EventType) /\ bridge_channel \in Seq(EventType)
      /\ to_printer \in Seq(Message) /\ to_printer' = to_printer \o Written
      /\ next_print \in [Bridges -> PrintInfo \cup {None}]
      /\ print_info \in [Bridges -> PrintInfo \cup {None}]
  BY ConnectionIsBridge DEF JobListener, JobTypeOK, TypeOK, BusTypeOK, BridgeTypeOK
<1>2. Free(distributor', BadEvents)
  <2>1. CASE AddsPlain
    <3>1. Passes(distributor, distributor')
      BY <2>1 DEF AddsPlain, Passes, Send
    <3> QED
      BY <1>1, <3>1, NothingBad DEF OfTheFile
  <2>2. CASE /\ print_info[c] \in PrintInfo
             /\ distributor' = Append(distributor, Preamble(print_info[c].print))
    <3>1. print_info[c].print \in PrintRequests /\ print_info[c].print \in Prints
      BY <1>1, <2>2, NoneAssumption DEF OfTheFile, InfoOK, PrintInfo
    <3>2. /\ Preamble(print_info[c].print) \in EventType
          /\ Preamble(print_info[c].print) \notin BadEvents
      BY <3>1, PartsAreOfTheFile, PartsOfPrint, FileLengthIsNat DEF Parts
    <3> QED
      BY <1>1, <2>2, <3>2, NothingBad DEF OfTheFile
  <2> QED
    BY <1>1, <2>1, <2>2, ListenerAdds
<1>3. bridge_channel # <<>> =>
         /\ Head(bridge_channel) \in EventType /\ Head(bridge_channel) \notin BadEvents
         /\ Free(Tail(bridge_channel), BadEvents)
  BY <1>1, FreeTaken DEF OfTheFile
<1>4. Free(bridge_channel', BadEvents)
  BY <1>1, <1>3, WrittenIsTaken DEF OfTheFile
<1>5. Free(to_printer', BadMessages)
  <2>1. CASE Written = <<>>
    BY <1>1, <2>1 DEF OfTheFile
  <2>2. CASE /\ bridge_channel # <<>>
             /\ Head(bridge_channel).type = "OutGoingTerminalMessage"
             /\ Written = <<Head(bridge_channel).message>>
    <3> DEFINE m == Head(bridge_channel).message
    <3>1. m \in Message /\ m \notin BadMessages
      BY <1>3, <2>2, EventOfMessage, PrintJobAssumption DEF Prints
    <3> HIDE DEF m
    <3>2. to_printer' = Append(to_printer, m)
      BY <1>1, <2>2, <3>1 DEF m
    <3> QED
      BY <1>1, <3>1, <3>2, FreeSent DEF OfTheFile
  <2> QED
    BY <1>1, <2>1, <2>2, WrittenIsTaken
<1>6. \A b \in Bridges :
         /\ next_print'[b] # None => InfoOK(next_print'[b])
         /\ print_info'[b] # None => InfoOK(print_info'[b])
  <2>1. CASE ListenerTakesPrintStart(c)
    <3>1. bridge_channel # <<>> /\ Head(bridge_channel).type = "PrintStart"
      BY <2>1 DEF ListenerTakesPrintStart, Takes
    <3>2. InfoOK(Head(bridge_channel).info)
      BY <1>3, <3>1 DEF BadEvents
    <3> QED
      BY <1>1, <2>1, <3>2 DEF ListenerTakesPrintStart, OfTheFile
  <2>2. CASE ListenerStartsPrint(c)
    BY <1>1, <2>2 DEF ListenerStartsPrint, OfTheFile
  <2>3. CASE ListenerEndsPrint(c)
    BY <1>1, <2>3 DEF ListenerEndsPrint, OfTheFile
  <2>4. CASE ~ ListenerTakesPrintStart(c) /\ ~ ListenerStartsPrint(c) /\ ~ ListenerEndsPrint(c)
    <3>1. UNCHANGED <<next_print, print_info>>
      BY <1>1, <2>4
         DEF ListenerStep, ListenerStarts, ListenerPanics, ListenerKilled, ListenerWrites,
             ListenerTakesPrintEnd, ListenerChecks, ListenerSendsPreamble, listenerVars
    <3> QED
      BY <3>1 DEF OfTheFile
  <2> QED
    BY <2>1, <2>2, <2>3, <2>4
<1> QED
  BY <1>2, <1>4, <1>5, <1>6 DEF OfTheFile, JobListener, routesVars

-----------------------------------------------------------------------------
(* The M110 N0 on its way                                                  *)

\* Whatever adds no part of p, or takes one away.
LEMMA StillLeads ==
    ASSUME NEW p \in Prints, ResetLeads(p), Early(p)' => Early(p),
           Free(distributor, {Preamble(p)}) => Free(distributor', {Preamble(p)}),
           Free(bridge_channel, {Preamble(p)}) => Free(bridge_channel', {Preamble(p)}),
           Free(bridge_channel, Parts(p)) => Free(bridge_channel', Parts(p)),
           Leads(bridge_channel, {Preamble(p)}, Parts(p)) =>
              Leads(bridge_channel', {Preamble(p)}, Parts(p)),
           Free(to_printer, {ResetOf(p)}) => Free(to_printer', {ResetOf(p)}),
           Free(to_printer, PartMessages(p)) => Free(to_printer', PartMessages(p)),
           Leads(to_printer, {ResetOf(p)}, PartMessages(p)) =>
              Leads(to_printer', {ResetOf(p)}, PartMessages(p))
    PROVE  ResetLeads(p)' /\ (BeforeReset(p)' => BeforeReset(p))
<1>1. BeforeReset(p)' => BeforeReset(p)
  BY DEF BeforeReset, Preamble, ResetOf
<1>2. Early(p)' \/ ~ Free(distributor', {Preamble(p)}) =>
         Free(bridge_channel', Parts(p)) /\ Free(to_printer', PartMessages(p))
  BY DEF ResetLeads
<1>3. ~ Free(bridge_channel', {Preamble(p)}) => Free(to_printer', PartMessages(p))
  BY DEF ResetLeads
<1>4. /\ Leads(bridge_channel', {Preamble(p)}, Parts(p))
      /\ Leads(to_printer', {ResetOf(p)}, PartMessages(p))
  BY DEF ResetLeads
<1> QED
  BY <1>1, <1>2, <1>3, <1>4 DEF ResetLeads, Preamble, ResetOf

LEMMA ManagerKeepsReset ==
    ASSUME TypeOK, PrintInv, ManagerNext, to_printer' = to_printer,
           NEW p \in Prints, ResetLeads(p)
    PROVE  ResetLeads(p)' /\ (BeforeReset(p)' => BeforeReset(p))
<1> DEFINE e == Head(distributor)
<1>1. /\ distributor \in Seq(EventType) /\ bridge_channel \in Seq(EventType)
      /\ LinesFollow(p)
      /\ Early(p)' => Early(p)
  BY ManagerKeepsPrintInv DEF TypeOK, BusTypeOK, PrintInv, KeepsPrints, KeepsPrint
<1>2. Preamble(p) \in Parts(p)
  BY PartsOfPrint
<1>3. CASE Passes(distributor, distributor') /\ Passes(bridge_channel, bridge_channel')
  BY <1>1, <1>3, Passing, StillLeads
<1>4. CASE /\ distributor # <<>> /\ distributor' = Tail(distributor)
           /\ bridge_channel' = Append(bridge_channel, e)
  <2>1. /\ e \in EventType
        /\ Free(distributor, {Preamble(p)}) => Free(distributor', {Preamble(p)})
        /\ e \in Parts(p) => Free(distributor', {Preamble(p)}) /\ ~ Early(p)
        /\ e = Preamble(p) => ~ Free(distributor, {Preamble(p)})
    BY <1>1, <1>4, FreeTaken, LeadsTaken DEF LinesFollow
  <2> HIDE DEF e
  <2>2. CASE e \notin Parts(p)
    <3>1. /\ Free(bridge_channel, {Preamble(p)}) => Free(bridge_channel', {Preamble(p)})
          /\ Free(bridge_channel, Parts(p)) => Free(bridge_channel', Parts(p))
          /\ Leads(bridge_channel, {Preamble(p)}, Parts(p)) =>
                Leads(bridge_channel', {Preamble(p)}, Parts(p))
      BY <1>1, <1>2, <1>4, <2>1, <2>2, FreeSent, LeadsSent
    <3> QED
      BY <1>1, <2>1, <3>1, StillLeads
  <2>3. CASE e \in Parts(p)
    <3>1. ~ Early(p) /\ ~ Early(p)' /\ Free(distributor', {Preamble(p)})
      BY <1>1, <2>1, <2>3
    <3>2. Leads(bridge_channel', {Preamble(p)}, Parts(p))
      BY <1>1, <1>4, <2>1, LeadsSent DEF ResetLeads
    <3>3. /\ ~ Free(bridge_channel', {Preamble(p)}) => Free(to_printer, PartMessages(p))
          /\ ~ Free(bridge_channel', {Preamble(p)}) =>
                ~ Free(bridge_channel, {Preamble(p)}) \/ ~ Free(distributor, {Preamble(p)})
      BY <1>1, <1>4, <2>1, FreeSent DEF ResetLeads
    <3>4. ResetLeads(p)'
      BY <3>1, <3>2, <3>3 DEF ResetLeads, Preamble, ResetOf
    <3>5. BeforeReset(p)' => BeforeReset(p)
      BY <3>1, <3>3 DEF BeforeReset, Preamble, ResetOf
    <3> QED
      BY <3>4, <3>5
  <2> QED
    BY <2>2, <2>3
<1> QED
  BY <1>3, <1>4, ManagerMoves

LEMMA RouteKeepsReset ==
    ASSUME TypeOK, PrintInv, NEW r \in Requests, RouteNext(r), to_printer' = to_printer,
           NEW p \in Prints, ResetLeads(p)
    PROVE  ResetLeads(p)' /\ (BeforeReset(p)' => BeforeReset(p))
<1>1. /\ distributor \in Seq(EventType) /\ (Early(p)' => Early(p))
      /\ bridge_channel' = bridge_channel
  BY RouteKeepsPrintInv, RouteAdds DEF TypeOK, BusTypeOK, KeepsPrints, KeepsPrint
<1>2. Free(distributor, {Preamble(p)}) => Free(distributor', {Preamble(p)})
  <2>1. CASE AddsPlain
    BY <1>1, <2>1, Passing DEF AddsPlain, Passes, Send
  <2>2. ASSUME NEW info \in PrintInfo, Send(PrintStart(info))
        PROVE  Free(distributor, {Preamble(p)}) => Free(distributor', {Preamble(p)})
    <3>1. PrintStart(info) \in EventType /\ PrintStart(info) # Preamble(p)
      BY Constructors DEF PrintStart, Preamble, OutGoing
    <3> QED
      BY <1>1, <2>2, <3>1, FreeSent DEF Send
  <2>3. \A len \in GcodeLengths : NewPrintInfo(r, len) \in PrintInfo
    BY RoutesAssumption DEF NewPrintInfo, PrintInfo, Prints
  <2> QED
    BY <2>1, <2>2, <2>3, RouteAdds
<1> QED
  BY <1>1, <1>2, StillLeads

LEMMA ReaderKeepsReset ==
    ASSUME TypeOK, OnePrint, PrintInv, OfTheFile, ReaderStep(connection),
           UNCHANGED <<req, to_printer>>,
           NEW p \in PrintRequests, ResetLeads(p), NoneBefore(p)
    PROVE  ResetLeads(p)' /\ (BeforeReset(p)' => BeforeReset(p))
<1> DEFINE c == connection
<1> USE ConnectionIsBridge
<1>1. /\ distributor \in Seq(EventType) /\ bridge_channel \in Seq(EventType)
      /\ p \in Prints /\ (Early(p)' => Early(p))
  BY ReaderKeepsPrintInv DEF TypeOK, BusTypeOK, KeepsPrints, KeepsPrint, Prints, PrintRequests
<1>2. CASE bridge_channel' = bridge_channel /\ AddsPlain
  <2>1. Free(distributor, {Preamble(p)}) => Free(distributor', {Preamble(p)})
    BY <1>1, <1>2, Passing DEF AddsPlain, Passes, Send
  <2> QED
    BY <1>1, <1>2, <2>1, StillLeads
<1>3. ASSUME NEW e, SendsLineOf(c, e)
      PROVE  ResetLeads(p)' /\ (BeforeReset(p)' => BeforeReset(p))
  <2>1. PICK n \in Nat : e = OutGoing(NumberedLine(print_info[c].print, n))
    BY <1>3 DEF SendsLineOf
  <2>2. print_info[c].print = p
    BY <1>3, NoneAssumption DEF SendsLineOf, OfTheFile, InfoOK, OnePrint
  <2>3. e \in EventType /\ e # Preamble(p)
    BY <1>1, <2>1, <2>2, PartsOfPrint DEF Parts
  <2>4. CASE Send(e) /\ bridge_channel' = bridge_channel
    <3>1. Free(distributor, {Preamble(p)}) => Free(distributor', {Preamble(p)})
      BY <1>1, <2>3, <2>4, FreeSent DEF Send
    <3> QED
      BY <1>1, <2>4, <3>1, StillLeads
  <2>5. CASE /\ SendToBridge(e) /\ distributor' = distributor
             /\ reader[c] = "print" /\ action[c].kind = "Resend"
    <3>1. action[c].n \in Nat /\ action[c].n # None
      BY <2>5, NoneAssumption DEF TypeOK, BridgeTypeOK, BridgeAction
    <3>2. Meant(action[c]) \in Numbers
      BY <2>5, <3>1 DEF Meant, Numbers, PrinterLine
    <3>3. ~ BeforeReset(p)
      BY <2>5, <3>1, <3>2 DEF NoneBefore, Unheard
    <3>4. /\ Free(bridge_channel', {Preamble(p)})
          /\ Leads(bridge_channel', {Preamble(p)}, Parts(p))
      BY <1>1, <2>3, <2>5, <3>3, FreeSent, LeadsSent DEF SendToBridge, BeforeReset, ResetLeads
    <3>5. /\ ~ Early(p)' /\ Free(distributor', {Preamble(p)}) /\ Free(to_printer', {ResetOf(p)})
      BY <1>1, <2>5, <3>3 DEF BeforeReset
    <3> QED
      BY <3>4, <3>5 DEF ResetLeads, BeforeReset, Preamble, ResetOf
  <2> QED
    BY <1>3, <2>4, <2>5 DEF SendsLineOf
<1> QED
  BY <1>2, <1>3, ReaderSendsLines

LEMMA ListenerKeepsReset ==
    ASSUME JobTypeOK, OnePrint, PrintInv, OfTheFile, JobListener,
           NEW p \in PrintRequests, ResetLeads(p)
    PROVE  ResetLeads(p)' /\ (BeforeReset(p)' => BeforeReset(p))
<1> DEFINE c == connection
<1> USE ConnectionIsBridge
<1>1. /\ distributor \in Seq(EventType) /\ bridge_channel \in Seq(EventType)
      /\ to_printer \in Seq(Message) /\ to_printer' = to_printer \o Written
      /\ p \in Prints /\ LinesFollow(p) /\ TypeOK /\ ListenerStep(c) /\ req' = req
  BY DEF JobListener, JobTypeOK, TypeOK, BusTypeOK, PrintInv, Prints, PrintRequests, routesVars
<1>2. (Early(p)' => Early(p)) /\ Preamble(p) \in Parts(p)
  BY <1>1, ListenerKeepsPrintInv, PartsOfPrint DEF KeepsPrints, KeepsPrint
<1>3. /\ Free(bridge_channel, {Preamble(p)}) => Free(bridge_channel', {Preamble(p)})
      /\ Free(bridge_channel, Parts(p)) => Free(bridge_channel', Parts(p))
      /\ Leads(bridge_channel, {Preamble(p)}, Parts(p)) =>
            Leads(bridge_channel', {Preamble(p)}, Parts(p))
  <2>1. Passes(bridge_channel, bridge_channel')
    BY <1>1, WrittenIsTaken DEF Passes
  <2> QED
    BY <1>1, <2>1, Passing
<1>4. CASE ~ AddsPlain
  <2>1. /\ ListenerSendsPreamble(c) /\ print_info[c] \in PrintInfo
        /\ distributor' = Append(distributor, Preamble(print_info[c].print))
    BY <1>1, <1>4, ListenerAdds
  <2>2. Printing(c, p)
    BY <2>1, NoneAssumption DEF OfTheFile, InfoOK, OnePrint, Printing
  <2>3. Early(p)
    BY <2>1, <2>2 DEF ListenerSendsPreamble, Early, Begun
  <2>4. bridge_channel' = bridge_channel /\ to_printer' = to_printer
    <3>1. bridge_channel' = bridge_channel /\ Written = <<>>
      BY <2>1 DEF ListenerSendsPreamble, Written
    <3> QED
      BY <1>1, <3>1
  <2>5. ResetLeads(p)'
    BY <2>3, <2>4 DEF ResetLeads, Preamble, ResetOf
  <2> QED
    BY <2>3, <2>5 DEF BeforeReset
<1>5. CASE AddsPlain
  <2>1. Free(distributor, {Preamble(p)}) => Free(distributor', {Preamble(p)})
    BY <1>1, <1>5, Passing DEF AddsPlain, Passes, Send
  <2>2. CASE Written = <<>>
    <3>1. to_printer' = to_printer
      BY <1>1, <2>2
    <3> QED
      BY <1>1, <1>2, <1>3, <2>1, <3>1, StillLeads
  <2>3. CASE /\ bridge_channel # <<>> /\ bridge_channel' = Tail(bridge_channel)
             /\ Head(bridge_channel).type = "OutGoingTerminalMessage"
             /\ Written = <<Head(bridge_channel).message>>
    <3> DEFINE e == Head(bridge_channel)
               m == e.message
    <3>1. /\ e \in EventType /\ m \in Message
          /\ e \in Parts(p) <=> m \in PartMessages(p)
          /\ e = Preamble(p) <=> m = ResetOf(p)
      BY <1>1, <2>3, EventOfMessage
    <3>2. /\ e \in Parts(p) => Free(bridge_channel', {Preamble(p)}) /\ ~ Free(bridge_channel, Parts(p))
          /\ e = Preamble(p) => ~ Free(bridge_channel, {Preamble(p)})
      BY <1>1, <2>3, <3>1, FreeTaken, LeadsTaken DEF ResetLeads
    <3>3. to_printer' = Append(to_printer, m)
      BY <1>1, <2>3, <3>1
    <3> HIDE DEF e, m
    <3>4. CASE m \notin PartMessages(p)
      <4>1. m # ResetOf(p)
        BY <1>2, <3>1, <3>4
      <4>2. /\ Free(to_printer, {ResetOf(p)}) => Free(to_printer', {ResetOf(p)})
            /\ Free(to_printer, PartMessages(p)) => Free(to_printer', PartMessages(p))
            /\ Leads(to_printer, {ResetOf(p)}, PartMessages(p)) =>
                  Leads(to_printer', {ResetOf(p)}, PartMessages(p))
        BY <1>1, <3>1, <3>3, <3>4, <4>1, FreeSent, LeadsSent
      <4> QED
        BY <1>1, <1>2, <1>3, <2>1, <4>2, StillLeads
    <3>5. CASE m \in PartMessages(p)
      <4>1. /\ ~ Early(p) /\ ~ Early(p)' /\ Free(distributor, {Preamble(p)})
            /\ Free(distributor', {Preamble(p)}) /\ Free(bridge_channel', {Preamble(p)})
        BY <1>2, <2>1, <3>1, <3>2, <3>5 DEF ResetLeads
      <4>2. Leads(to_printer', {ResetOf(p)}, PartMessages(p))
        BY <1>1, <3>1, <3>2, <3>3, LeadsSent DEF ResetLeads
      <4>3. ~ Free(to_printer', {ResetOf(p)}) =>
               ~ Free(bridge_channel, {Preamble(p)}) \/ ~ Free(to_printer, {ResetOf(p)})
        BY <1>1, <3>1, <3>2, <3>3, FreeSent
      <4>4. ResetLeads(p)'
        BY <1>3, <4>1, <4>2 DEF ResetLeads, Preamble, ResetOf
      <4>5. BeforeReset(p)' => BeforeReset(p)
        BY <4>1, <4>3 DEF BeforeReset, Preamble, ResetOf
      <4> QED
        BY <4>4, <4>5
    <3> QED
      BY <3>4, <3>5
  <2> QED
    BY <1>1, <2>2, <2>3, WrittenIsTaken
<1> QED
  BY <1>4, <1>5
-----------------------------------------------------------------------------
(* The printer                                                             *)

\* The message the printer takes.
LEMMA PrinterTakes ==
    ASSUME JobTypeOK, OfTheFile, PrinterStep
    PROVE  /\ to_printer # <<>> /\ to_printer \in Seq(Message)
           /\ to_printer' = Tail(to_printer)
           /\ Head(to_printer) \in Message /\ MessageOK(Head(to_printer))
           /\ Free(to_printer', BadMessages)
           /\ UNCHANGED <<serverVars, finished, lost>>
<1>1. /\ to_printer # <<>> /\ to_printer \in Seq(Message) /\ Head(to_printer) \in Message
      /\ to_printer' = Tail(to_printer) /\ UNCHANGED <<serverVars, finished, lost>>
  BY DEF PrinterStep, JobTypeOK
<1>2. Head(to_printer) \notin BadMessages /\ Free(to_printer', BadMessages)
  BY <1>1, FreeTaken DEF OfTheFile
<1> QED
  BY <1>1, <1>2 DEF BadMessages

LEMMA PrinterKeepsFile ==
    ASSUME JobTypeOK, OfTheFile, PrinterStep
    PROVE  OfTheFile'
BY PrinterTakes
   DEF OfTheFile, serverVars, busVars, bridgeVars, listenerVars, routesVars

\* A message that is a part of p is one of those of the only print.
LEMMA PartOfPrint ==
    ASSUME OnePrint, NEW m \in Message, MessageOK(m), NEW p \in PrintRequests
    PROVE  /\ m.command = "M110 N0" => m = ResetOf(p) /\ m \in PartMessages(p)
           /\ m.command = "line" => /\ m.of = p /\ m \in PartMessages(p)
                                    /\ m.n \in Nat /\ m.n <= FileLength
<1>1. m.command \in {"M110 N0", "line"} => m.of = p /\ m.n <= FileLength
  BY DEF MessageOK, OnePrint
<1>2. m.command = "M110 N0" => m.n = 0 /\ m = [command |-> m.command, of |-> m.of, n |-> m.n]
  BY DEF Message
<1>3. m.command = "line" => m.n \in Nat
  BY DEF Message, Commands
<1> QED
  BY <1>1, <1>2, <1>3 DEF ResetOf, PartMessages, Command

LEMMA PrinterKeepsReset ==
    ASSUME JobTypeOK, OfTheFile, PrinterStep, NEW p \in PrintRequests, ResetLeads(p)
    PROVE  /\ ResetLeads(p)'
           /\ BeforeReset(p)' => BeforeReset(p)
           /\ Head(to_printer) \in PartMessages(p) => ~ BeforeReset(p)'
           /\ Head(to_printer) = ResetOf(p) => BeforeReset(p)
<1> DEFINE m == Head(to_printer)
<1>1. /\ to_printer # <<>> /\ to_printer \in Seq(Message) /\ to_printer' = Tail(to_printer)
      /\ UNCHANGED <<distributor, bridge_channel, listener, next_print, print_info, req>>
      /\ p \in Prints
  BY PrinterTakes
     DEF serverVars, busVars, bridgeVars, listenerVars, routesVars, Prints, PrintRequests
<1>2. Early(p)' <=> Early(p)
  BY <1>1 DEF Early, Waiting, Begun, Taken, Printing, Free, Starts
<1>3. /\ Free(to_printer, {ResetOf(p)}) => Free(to_printer', {ResetOf(p)})
      /\ Free(to_printer, PartMessages(p)) => Free(to_printer', PartMessages(p))
      /\ Leads(to_printer, {ResetOf(p)}, PartMessages(p)) =>
            Leads(to_printer', {ResetOf(p)}, PartMessages(p))
  BY <1>1, FreeTaken, LeadsTaken
<1>4. ResetLeads(p)' /\ (BeforeReset(p)' => BeforeReset(p))
  BY <1>1, <1>2, <1>3, StillLeads
<1>5. ASSUME m \in PartMessages(p)
      PROVE  ~ BeforeReset(p)'
  <2>1. ~ Free(to_printer, PartMessages(p)) /\ Free(to_printer', {ResetOf(p)})
    BY <1>1, <1>5, FreeTaken, LeadsTaken DEF ResetLeads
  <2>2. ~ Early(p) /\ Free(distributor, {Preamble(p)}) /\ Free(bridge_channel, {Preamble(p)})
    BY <2>1 DEF ResetLeads
  <2> QED
    BY <1>1, <1>2, <2>1, <2>2 DEF BeforeReset, Preamble, ResetOf
<1>6. m = ResetOf(p) => ~ Free(to_printer, {ResetOf(p)})
  BY <1>1, FreeTaken
<1> QED
  BY <1>4, <1>5, <1>6 DEF BeforeReset

\* What the printer says is news only if there is something in S among it.
LEMMA PrinterSays ==
    ASSUME JobTypeOK, PrinterStep, NEW r \in Seq(PrinterLine), Replies(r), NEW S, Free(r, S),
           Unheard(S)
    PROVE  Unheard(S)'
<1>1. from_printer' = from_printer \o r /\ from_printer \in Seq(PrinterLine)
  BY DEF Replies, JobTypeOK
<1>2. Free(from_printer', S)
  BY <1>1, FreeJoined DEF Unheard
<1> QED
  BY <1>2 DEF Unheard, PrinterStep, serverVars, bridgeVars, readerVars, setupVars, Free, Meant

\* The lines it executes and the numbers it names go up one by one.
LEMMA PrinterKeepsOrder ==
    ASSUME JobTypeOK, OnePrint, OfTheFile, InOrder, PrinterStep, Unheard(Beyond(last_line)),
           \A p \in PrintRequests : ResetLeads(p) /\ NoneBefore(p)
    PROVE  /\ InOrder' /\ Unheard(Beyond(last_line))'
           /\ \A p \in PrintRequests : NoneBefore(p)'
<1> DEFINE m == Head(to_printer)
           k == last_line
<1>1. /\ m \in Message /\ MessageOK(m) /\ k \in Nat /\ k <= FileLength /\ FileLength \in Nat
      /\ executed \in [Prints -> Seq(Nat)] /\ PrintRequests \subseteq Prints
  BY PrinterTakes, FileLengthIsNat DEF JobTypeOK, InOrder, Prints, PrintRequests
<1>2. \A p \in PrintRequests :
         /\ BeforeReset(p)' => BeforeReset(p)
         /\ m.command \in {"M110 N0", "line"} => ~ BeforeReset(p)'
         /\ m.command = "M110 N0" => BeforeReset(p)
  BY <1>1, PrinterKeepsReset, PartOfPrint
<1>3. m.command \in {"M110 N0", "line"} => m.of \in PrintRequests
  BY <1>1 DEF MessageOK
<1> HIDE DEF m
<1>4. ASSUME NEW r \in Seq(PrinterLine), Replies(r), UNCHANGED <<last_line, executed>>,
             Free(r, Beyond(k)),
             m.command \in {"M110 N0", "line"} \/ Free(r, Numbers)
      PROVE  /\ InOrder' /\ Unheard(Beyond(last_line))'
             /\ \A p \in PrintRequests : NoneBefore(p)'
  <2>1. \A j \in Nat : Free(r, Beyond(j)) /\ Unheard(Beyond(j)) => Unheard(Beyond(j))'
    BY <1>4, PrinterSays
  <2>2. Unheard(Beyond(last_line))'
    <3>1. PICK j \in Nat : j = last_line
      BY <1>1
    <3>2. Unheard(Beyond(j))' /\ last_line' = j
      BY <1>4, <2>1, <3>1
    <3> QED
      BY <3>2 DEF Unheard, Beyond, Numbers, Meant, Free
  <2>3. ASSUME NEW p \in PrintRequests, BeforeReset(p)'
        PROVE  last_line' = 0 /\ Unheard(Numbers)'
    <3>1. BeforeReset(p) /\ Free(r, Numbers)
      BY <1>2, <1>4, <2>3
    <3>2. last_line = 0 /\ Unheard(Numbers)
      BY <3>1 DEF NoneBefore
    <3> QED
      BY <1>4, <3>1, <3>2, PrinterSays
  <2>4. InOrder'
    BY <1>4 DEF InOrder
  <2> QED
    BY <2>2, <2>3, <2>4 DEF NoneBefore, Numbers
<1>5. ASSUME NEW l \in PrinterLine, l \notin Numbers
      PROVE  <<l>> \in Seq(PrinterLine) /\ Free(<<l>>, Numbers) /\ Free(<<l>>, Beyond(k))
  BY <1>5 DEF Free, Beyond
<1>6. OkLine \in PrinterLine /\ OkLine \notin Numbers /\ LineError \notin Numbers
  BY PrinterLines DEF OkLine, LineError, Numbers
<1>7. CASE PrinterResets(m)
  <2>1. m.command = "M110 N0" /\ last_line' = 0 /\ Replies(<<OkLine>>) /\ executed' = executed
    BY <1>7 DEF PrinterResets
  <2>2. PICK p \in PrintRequests : BeforeReset(p)
    BY <1>2, <1>3, <2>1
  <2>3. last_line = 0
    BY <2>2 DEF NoneBefore
  <2> QED
    BY <1>4, <1>5, <1>6, <2>1, <2>3
<1>8. CASE PrinterObeys(m)
  BY <1>4, <1>5, <1>6, <1>8 DEF PrinterObeys
<1>9. CASE PrinterRejects(m) \/ PrinterGetsDamaged(m)
  <2> DEFINE r == <<LineError, ResendLine(k + 1), OkLine>>
  <2>1. m.command = "line" /\ Replies(r) /\ UNCHANGED <<last_line, executed>>
    BY <1>9 DEF PrinterRejects, PrinterGetsDamaged, AsksAgain
  <2>2. r \in Seq(PrinterLine)
    BY <1>1, PrinterLines
  <2>3. ResendLine(k + 1) \notin Beyond(k)
    BY <1>1 DEF Beyond, ResendLine
  <2>4. Free(r, Beyond(k))
    <3>1. OkLine \notin Beyond(k) /\ LineError \notin Beyond(k)
      BY <1>6 DEF Beyond
    <3> HIDE DEF k
    <3> QED
      BY <2>3, <3>1 DEF Free
  <2> HIDE DEF r
  <2> QED
    BY <1>4, <2>1, <2>2, <2>4
<1>10. CASE PrinterExecutes(m)
  <2> DEFINE p == m.of
             l == NumberedOk(k + 1)
  <2>1. /\ m.command = "line" /\ m.n = k + 1 /\ last_line' = k + 1 /\ p \in PrintRequests
        /\ k + 1 \in Nat /\ l \in PrinterLine
        /\ executed' = [executed EXCEPT ![p] = Append(@, k + 1)] /\ Replies(<<l>>)
    BY <1>1, <1>3, <1>10, PrinterLines DEF PrinterExecutes
  <2>2. k + 1 <= FileLength /\ \A q \in PrintRequests : q = p
    BY <1>1, <2>1, PartOfPrint DEF OnePrint
  <2>3. InOrder'
    <3>1. executed[p] \in Seq(Nat) /\ Len(executed[p]) = k /\ \A i \in 1 .. k : executed[p][i] = i
      BY <1>1, <2>1 DEF InOrder
    <3>2. executed'[p] = Append(executed[p], k + 1)
      BY <1>1, <2>1
    <3>3. /\ Len(executed'[p]) = k + 1
          /\ \A i \in 1 .. k + 1 : executed'[p][i] = i
      BY <1>1, <3>1, <3>2
    <3>4. \A q \in Prints : q # p => executed'[q] = executed[q]
      BY <1>1, <2>1
    <3> QED
      BY <2>1, <2>2, <3>3, <3>4 DEF InOrder
  <2>4. <<l>> \in Seq(PrinterLine) /\ Free(<<l>>, Beyond(k + 1))
    <3>1. l \notin Beyond(k + 1)
      BY <1>1 DEF Beyond, NumberedOk
    <3> HIDE DEF l
    <3> QED
      BY <2>1, <3>1 DEF Free
  <2>5. Unheard(Beyond(last_line))'
    <3>1. PICK j \in Nat : j = last_line + 1
      BY <2>1
    <3>2. Beyond(j) \subseteq Beyond(last_line)
      BY <1>1, <3>1 DEF Beyond, Numbers, PrinterLine
    <3>3. Unheard(Beyond(j))
      BY <3>2 DEF Unheard, Free
    <3>4. Unheard(Beyond(j))' /\ last_line' = j
      BY <2>1, <2>4, <3>1, <3>3, PrinterSays
    <3> QED
      BY <3>4 DEF Unheard, Beyond, Numbers, Meant, Free
  <2>6. \A q \in PrintRequests : NoneBefore(q)'
    BY <1>2, <2>1 DEF NoneBefore
  <2> QED
    BY <2>3, <2>5, <2>6
<1> QED
  BY <1>7, <1>8, <1>9, <1>10 DEF PrinterStep, m
-----------------------------------------------------------------------------
(* The reader goes on                                                      *)

\* A number the reader acts on is that of a line of the file, or the one after the last.
LEMMA NumbersInBounds ==
    ASSUME JobTypeOK, OfTheFile, InOrder, Unheard(Beyond(last_line)),
           reader[connection] \in {"print", "progress"},
           print_info[connection] # None, action[connection].n # None
    PROVE  /\ action[connection].n \in Nat
           /\ action[connection].kind = "Continue" => action[connection].n <= last_line
           /\ InBounds(print_info[connection], action[connection].n)
<1> DEFINE a == action[connection]
<1>1. /\ a \in BridgeAction /\ a.kind # "Error" /\ print_info[connection].length = FileLength + 1
      /\ last_line \in Nat /\ last_line <= FileLength /\ FileLength \in Nat
      /\ Meant(a) \notin Beyond(last_line)
  BY ConnectionIsBridge, FileLengthIsNat
     DEF JobTypeOK, TypeOK, BridgeTypeOK, OfTheFile, InfoOK, InOrder, Unheard
<1>2. /\ a.n \in Nat /\ a.kind \in {"Continue", "Resend"}
  BY <1>1 DEF BridgeAction
<1> HIDE DEF a
<1>3. /\ Meant(a) \in Numbers /\ Meant(a).n = a.n
      /\ a.kind = "Continue" => Meant(a).kind = "number"
      /\ a.kind = "Resend" => Meant(a).kind = "resend"
  BY <1>2 DEF Meant, Numbers, PrinterLine
<1>4. /\ a.kind = "Continue" => a.n <= last_line
      /\ a.kind = "Resend" => a.n <= last_line + 1
  BY <1>1, <1>2, <1>3 DEF Beyond
<1> QED
  BY <1>1, <1>2, <1>4 DEF InBounds, a

LEMMA ReaderKeepsGoing ==
    ASSUME JobTypeOK, OfTheFile, InOrder, Unheard(Beyond(last_line)), ReaderGoesOn,
           ReaderStep(connection)
    PROVE  ReaderGoesOn'
<1> DEFINE c == connection
<1>1. /\ c \in Bridges /\ TypeOK /\ reader \in [Bridges -> ReaderState]
      /\ reader[c] # "failed"
      /\ print_info \in [Bridges -> PrintInfo \cup {None}]
  BY ConnectionIsBridge DEF JobTypeOK, TypeOK, BridgeTypeOK, ReaderGoesOn
<1>2. ASSUME reader'[c] \notin {"failed", "exited", "progress"}
      PROVE  ReaderGoesOn'
  BY <1>2 DEF ReaderGoesOn
<1>3. CASE ReaderStops(c)
  BY <1>1, <1>3 DEF ReaderStops, ReaderGoesOn, listenerVars
<1>4. CASE ReaderLine(c) \/ ReaderHandshake(c) \/ ReaderOk(c)
  <2>1. \E s \in {"reading", "ok", "print", "handshake", "setup", "capabilities", "connecting"} :
           reader' = [reader EXCEPT ![c] = s]
    BY <1>4
       DEF ReaderLine, ReaderHandshake, ReaderLineConnecting, ReaderReportsError,
           ReaderChecksSetup, ReaderConnected, ReaderSendsSetup, ReaderCollects, ReaderLeavesOk,
           ReaderAsksAgain, ReaderHasCapabilities, ReaderOk, ReaderGoesTo
  <2> QED
    BY <1>1, <1>2, <2>1
<1>5. CASE Handled(c, "reading")
  BY <1>1, <1>2, <1>5 DEF Handled
<1>6. CASE SendProgress(c) /\ (ReaderFirstLine(c) \/ ReaderNextLine(c))
  <2>1. /\ reader'[c] = "progress" /\ action' = action
        /\ HasLine(print_info[c], Wanted(action[c]))
    BY <1>1, <1>6 DEF SendProgress
  <2>2. print_info[c] \in PrintInfo /\ print_info'[c].length = print_info[c].length
    <3>1. print_info[c] \in PrintInfo
      BY <1>1, <1>6 DEF ReaderFirstLine, ReaderNextLine
    <3>2. PICK n : print_info' = [print_info EXCEPT ![c].line_number = n]
      BY <1>6 DEF ReaderFirstLine, ReaderNextLine
    <3> QED
      BY <1>1, <3>1, <3>2 DEF PrintInfo
  <2> QED
    BY <2>1, <2>2 DEF ReaderGoesOn, HasLine, Wanted
<1>7. ~ ReaderPanics(c)
  <2> SUFFICES ASSUME ReaderPanics(c)
               PROVE  FALSE
    OBVIOUS
  <2>1. /\ reader[c] = "print" /\ print_info[c] # None /\ action[c].n # None
        /\ ~ InBounds(print_info[c], action[c].n)
    BY DEF ReaderPanics
  <2> QED
    BY <2>1, NumbersInBounds
<1>8. CASE HandleOkResponse(c) /\ ~ ReaderOk(c)
  BY <1>5, <1>6, <1>7, <1>8
     DEF HandleOkResponse, ReaderIgnoresOk, ReaderFirstLine, ReaderNextLine, ReaderSendsLine,
         ReaderRefusesResend, ReaderResends
<1> QED
  BY <1>1, <1>3, <1>4, <1>8 DEF ReaderStep, ReaderFailed

LEMMA ListenerKeepsGoing ==
    ASSUME JobTypeOK, ReaderGoesOn, ListenerStep(connection)
    PROVE  ReaderGoesOn'
<1> DEFINE c == connection
<1>1. /\ c \in Bridges /\ canceled \in [Bridges -> BOOLEAN]
  BY ConnectionIsBridge DEF JobTypeOK, TypeOK, BridgeTypeOK
<1> USE DEF ListenerStep, ListenerStarts, ListenerPanics, ListenerKilled, ListenerWrites,
        ListenerTakesPrintEnd, ListenerTakesPrintStart, ListenerChecks, ListenerEndsPrint,
        ListenerStartsPrint, ListenerSendsPreamble, listenerVars, readerVars
<1>2. reader' = reader /\ action' = action
  OBVIOUS
<1>3. canceled[c] => canceled'[c]
  BY <1>1
<1>4. reader[c] = "progress" => print_info' = print_info
  BY DEF Locked
<1> QED
  BY <1>2, <1>3, <1>4 DEF ReaderGoesOn, HasLine, Wanted

-----------------------------------------------------------------------------
(* The invariant                                                           *)

\* While the printer does nothing, and the reader hears nothing new.
LEMMA StillInOrder ==
    ASSUME JobTypeOK, InOrder, Unheard(Beyond(last_line)), UNCHANGED <<last_line, executed>>,
           \A p \in PrintRequests : NoneBefore(p) /\ (BeforeReset(p)' => BeforeReset(p)),
           \A S : Closed(S) /\ Unheard(S) => Unheard(S)'
    PROVE  /\ InOrder' /\ Unheard(Beyond(last_line))'
           /\ \A p \in PrintRequests : NoneBefore(p)'
<1>1. Unheard(Beyond(last_line))'
  <2>1. PICK j \in Nat : j = last_line
    BY DEF JobTypeOK
  <2>2. Closed(Beyond(j)) /\ Unheard(Beyond(j))
    BY <2>1, NumbersAreClosed
  <2>3. Unheard(Beyond(j))' /\ last_line' = j
    BY <2>1, <2>2
  <2> QED
    BY <2>3 DEF Unheard, Beyond, Numbers, Meant, Free
<1>2. ASSUME NEW p \in PrintRequests, BeforeReset(p)'
      PROVE  last_line' = 0 /\ Unheard(Numbers)'
  BY <1>2, NumbersAreClosed DEF NoneBefore
<1> QED
  BY <1>1, <1>2 DEF InOrder, NoneBefore, Numbers

LEMMA PrintsKept == KeepsPrints => PrintInv'
BY DEF KeepsPrints, KeepsPrint, PrintInv

LEMMA ManagerKeepsJobInv ==
    ASSUME JobTypeOK, JobInv, JobManager
    PROVE  JobInv'
<1>1. /\ TypeOK /\ ManagerNext /\ UNCHANGED <<to_printer, from_printer, last_line, executed>>
      /\ UNCHANGED <<listenerVars, print_info, readerVars>>
      /\ PrintRequests \subseteq Prints
  BY ManagerMoves DEF JobManager, JobTypeOK, jobVars, printerVars, Prints, PrintRequests
<1>2. PrintInv' /\ OfTheFile'
  BY <1>1, ManagerKeepsPrintInv, ManagerKeepsFile, PrintsKept DEF JobInv
<1>3. \A p \in PrintRequests : ResetLeads(p)' /\ (BeforeReset(p)' => BeforeReset(p))
  BY <1>1, ManagerKeepsReset DEF JobInv
<1>4. \A S : Unheard(S) => Unheard(S)'
  BY <1>1, OthersHearNothing
<1>5. InOrder' /\ Unheard(Beyond(last_line))' /\ \A p \in PrintRequests : NoneBefore(p)'
  BY <1>1, <1>3, <1>4, StillInOrder DEF JobInv
<1>6. ReaderGoesOn'
  BY <1>1 DEF JobInv, ReaderGoesOn, listenerVars, readerVars, HasLine, Wanted
<1> QED
  BY <1>2, <1>3, <1>5, <1>6 DEF JobInv

LEMMA RouteKeepsJobInv ==
    ASSUME JobTypeOK, OneFile, JobInv, NEW r \in Requests, JobRoute(r)
    PROVE  JobInv'
<1>1. /\ TypeOK /\ RouteNext(r) /\ UNCHANGED <<to_printer, from_printer, last_line, executed>>
      /\ UNCHANGED <<listenerVars, print_info, readerVars>>
      /\ PrintRequests \subseteq Prints
  BY DEF JobRoute, RouteNext, bridgeVars, JobTypeOK, jobVars, printerVars, Prints, PrintRequests
<1>2. PrintInv' /\ OfTheFile'
  BY <1>1, RouteKeepsPrintInv, RouteKeepsFile, PrintsKept DEF JobInv
<1>3. \A p \in PrintRequests : ResetLeads(p)' /\ (BeforeReset(p)' => BeforeReset(p))
  BY <1>1, RouteKeepsReset DEF JobInv
<1>4. \A S : Unheard(S) => Unheard(S)'
  BY <1>1, OthersHearNothing
<1>5. InOrder' /\ Unheard(Beyond(last_line))' /\ \A p \in PrintRequests : NoneBefore(p)'
  BY <1>1, <1>3, <1>4, StillInOrder DEF JobInv
<1>6. ReaderGoesOn'
  BY <1>1 DEF JobInv, ReaderGoesOn, listenerVars, readerVars, HasLine, Wanted
<1> QED
  BY <1>2, <1>3, <1>5, <1>6 DEF JobInv

LEMMA ListenerKeepsJobInv ==
    ASSUME JobTypeOK, OnePrint, JobInv, JobListener
    PROVE  JobInv'
<1>1. /\ TypeOK /\ ListenerStep(connection) /\ connection \in Bridges
      /\ UNCHANGED <<from_printer, last_line, executed, req>>
  BY ConnectionIsBridge DEF JobListener, JobTypeOK, printerVars, routesVars
<1>2. PrintInv' /\ OfTheFile'
  BY <1>1, ListenerKeepsPrintInv, ListenerKeepsFile, PrintsKept DEF JobInv
<1>3. \A p \in PrintRequests : ResetLeads(p)' /\ (BeforeReset(p)' => BeforeReset(p))
  BY ListenerKeepsReset DEF JobInv
<1>4. \A S : Unheard(S) => Unheard(S)'
  <2>1. UNCHANGED readerVars
    BY <1>1
       DEF ListenerStep, ListenerStarts, ListenerPanics, ListenerKilled, ListenerWrites,
           ListenerTakesPrintEnd, ListenerTakesPrintStart, ListenerChecks, ListenerEndsPrint,
           ListenerStartsPrint, ListenerSendsPreamble
  <2> QED
    BY <1>1, <2>1, OthersHearNothing
<1>5. InOrder' /\ Unheard(Beyond(last_line))' /\ \A p \in PrintRequests : NoneBefore(p)'
  BY <1>1, <1>3, <1>4, StillInOrder DEF JobInv
<1>6. ReaderGoesOn'
  BY <1>1, ListenerKeepsGoing DEF JobInv
<1> QED
  BY <1>2, <1>3, <1>5, <1>6 DEF JobInv

LEMMA ReaderKeepsJobInv ==
    ASSUME JobTypeOK, OnePrint, JobInv, JobReader
    PROVE  JobInv'
<1>1. /\ TypeOK /\ ReaderStep(connection) /\ connection \in Bridges
      /\ UNCHANGED <<to_printer, from_printer, last_line, executed, req>>
  BY ConnectionIsBridge DEF JobReader, JobTypeOK, printerVars, routesVars
<1>2. PrintInv' /\ OfTheFile'
  BY <1>1, ReaderKeepsPrintInv, ReaderKeepsFile, PrintsKept DEF JobInv
<1>3. \A p \in PrintRequests : ResetLeads(p)' /\ (BeforeReset(p)' => BeforeReset(p))
  BY <1>1, ReaderKeepsReset DEF JobInv
<1>4. \A S : Closed(S) /\ Unheard(S) => Unheard(S)'
  BY <1>1, ReaderHearsNothing
<1>5. InOrder' /\ Unheard(Beyond(last_line))' /\ \A p \in PrintRequests : NoneBefore(p)'
  BY <1>1, <1>3, <1>4, StillInOrder DEF JobInv
<1>6. ReaderGoesOn'
  BY <1>1, ReaderKeepsGoing DEF JobInv
<1> QED
  BY <1>2, <1>3, <1>5, <1>6 DEF JobInv

\* What the rest of the server sees does not change.
LEMMA QuietKeepsReset ==
    ASSUME OfTheFile, PrintInv,
           UNCHANGED <<busVars, listenerVars, print_info, to_printer, routesVars>>
    PROVE  /\ OfTheFile'
           /\ \A p \in PrintRequests : /\ ResetLeads(p) => ResetLeads(p)'
                                       /\ BeforeReset(p)' => BeforeReset(p)
<1>1. UNCHANGED <<distributor, bridge_channel, listener, next_print, print_info, to_printer, req>>
  BY DEF busVars, listenerVars, routesVars
<1>2. \A p \in PrintRequests : Early(p)' <=> Early(p)
  BY <1>1 DEF Early, Waiting, Begun, Taken, Printing, Free, Starts
<1> QED
  BY <1>1, <1>2 DEF OfTheFile, ResetLeads, BeforeReset, Preamble, ResetOf

LEMMA QuietKeepsPrintInv ==
    ASSUME TypeOK, PrintInv, OneHolder',
           UNCHANGED <<busVars, listenerVars, print_info, routesVars>>
    PROVE  PrintInv'
<1>1. UNCHANGED <<distributor, bridge_channel, listener, next_print, print_info, req>>
  BY DEF busVars, listenerVars, routesVars
<1>2. AddsPlain
  BY <1>1 DEF AddsPlain
<1>3. /\ \A p \in Prints : Taken(p)' \subseteq Taken(p)
      /\ \A c \in Bridges, p \in Prints : Printing(c, p)' => Printing(c, p)
  BY <1>1 DEF Taken, Printing
<1> QED
  BY <1>1, <1>2, <1>3, PlainKeepsPrintInv, PrintsKept

LEMMA ReceivingKeepsJobInv ==
    ASSUME JobTypeOK, JobInv, JobReceives
    PROVE  JobInv'
<1>1. /\ TypeOK /\ connection \in Bridges /\ reader \in [Bridges -> ReaderState]
      /\ reader' = [reader EXCEPT ![connection] = "line"]
      /\ UNCHANGED <<busVars, listenerVars, print_info, to_printer, routesVars>>
      /\ UNCHANGED <<last_line, executed>>
  BY ConnectionIsBridge DEF JobReceives, ReaderReceives, JobTypeOK, TypeOK, BridgeTypeOK
<1>2. PrintInv'
  <2>1. OneHolder'
    BY <1>1 DEF JobInv, PrintInv, OneHolder, listenerVars
  <2> QED
    BY <1>1, <2>1, QuietKeepsPrintInv DEF JobInv
<1>3. /\ OfTheFile'
      /\ \A p \in PrintRequests : ResetLeads(p)' /\ (BeforeReset(p)' => BeforeReset(p))
  BY <1>1, QuietKeepsReset DEF JobInv
<1>4. \A S : Closed(S) /\ Unheard(S) => Unheard(S)'
  BY ReceivingHearsNothing
<1>5. InOrder' /\ Unheard(Beyond(last_line))' /\ \A p \in PrintRequests : NoneBefore(p)'
  BY <1>1, <1>3, <1>4, StillInOrder DEF JobInv
<1>6. ReaderGoesOn'
  BY <1>1 DEF ReaderGoesOn
<1> QED
  BY <1>2, <1>3, <1>5, <1>6 DEF JobInv

LEMMA PrinterKeepsJobInv ==
    ASSUME JobTypeOK, OnePrint, JobInv, PrinterStep
    PROVE  JobInv'
<1>1. TypeOK /\ UNCHANGED <<busVars, listenerVars, print_info, readerVars, routesVars>>
  BY DEF PrinterStep, serverVars, bridgeVars, JobTypeOK
<1>2. PrintInv'
  <2>1. OneHolder'
    BY <1>1 DEF JobInv, PrintInv, OneHolder, listenerVars, readerVars
  <2> QED
    BY <1>1, <2>1, QuietKeepsPrintInv DEF JobInv
<1>3. OfTheFile' /\ \A p \in PrintRequests : ResetLeads(p)'
  BY PrinterKeepsFile, PrinterKeepsReset DEF JobInv
<1>4. InOrder' /\ Unheard(Beyond(last_line))' /\ \A p \in PrintRequests : NoneBefore(p)'
  BY PrinterKeepsOrder DEF JobInv
<1>5. ReaderGoesOn'
  BY <1>1 DEF JobInv, ReaderGoesOn, listenerVars, readerVars, HasLine, Wanted
<1> QED
  BY <1>2, <1>3, <1>4, <1>5 DEF JobInv

\* A line of the printer is lost, or nothing happens.
LEMMA LosingKeepsJobInv ==
    ASSUME JobTypeOK, JobInv, LineLost \/ UNCHANGED jobAllVars
    PROVE  JobInv'
<1>1. /\ TypeOK /\ UNCHANGED <<busVars, listenerVars, print_info, readerVars, routesVars>>
      /\ UNCHANGED <<to_printer, last_line, executed>>
      /\ \/ from_printer' = from_printer
         \/ from_printer # <<>> /\ from_printer' = Tail(from_printer)
      /\ from_printer \in Seq(PrinterLine)
  BY DEF LineLost, jobAllVars, vars, jobVars, printerVars, serverVars, bridgeVars, JobTypeOK
<1>2. PrintInv'
  <2>1. OneHolder'
    BY <1>1 DEF JobInv, PrintInv, OneHolder, listenerVars, readerVars
  <2> QED
    BY <1>1, <2>1, QuietKeepsPrintInv DEF JobInv
<1>3. /\ OfTheFile'
      /\ \A p \in PrintRequests : ResetLeads(p)' /\ (BeforeReset(p)' => BeforeReset(p))
  BY <1>1, QuietKeepsReset DEF JobInv
<1>4. \A S : Unheard(S) => Unheard(S)'
  <2> SUFFICES ASSUME NEW S, Unheard(S)
               PROVE  Unheard(S)'
    OBVIOUS
  <2>1. Free(from_printer', S)
    <3>1. Free(from_printer, S)
      BY DEF Unheard
    <3>2. from_printer # <<>> => Free(Tail(from_printer), S)
      BY <1>1, <3>1, FreeTaken
    <3> QED
      BY <1>1, <3>1, <3>2
  <2> QED
    BY <1>1, <2>1 DEF Unheard, readerVars, setupVars, Free, Meant
<1>5. InOrder' /\ Unheard(Beyond(last_line))' /\ \A p \in PrintRequests : NoneBefore(p)'
  BY <1>1, <1>3, <1>4, StillInOrder DEF JobInv
<1>6. ReaderGoesOn'
  BY <1>1 DEF JobInv, ReaderGoesOn, listenerVars, readerVars, HasLine, Wanted
<1> QED
  BY <1>2, <1>3, <1>5, <1>6 DEF JobInv

LEMMA JobInitInv ==
    ASSUME JobInit
    PROVE  JobInv
<1>1. /\ distributor = <<>> /\ bridge_channel = <<>> /\ to_printer = <<>> /\ from_printer = <<>>
      /\ last_line = 0 /\ executed = [p \in Prints |-> <<>>]
      /\ collected_responses[connection] = <<>>
      /\ reader[connection] = "reading"
      /\ \A b \in Bridges : /\ listener[b] \in {"running", "none"} /\ next_print[b] = None
                            /\ print_info[b] = None
      /\ \A r \in Requests : req[r] \in {"done", "idle"}
  BY ConnectionIsBridge DEF JobInit, For, Bridges
<1>2. \A S, T : /\ Free(<<>>, S)
                /\ Leads(<<>>, T, S)
  BY DEF Free, Leads
<1>3. PrintInv
  <2>1. \A p \in Prints : Taken(p) = {} /\ Begun(p) = {} /\ \A b \in Bridges : ~ Printing(b, p)
    BY <1>1 DEF Taken, Begun, Printing
  <2> QED
    BY <1>1, <1>2, <2>1 DEF PrintInv, OneHolder, PrintOnce, LinesFollow
<1>4. OfTheFile
  BY <1>1, <1>2 DEF OfTheFile
<1>5. InOrder
  BY <1>1, FileLengthIsNat DEF InOrder
<1>6. \A S : Unheard(S)
  BY <1>1, <1>2 DEF Unheard, Working
<1>7. \A p \in PrintRequests : ResetLeads(p)
  BY <1>1, <1>2 DEF ResetLeads
<1>8. ReaderGoesOn
  BY <1>1 DEF ReaderGoesOn
<1> QED
  BY <1>1, <1>3, <1>4, <1>5, <1>6, <1>7, <1>8 DEF JobInv, NoneBefore

LEMMA JobNextInv ==
    ASSUME JobTypeOK, OnePrint, OneFile, JobInv, [JobNext]_jobAllVars
    PROVE  JobInv'
BY ManagerKeepsJobInv, RouteKeepsJobInv, ListenerKeepsJobInv, ReaderKeepsJobInv,
   ReceivingKeepsJobInv, PrinterKeepsJobInv, LosingKeepsJobInv DEF JobNext

LEMMA JobInvHolds ==
    ASSUME OnePrint, OneFile
    PROVE  JobSpec => [](JobTypeOK /\ JobInv)
<1>1. JobInit => JobInv
  BY JobInitInv
<1>2. JobTypeOK /\ JobInv /\ [JobNext]_jobAllVars => JobInv'
  BY JobNextInv
<1> QED
  BY <1>1, <1>2, JobTypeCorrect, PTL DEF JobSpec
-----------------------------------------------------------------------------
(* What holds of one print                                                 *)

\* In one print no number that the printer acknowledges or asks for makes the serial reader
\* panic, repeated and lost lines included: it ends only when it is told to (models.rs 359).
THEOREM NumbersStayInBounds ==
    ASSUME OnePrint, OneFile
    PROVE  JobSpec => []LineNumberInBounds
<1>1. JobInv => LineNumberInBounds
  BY DEF JobInv, ReaderGoesOn, LineNumberInBounds
<1> QED
  BY <1>1, JobInvHolds, PTL

\* The reader takes the print to be over when the printer has executed the last line.
LEMMA EndIsAfterLast ==
    ASSUME JobTypeOK, JobInv, ReaderStep(connection),
           distributor' = Append(distributor, PrintEnd)
    PROVE  \E p \in Prints : /\ p = print_info[connection].print
                             /\ Len(executed[p]) = FileLength
<1> DEFINE c == connection
           p == print_info[c].print
           n == action[c].n
<1>1. /\ c \in Bridges /\ TypeOK /\ OfTheFile /\ InOrder /\ ReaderGoesOn
      /\ Unheard(Beyond(last_line))
      /\ last_line \in Nat /\ FileLength \in Nat /\ last_line <= FileLength
  BY ConnectionIsBridge, FileLengthIsNat DEF JobInv, JobTypeOK, InOrder
<1>2. /\ print_info[c] \in PrintInfo /\ action[c] \in BridgeAction
      /\ ~ HasLine(print_info[c], Wanted(action[c]))
      /\ ReaderFirstLine(c) \/ ReaderNextLine(c) \/ ReaderSendsLine(c)
  BY <1>1, ReaderEnds
<1>3. p \in PrintRequests /\ p \in Prints /\ print_info[c].length = FileLength + 1
  BY <1>1, <1>2, NoneAssumption DEF OfTheFile, InfoOK, PrintInfo
<1>4. Wanted(action[c]) \in Nat /\ Wanted(action[c]) >= FileLength + 1
  BY <1>1, <1>2, <1>3 DEF HasLine, Wanted, BridgeAction
<1>5. last_line = FileLength
  <2>1. CASE ReaderFirstLine(c)
    <3>1. Wanted(action[c]) = 1
      BY <2>1 DEF ReaderFirstLine, Wanted
    <3> QED
      BY <1>1, <1>4, <3>1
  <2>2. CASE ReaderNextLine(c)
    <3>1. /\ reader[c] \in {"print", "progress"} /\ print_info[c] # None /\ n # None
          /\ action[c].kind = "Continue"
      BY <2>2 DEF ReaderNextLine
    <3>2. n \in Nat /\ n <= last_line
      BY <1>1, <3>1, NumbersInBounds
    <3>3. Wanted(action[c]) = n + 1
      BY <3>1 DEF Wanted
    <3> QED
      BY <1>1, <1>4, <3>2, <3>3
  <2>3. ~ ReaderSendsLine(c)
    BY <1>1, <1>2 DEF ReaderSendsLine, ReaderGoesOn
  <2> QED
    BY <1>2, <2>1, <2>2, <2>3
<1>6. Len(executed[p]) = FileLength
  BY <1>1, <1>3, <1>5 DEF InOrder
<1> QED
  BY <1>3, <1>6

LEMMA JobStepPrints ==
    ASSUME JobTypeOK, OnePrint, JobInv, [JobNext]_jobAllVars
    PROVE  [Printed!Next]_<<executed, finished>>
<1>1. CASE JobReader
  <2>1. executed' = executed
    BY <1>1 DEF JobReader, printerVars
  <2>2. CASE distributor' = Append(distributor, PrintEnd)
    <3>1. PICK p \in Prints : p = print_info[connection].print /\ Len(executed[p]) = FileLength
      BY <1>1, <2>2, EndIsAfterLast DEF JobReader
    <3>2. finished' = finished \cup {p}
      BY <1>1, <2>2, <3>1 DEF JobReader
    <3>3. Printed!Finish(p)
      BY <2>1, <3>1, <3>2 DEF Printed!Finish
    <3> QED
      BY <3>3 DEF Printed!Next
  <2>3. CASE distributor' # Append(distributor, PrintEnd)
    BY <1>1, <2>1, <2>3 DEF JobReader
  <2> QED
    BY <2>2, <2>3
<1>2. CASE PrinterStep
  <2> DEFINE m == Head(to_printer)
  <2>1. CASE PrinterExecutes(m)
    <3>1. m \in Message /\ MessageOK(m) /\ m.command = "line"
      BY <1>2, <2>1, PrinterTakes DEF JobInv, PrinterExecutes
    <3>2. m.of \in PrintRequests /\ m.of \in Prints /\ m.n \in Nat /\ m.n <= FileLength
      BY <3>1, PartOfPrint DEF MessageOK, Prints, PrintRequests
    <3>3. Len(executed[m.of]) = last_line /\ last_line \in Nat /\ FileLength \in Nat
      BY <3>2, FileLengthIsNat DEF JobInv, InOrder, JobTypeOK
    <3>4. /\ m.n = Len(executed[m.of]) + 1
          /\ executed' = [executed EXCEPT ![m.of] = Append(@, m.n)]
          /\ finished' = finished
      BY <1>2, <2>1, <3>3 DEF PrinterStep, PrinterExecutes
    <3> HIDE DEF m
    <3>5. Len(executed[m.of]) < FileLength
      BY <3>2, <3>3, <3>4
    <3>6. executed' = [executed EXCEPT ![m.of] = Append(@, Len(@) + 1)]
      BY <3>4
    <3>7. Printed!Execute(m.of)
      BY <3>4, <3>5, <3>6 DEF Printed!Execute
    <3> QED
      BY <3>2, <3>7 DEF Printed!Next
  <2>2. CASE ~ PrinterExecutes(m)
    BY <1>2, <2>2
       DEF PrinterStep, PrinterResets, PrinterObeys, PrinterRejects, PrinterGetsDamaged, AsksAgain
  <2> QED
    BY <2>1, <2>2
<1>3. CASE \/ JobManager \/ JobListener \/ JobReceives \/ LineLost \/ UNCHANGED jobAllVars
           \/ \E r \in Requests : JobRoute(r)
  BY <1>3
     DEF JobManager, JobListener, JobReceives, LineLost, JobRoute, jobAllVars, jobVars, printerVars
<1> QED
  BY <1>1, <1>2, <1>3 DEF JobNext

\* With damaged lines, lost answers, a cancel or a terminal message, a print on an idle
\* connection is a printout: every line once and in order, and the end only after the last
\* (bridge.rs 147-206 and 225-271, models.rs 336-370).
THEOREM PrintsOut ==
    ASSUME OnePrint, OneFile
    PROVE  JobSpec => ImplementsPrintout
<1>1. JobInit => Printed!Init
  BY DEF JobInit, Printed!Init
<1>2. JobTypeOK /\ JobInv /\ [JobNext]_jobAllVars => [Printed!Next]_<<executed, finished>>
  BY JobStepPrints
<1> QED
  BY <1>1, <1>2, JobInvHolds, PTL DEF JobSpec, ImplementsPrintout, Printed!Spec
\* bridge.rs 646: "Finished print".  With one print that is so (with two it is not: an ok that
\* belongs to the first may be counted for the second).
THEOREM FinishedMeansPrinted ==
    ASSUME OnePrint, OneFile
    PROVE  JobSpec => []FinishedIsPrinted
<1>1. JobInit => FinishedIsPrinted
  BY DEF JobInit, FinishedIsPrinted
<1>2. JobTypeOK /\ JobInv /\ FinishedIsPrinted /\ [JobNext]_jobAllVars => FinishedIsPrinted'
  <2> SUFFICES ASSUME JobTypeOK, JobInv, FinishedIsPrinted, [JobNext]_jobAllVars
               PROVE  FinishedIsPrinted'
    OBVIOUS
  <2>1. executed \in [Prints -> Seq(Nat)] /\ finished \subseteq Prints
    BY DEF JobTypeOK
  <2>2. ASSUME NEW p \in Prints, Printed!Execute(p)
        PROVE  FinishedIsPrinted'
    <3>1. p \notin finished
      BY <2>1, <2>2 DEF Printed!Execute, FinishedIsPrinted
    <3> QED
      BY <2>1, <2>2, <3>1 DEF Printed!Execute, FinishedIsPrinted
  <2>3. ASSUME NEW p \in Prints, Printed!Finish(p)
        PROVE  FinishedIsPrinted'
    BY <2>3 DEF Printed!Finish, FinishedIsPrinted
  <2>4. CASE UNCHANGED <<executed, finished>>
    BY <2>4 DEF FinishedIsPrinted
  <2> QED
    BY <2>2, <2>3, <2>4, JobStepPrints DEF Printed!Next
<1> QED
  BY <1>1, <1>2, JobInvHolds, PTL DEF JobSpec
=============================================================================
