------------------------------- MODULE Events -------------------------------
(***************************************************************************)
(* The event bus of the server (models.rs) and the state every task shares.*)
(*                                                                         *)
(* Two unbounded crossbeam channels carry EventType values: `distributor`, *)
(* read by the manager's main loop only, and `bridge_channel`, created     *)
(* once by the manager and read by the event listener of EVERY bridge that *)
(* is alive.  `state` is the Arc<Mutex<StateWrapper>>: only the main loop  *)
(* writes it, everybody reads it, each access being one lock acquisition.  *)
(*                                                                         *)
(* Events whose only effect is a broadcast to the websockets (TempUpdate,  *)
(* IncomingTerminalMessage) are not queued in this model.                  *)
(***************************************************************************)
EXTENDS Naturals, Sequences

CONSTANTS
    Requests,  \* API requests, each issued at most once
    None,      \* Rust's None, JSON null
    Faults     \* the faults of the environment that may happen

FaultNames == {"open",       \* the port cannot be opened
               "configure",  \* the port is opened but cannot be set up or cloned
               "read", "write",
               "settings",   \* a stored setting does not parse
               "body"}       \* a client breaks off while its request is read

ASSUME FaultsAssumption == Faults \subseteq FaultNames

(***************************************************************************)
(* A bridge is named by the request whose CreateBridge event started it, a *)
(* print by the request whose PrintStart event carried it (the code tells  *)
(* prints apart by their start time).                                      *)
(***************************************************************************)
Bridges == Requests
Prints  == Requests

\* PREPARING and FINISHING exist in the enum but nothing constructs them.
BridgeState == {"DISCONNECTED", "CONNECTED", "CONNECTING", "ERRORED", "PRINTING"}
Offline     == {"DISCONNECTED", "ERRORED"}

(***************************************************************************)
(* `of` is the print a PRINTING state describes (StateDescription::Print). *)
(* For CONNECTING it names the bridge: bookkeeping that no action reads,   *)
(* except the timing assumption of Bridge!TimeoutElapses.                  *)
(***************************************************************************)
StateWrapper == [state: BridgeState, of: Requests \cup {None}]

Wrapper(s, r) == [state |-> s, of |-> r]

\* A message for the printer: a command, or numbered line n of a print.
Commands == {"M115", "G90", "M155 S2", "M501", "M110 N0", "user"}
Message  == [command: Commands, of: Requests \cup {None}, n: {0}]
              \cup [command: {"line"}, of: Prints, n: Nat]

Command(c, r)    == [command |-> c, of |-> r, n |-> 0]
NumberedLine(p, k) == [command |-> "line", of |-> p, n |-> k]

(***************************************************************************)
(* PrintInfo: `length` is gcode.len(), the leading "M110 N0" included, so  *)
(* the lines of the file are 1 .. length - 1.                              *)
(***************************************************************************)
PrintInfo == [print: Prints, length: Nat \ {0}, line_number: Nat, resend_amount: Nat]

NewPrintInfo(p, len) ==
    [print |-> p, length |-> len, line_number |-> 0, resend_amount |-> 0]

ASSUME NoneAssumption == None \notin Requests /\ None \notin Nat /\ None \notin PrintInfo

StateUpdate(s, r)   == [type |-> "StateUpdate", wrapper |-> Wrapper(s, r)]
CreateBridge(b)     == [type |-> "CreateBridge", bridge |-> b]
CreateBridgeError   == [type |-> "CreateBridgeError"]
KillBridge          == [type |-> "KillBridge"]
PrintEnd            == [type |-> "PrintEnd"]
PrintStart(info)    == [type |-> "PrintStart", info |-> info]
OutGoing(m)         == [type |-> "OutGoingTerminalMessage", message |-> m]

EventType ==
    [type: {"StateUpdate"}, wrapper: StateWrapper]
      \cup [type: {"CreateBridge"}, bridge: Bridges]
      \cup [type: {"CreateBridgeError", "KillBridge", "PrintEnd"}]
      \cup [type: {"PrintStart"}, info: PrintInfo]
      \cup [type: {"OutGoingTerminalMessage"}, message: Message]

VARIABLES
    distributor,     \* events on their way to the main loop
    bridge_channel,  \* events on their way to whichever listener takes them
    state            \* the shared StateWrapper

busVars == <<distributor, bridge_channel, state>>

BusTypeOK ==
    /\ distributor \in Seq(EventType)
    /\ bridge_channel \in Seq(EventType)
    /\ state \in StateWrapper

BusInit ==
    /\ distributor = <<>>
    /\ bridge_channel = <<>>
    /\ state = Wrapper("DISCONNECTED", None)

\* models.rs send(): neither channel can be full or closed while the process runs.
Send(e)         == distributor' = Append(distributor, e)
SendToBridge(e) == bridge_channel' = Append(bridge_channel, e)

\* The process-wide panic hook, the same in every task that installs one.
PanicHook == Send(StateUpdate("ERRORED", None))

Errored == StateUpdate("ERRORED", None)

Contains(q, e) == \E i \in 1 .. Len(q) : q[i] = e
=============================================================================
