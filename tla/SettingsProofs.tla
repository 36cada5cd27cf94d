---------------------------- MODULE SettingsProofs ----------------------------
(***************************************************************************)
(* Settings, whatever texts are stored, however wide the numbers and the   *)
(* integers they are cut to, and whenever the process ends.                *)
(***************************************************************************)
EXTENDS Settings, TLAPS

\* A number that parses, cut to u32, is a port; a row that is not there is not read.
LEMMA BaudIsPort ==
    ASSUME TypeOK, up, ~ RowPanics("N_deviceBaud")
    PROVE  Baud \in 0..(Width - 1)
<1>1. RowNumber("N_deviceBaud") \in Nat
  BY SettingsAssumption DEF RowPanics, RowNumber, Type
<1>2. Width \in Nat /\ Width > 0
  BY SettingsAssumption
<1> HIDE DEF RowNumber
<1> QED
  BY <1>1, <1>2 DEF Baud

\* Both bridges that can be asked for have a text for an address.
LEMMA BridgesAsked ==
    ASSUME TypeOK, up, ~ RowPanics("N_deviceBaud"), NEW who \in {"request", "boot"}
    PROVE  [by |-> who, address |-> settings.S_devicePath, port |-> Baud] \in Bridges
<1>1. settings.S_devicePath \in Texts
  BY DEF TypeOK, Ids, Type
<1> QED
  BY <1>1, BaudIsPort DEF Bridges

\* Every row is there while the process runs, and what was asked for is an address and a u32
\* (main.rs 462-479, models.rs).
THEOREM SettingsTypeCorrect == Spec => []TypeOK
<1>1. Init => TypeOK
  BY DEF Init, TypeOK, Ids, Type
<1>2. TypeOK /\ [Next]_vars => TypeOK'
  <2> SUFFICES ASSUME TypeOK, [Next]_vars
               PROVE  TypeOK'
    OBVIOUS
  <2>1. CASE Start
    <3>1. \A id \in Ids : SetupDb[id] \in Texts
      <4>1. Ids = {"S_devicePath", "B_startOnBoot", "N_deviceBaud", "F_adjustCorrectionF"}
        BY DEF Ids, Type
      <4>2. \A id \in Ids : Default[id] \in Texts
        BY <4>1, SettingsAssumption DEF Default, Texts
      <4> QED
        BY <4>2 DEF TypeOK, SetupDb
    <3>2. SetupDb \in [Ids -> Texts \cup {NoRow}] /\ \A id \in Ids : SetupDb[id] # NoRow
      BY <3>1, SettingsAssumption DEF SetupDb
    <3> QED
      BY <2>1, <3>2 DEF Start, TypeOK
  <2>2. CASE Stop
    BY <2>2 DEF Stop, TypeOK
  <2>3. ASSUME NEW id \in Ids, NEW text \in Texts, UpdateSettings(id, text)
        PROVE  TypeOK'
    BY <2>3, SettingsAssumption DEF UpdateSettings, TypeOK
  <2>4. CASE UpdateNothing \/ ListSettings
    BY <2>4 DEF UpdateNothing, ListSettings, TypeOK
  <2>5. CASE Connect
    <3>1. CASE created' = created
      BY <2>5, <3>1 DEF Connect, TypeOK
    <3>2. CASE \A id \in Ids : ~ RowPanics(id)
      <4>1. ~ RowPanics("N_deviceBaud")
        BY <3>2 DEF Ids, Type
      <4>2. created' \in Bridges \cup {None}
        BY <2>5, <4>1, BridgesAsked DEF Connect, TypeOK
      <4> QED
        BY <2>5, <4>2 DEF Connect, TypeOK
    <3> QED
      BY <2>5, <3>1, <3>2 DEF Connect
  <2>6. CASE ConnectBoot
    <3>1. created' \in Bridges \cup {None}
      BY <2>6, BridgesAsked DEF ConnectBoot, TypeOK
    <3> QED
      BY <2>6, <3>1 DEF ConnectBoot, TypeOK
  <2>7. CASE ConnectBootGivesUp
    BY <2>7 DEF ConnectBootGivesUp, TypeOK
  <2>8. CASE UNCHANGED vars
    BY <2>8 DEF vars, TypeOK
  <2> QED
    BY <2>1, <2>2, <2>3, <2>4, <2>5, <2>6, <2>7, <2>8 DEF Next
<1> QED
  BY <1>1, <1>2, PTL DEF Spec

\* A connection a client asked for has a device and a baud rate: the number is compared with
\* 0 after it was cut, so a multiple of 2^32 is refused (create_connection.rs 46-58).
THEOREM ConnectsToDevice == Spec => []ClientConnectsToDevice
<1>1. Init => ClientConnectsToDevice
  BY DEF Init, ClientConnectsToDevice
<1>2. ClientConnectsToDevice /\ [Next]_vars => ClientConnectsToDevice'
  <2> SUFFICES ASSUME ClientConnectsToDevice, [Next]_vars
               PROVE  ClientConnectsToDevice'
    OBVIOUS
  <2>1. CASE Connect
    <3> DEFINE asked == [by |-> "request", address |-> settings.S_devicePath, port |-> Baud]
    <3>1. (created' = asked /\ SetUp) \/ created' = created
      BY <2>1 DEF Connect
    <3>2. SetUp => asked.address # Blank /\ asked.port # 0
      BY DEF SetUp
    <3> HIDE DEF asked
    <3> QED
      BY <3>1, <3>2 DEF ClientConnectsToDevice
  <2>2. CASE ConnectBoot
    <3> DEFINE asked == [by |-> "boot", address |-> settings.S_devicePath, port |-> Baud]
    <3>1. created' = asked \/ created' = created
      BY <2>2 DEF ConnectBoot
    <3>2. asked.by # "request"
      OBVIOUS
    <3> HIDE DEF asked
    <3> QED
      BY <3>1, <3>2 DEF ClientConnectsToDevice
  <2>3. CASE Stop
    BY <2>3 DEF Stop, ClientConnectsToDevice
  <2>4. CASE created' = created
    BY <2>4 DEF ClientConnectsToDevice
  <2> QED
    BY <2>1, <2>2, <2>3, <2>4
       DEF Next, vars, Start, UpdateSettings, UpdateNothing, ListSettings, ConnectBootGivesUp
<1> QED
  BY <1>1, <1>2, PTL DEF Spec

\* INSERT OR IGNORE: neither a start nor an end of the process changes a row that is there
\* (main.rs 462-479).
THEOREM RestartKeepsSettings == Spec => SettingsSurvive
<1> DEFINE Kept == \A id \in Ids : settings[id] # NoRow /\ up' # up => settings'[id] = settings[id]
<1>1. [Next]_vars => [Kept]_vars
  <2> SUFFICES ASSUME Next
               PROVE  Kept
    OBVIOUS
  <2>1. CASE Start
    BY <2>1 DEF Start, SetupDb
  <2>2. CASE Stop
    BY <2>2 DEF Stop
  <2>3. CASE up' = up
    BY <2>3
  <2> QED
    BY <2>1, <2>2, <2>3
       DEF Next, UpdateSettings, UpdateNothing, ListSettings, Connect, ConnectBoot,
           ConnectBootGivesUp
<1> QED
  BY <1>1, PTL DEF Spec, SettingsSurvive
=============================================================================
