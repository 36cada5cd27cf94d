------------------------------- MODULE Settings -------------------------------
(***************************************************************************)
(* The settings table: setup_db and connect_boot of main.rs, SettingRow of *)
(* models.rs, list_settings.rs, update_settings.rs, and what the routes    *)
(* create_connection.rs and reconnect_connection.rs read from it.          *)
(*                                                                         *)
(* A value is a text.  The model tells apart the empty text (which is also *)
(* what NULL decodes to), "true", the numbers, and any other text.  One    *)
(* setting stands for all that are neither of the three that a connection  *)
(* is made of.  When a connection may be asked for at all is in Routes.    *)
(***************************************************************************)
EXTENDS Naturals

CONSTANTS
    Numbers,  \* the numbers among the texts
    Width,    \* 2^32
    Blank, True, Word,  \* the empty text, "true", and text that is no number
    NoRow,
    None

Texts == Numbers \cup {Blank, True, Word}

ASSUME SettingsAssumption ==
    /\ Numbers \subseteq Nat
    /\ 0 \in Numbers
    /\ Width \in Nat \ {0}
    /\ NoRow \notin Texts
    /\ Blank \notin Numbers

VARIABLES
    settings,  \* the table
    up,        \* the process runs
    booting,   \* connect_boot has not read the settings yet
    answer,    \* of the last request
    created    \* the last CreateBridge event

vars == <<settings, up, booting, answer, created>>

Type == [S_devicePath |-> 0, B_startOnBoot |-> 1, N_deviceBaud |-> 2, F_adjustCorrectionF |-> 3]
Ids == DOMAIN Type

Bridges == [by: {"request", "boot"}, address: Texts, port: 0..(Width - 1)]

TypeOK ==
    /\ settings \in [Ids -> Texts \cup {NoRow}]
    /\ up \in BOOLEAN
    /\ booting \in BOOLEAN
    /\ answer \in {"none", "settings", "updated", "connecting", "bad request", "panic"}
    /\ created \in Bridges \cup {None}
    \* Every reader finds its rows.
    /\ up => \A id \in Ids : settings[id] # NoRow
    /\ booting => up

Init ==
    /\ settings = [id \in Ids |-> NoRow]
    /\ up = FALSE
    /\ booting = FALSE
    /\ answer = "none"
    /\ created = None

-----------------------------------------------------------------------------
(* main.rs: the process starts                                             *)

Default == [S_devicePath |-> Blank, B_startOnBoot |-> 0, N_deviceBaud |-> Blank,
            F_adjustCorrectionF |-> Blank]

\* A wrong SetupDb: INSERT OR REPLACE.
SetupDbReplaces == Default

\* INSERT OR IGNORE
SetupDb == [id \in Ids |-> IF settings[id] = NoRow THEN Default[id] ELSE settings[id]]

Start ==
    /\ ~ up
    /\ up' = TRUE
    /\ settings' = SetupDb
    /\ booting' = TRUE
    /\ UNCHANGED <<answer, created>>

\* The process ends at any moment.
Stop ==
    /\ up
    /\ up' = FALSE
    /\ booting' = FALSE
    /\ answer' = "none"
    /\ created' = None
    /\ UNCHANGED settings

-----------------------------------------------------------------------------
(* models.rs                                                               *)

\* value.parse().unwrap() of a number or a float
RowPanics(id) == Type[id] \in {2, 3} /\ settings[id] \notin Numbers \cup {Blank}

RowBool(id) == settings[id] \in {True, 1}

RowNumber(id) == IF settings[id] = Blank THEN 0 ELSE settings[id]

\* A wrong Baud: the number as it was stored.
BaudUncut == RowNumber("N_deviceBaud")

\* row.number.unwrap() as u32
Baud == RowNumber("N_deviceBaud") % Width

-----------------------------------------------------------------------------
(* routes/ and connect_boot                                                *)

UpdateSettings(id, text) ==
    /\ up
    /\ settings' = [settings EXCEPT ![id] = text]
    /\ answer' = "updated"
    /\ UNCHANGED <<up, booting, created>>

\* A body that is no setting is refused; an unknown id updates no row.
UpdateNothing ==
    /\ up
    /\ answer' \in {"bad request", "updated"}
    /\ UNCHANGED <<settings, up, booting, created>>

ListSettings ==
    /\ up
    /\ answer' = IF \E id \in Ids : RowPanics(id) THEN "panic" ELSE "settings"
    /\ UNCHANGED <<settings, up, booting, created>>

\* A wrong SetUp: the number is looked at before it is cut to 32 bits.
SetUpBeforeCast == settings.S_devicePath # Blank /\ RowNumber("N_deviceBaud") # 0

SetUp == settings.S_devicePath # Blank /\ Baud # 0

\* create_connection and reconnect_connection read the whole table.
Connect ==
    /\ up
    /\ \/ /\ \E id \in Ids : RowPanics(id)
          /\ answer' = "panic"
          /\ UNCHANGED created
       \/ /\ \A id \in Ids : ~ RowPanics(id)
          /\ ~ SetUp
          /\ answer' = "bad request"
          /\ UNCHANGED created
       \/ /\ \A id \in Ids : ~ RowPanics(id)
          /\ SetUp
          /\ answer' = "connecting"
          /\ created' = [by |-> "request", address |-> settings.S_devicePath, port |-> Baud]
    /\ UNCHANGED <<settings, up, booting>>

\* connect_boot reads the three rows it needs.
ConnectBoot ==
    /\ booting
    /\ booting' = FALSE
    /\ created' = IF ~ RowPanics("N_deviceBaud") /\ RowBool("B_startOnBoot") /\ Baud # 0
                  THEN [by |-> "boot", address |-> settings.S_devicePath, port |-> Baud]
                  ELSE created
    /\ UNCHANGED <<settings, up, answer>>

\* The state was no longer DISCONNECTED.
ConnectBootGivesUp ==
    /\ booting
    /\ booting' = FALSE
    /\ UNCHANGED <<settings, up, answer, created>>

Next ==
    \/ Start
    \/ Stop
    \/ \E id \in Ids, text \in Texts : UpdateSettings(id, text)
    \/ UpdateNothing
    \/ ListSettings
    \/ Connect
    \/ ConnectBoot
    \/ ConnectBootGivesUp

Spec == Init /\ [][Next]_vars

-----------------------------------------------------------------------------

\* A connection asked for by a client has a device and a baud rate other than 0, whatever
\* was stored: numbers wider than the u32 they are cut to included (create_connection.rs
\* 46-58).
ClientConnectsToDevice ==
    created # None /\ created.by = "request" => created.address # Blank /\ created.port # 0

\* A restart of the server forgets no setting (main.rs 462-479).
SettingsSurvive ==
    [][\A id \in Ids : settings[id] # NoRow /\ up' # up => settings'[id] = settings[id]]_vars
=============================================================================
