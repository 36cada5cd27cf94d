# gcode-3d server: verification project

TLA+ models of the server in `src/`, TLC configurations that check them on small
instances, and proofs of the most important safety properties for every value of the
constants.

The server sits between web clients and a 3D printer on a serial port. It opens and
supervises the connection, feeds a printer line by line with the G-code of a file,
forwards terminal messages, and tells every websocket client what state it is in. All of
it is asynchronous tasks around two unbounded channels and one shared, mutex-protected
state, and that is where its difficulty lies.

## 1. Inventory

| Component (source) | State | Operations | Hard part |
|---|---|---|---|
| Event bus, shared state (`api_manager/models.rs`) | `distributor`, `bridge_channel`, `StateWrapper` | `send`; lock, read or write | every bridge alive takes from the ONE bridge channel |
| Main loop (`main.rs` 120-297) | `bridge_thread`, the only writer of `state` | one arm per event | drops a task handle without stopping the task; panics when it meets an error it thinks impossible |
| Bridge start and timer (`bridge.rs` 59-130, 275-294) | the task, the timer | announce, open the port, spawn, ask for M115 | the port may open long after the connection was given up |
| Event listener (`bridge.rs` 501-629) | `print_info`, `is_canceled` | one arm per event | reads `state` and acts on it later; ends silently in the wrong state |
| Serial reader and handshake (`bridge.rs` 296-499) | line buffer, collected responses, commands left | one line at a time | two reads of `state` within one line; leaves "ok" in its buffer |
| Printing (`bridge.rs` 132-273, `models.rs` 301-380, `parser.rs` 16-40) | `PrintInfo` | continue, resend, end, progress | shares `print_info` with the listener; two ways to the printer, one faster |
| Connection routes and boot (`routes/create_*`, `disconnect_*`, `reconnect_*`, `main.rs` 298-344) | none | check `state`, send an event | check and send are apart; clients race |
| Print and terminal routes (`routes/start_print.rs`, `cancel_print.rs`, `terminal.rs`) | none | check `state`, send an event | the same |
| Websocket handler (`websocket_handler.rs`, `main.rs` 114-118) | map of sockets, locked state | register and say "ready", broadcast, read, ping, close, remove | two mutexes taken in turn by three kinds of tasks; a client that stops reading; a client that goes between its ping and the pong |
| Router, authentication, permissions (`api_manager.rs`, `models.rs` 110-215) | none | dispatch, token query, permission bits, preflight | width of the bits, sense of the expiry test |
| Login and tokens (`routes/login.rs`, `main.rs` 481) | `tokens` table | verify, issue, expire, clean | tokens outlive restarts, sockets outlive tokens |
| File routes (`routes/upload_file.rs`, `rename_file.rs`, `list_files.rs`, the reading in `start_print.rs`) | the `files` directory | check, create, write chunk by chunk, rename, read | against the file being printed, and against each other: a path is checked, an inode is written |
| Settings (`routes/list_settings.rs`, `update_settings.rs`, `main.rs` 298-344 and 462-479, `models.rs` 60-107) | `settings` table | defaults, update, typed rows | any text is stored, every reader parses; a number of 64 bits is cut to 32 |
| Client update (`client_update_check.rs`) | `./client`, `dist.zip`, `build_info` | compare, download, unpack, record | a crash or a damaged download between two steps |
| Checksums, temperatures (`parser.rs` 42-95) | none | pure functions | one regular expression used for two things |
| Ping, DSN, responses, static files, schema | none | one answer each | none |

How they interact: a route compares a copy of `state` with the states it is allowed in
and sends an event to the `distributor`. The main loop takes it, writes `state`, starts or
lets go of a bridge, or hands the event on to the `bridge_channel`. Each bridge is four
tasks (start, timer, listener, reader) that answer with events of their own; only a
resent line goes straight to the `bridge_channel`. `state`, `print_info` and
`is_canceled` are shared under mutexes that are held for a few lines, with `await` points
between them.

What makes the components correct: at most one bridge owns the port, and any other is
about to be told to stop; what the clients are shown matches what is attached; a state
that is shown for a while resolves (CONNECTING does not last); an ended print is not
shown for ever as going on; the printer's line counter is reset before the first line; a
closed connection gives the port back; the printer executes every line of the file once
and in order; the last state a websocket client is told is the current one; the file of
a print is not replaced under it; a token that is to be remembered is; settings survive a
restart; the client on disk is the one `build_info` names.

`PROJECT.json` lists every component with its status, and under `hazards` every place
where this code is hard to test, with the property that covers it or the reason why none
does.

## 2. Modules

| Module | Models | Source |
|---|---|---|
| `Events` | events, channels, shared state, `send`, the panic hook | `models.rs`, `main.rs` |
| `Bridge` | the four tasks of each bridge | `bridge.rs`, `models.rs`, `parser.rs` |
| `Manager` | the main loop | `main.rs` |
| `Routes` | connection, print and terminal requests, boot | `routes/*.rs`, `main.rs` |
| `Server` | all of them together: `Next`, fairness, the properties | |
| `PrintJob` | `Server` with a printer that counts lines and a line that fails | `bridge.rs`, `parser.rs`; the printer is external |
| `Printout` | abstract: what a print is meant to be | |
| `WebSockets` | handlers, broadcast and checker around the map of sockets | `websocket_handler.rs`, `main.rs` |
| `Views` | abstract: what a web client may rely on | |
| `Files` | uploads, renames and the reading for a print over `./files` | `upload_file.rs`, `rename_file.rs`, `start_print.rs` |
| `Sessions` | logins, tokens, permission bits, routes and preflights | `login.rs`, `api_manager.rs`, `models.rs`, `main.rs` |
| `Settings` | the settings table, its readers and writers | `main.rs`, `models.rs`, `list_settings.rs`, `update_settings.rs`, `create_connection.rs` |
| `ClientUpdate` | the update of `./client` with crashes and damage | `client_update_check.rs` |
| `MC...` | small instances for TLC, one `.cfg` per run | |
| `...Proofs` | lemmas and theorems | |

`Manager` extends `Bridge`, `Bridge` and `Routes` extend `Events`, `Server` extends
`Manager` and `Routes`, `PrintJob` extends `Server` and instantiates `Printout`,
`WebSockets` instantiates `Views`. The others stand alone: they share with `Server` a
copy of `state` only, and say how they abstract it. An action names every variable: what
it leaves alone is UNCHANGED in it, and a composing module adds the variables of the
other modules.

### Server

* `distributor`, `bridge_channel`: the crossbeam channels, sequences of `EventType`.
  TempUpdate and IncomingTerminalMessage only cause a broadcast and are not queued here.
* `state`: the shared `StateWrapper`. `of` is the print a PRINTING state describes. For
  CONNECTING it names the bridge, which the code does not: no action reads it, except
  the timing assumption of section 4.
* A bridge is named by the request whose CreateBridge started it, a print by the request
  whose PrintStart carried it (the code tells prints apart by their start time). So
  every per-bridge variable is a function on `Requests`, and requests are used once.
* `start_task`, `timeout`, `listener`, `reader`: how far each task is. `canceled`,
  `print_info`, `next_print`: `is_canceled`, the print, the print an event taken from
  the channel carries.
* `line`, `collected`, `collected_responses`, `has_collected_capabilities`,
  `commands_left_to_send`, `action`: the local variables of the reader. A line is told
  apart by whether it starts with "ok" and by what matches in it (`PrinterLine`);
  `collected` says that an "ok" was left in the buffer.
* `main`: the main loop is waiting, has stored an offline state and not yet let go of the
  bridge ("detach"), or has panicked. `bridge_thread`: whose handle it holds.
* `req`: how far the handler of each request is.

Granularity. A step is what a task does between two points where another task can see or
change what it works on. In the bridge, taking an event, each read of `state` and each
send to the distributor is a step of its own. `print_info` is locked across steps where
the code holds its guard (`Locked`): while the listener sends PRINTING and M110, and while
the reader sends progress and then the line. Three pairs are one step because nothing
can tell the difference: taking KillBridge and setting `is_canceled`, taking a terminal
message and writing it to the port, sending KillBridge and dropping the handle.
`create_connection` and `cancel_print` are called with the guard of `state` as a temporary
of the call, which lives until the handler returns: check and send are one step. The other
routes release it first: they are two.

`abort()` only stops a task at an `await`, and `start()` has none: `Aborted` stops a start
task that has not begun and no other. Left out as dead code: `ready` is never set to
anything but true, so `message_queue` is always empty.

### PrintJob and Printout

`PrintJob` puts a printer at the other end of the port: `to_printer` and `from_printer`
are what is written and not read yet, in both directions, `last_line` is the printer's
line number, `executed` the lines of each print it executed. It is the Marlin that the
regular expressions of `parser.rs` expect: it numbers its oks, executes line n only after
n - 1, and asks for the line it waits for when it gets another one or a damaged one.
`JobInit` is the state in which a connection has been set up, where `ReaderConnected`
leaves it. That connection may be closed or given up, and is then not opened again: no
request of `PrintJob` creates one or reconnects (`PrintJobAssumption`), and no task of
another bridge takes a step. `Printout` says what that should amount to: lines in order,
each once, and an end only after the last; its `printed` is `executed`, its `finished` the
prints whose reader queued a PrintEnd.

### WebSockets and Views

`handler`, `main` and `checker` are the phases of the three kinds of tasks. The guards of
the two mutexes are derived from the phases (`SocketsLocked`, `StateLocked`); a task that
wants a lock waits in the phase before it. A step is what happens between two awaits:
each send, each read and each lock is one, since all of them can wait. `stream` says
whether a Close went over a socket, after which a send fails; `peer` what the client does:
it reads, has stopped reading (a send to it does not return), or is gone (a send may still
succeed until TCP notices, or fail). `view` is the last state a client was told, a variable
the code does not have. In `Views` there are neither tasks nor sockets: a client is told
the current state at any time, and nothing else.

### Files

`dir` maps names to inodes, `content` says which part of which upload each inode holds. An
upload that has created its file keeps the inode, whatever becomes of the name, until
another header in the same body begins another file (`BeginsFile`): then name and state
are checked and a file is created again. `opened` are the inodes it has created so far,
`before` the parts that came before its present file. `shown` is the print whose file name
the state describes. Both checks keep the guard of `state` until the file is created or
renamed, while a print is accepted, counts the lines of its file, opens it again, reads it
and is shown only after that.

Uploads and renames are asked for by a name of the directory. A print is asked for by any
text that ends in `.gcode` and is joined to `./files/`: `Aliases` are texts such as
`./a.gcode`, `PathOf` the entry to which each text leads. The state shows the text, and
the checks compare it, not the file, with their names.

### Sessions, Settings, ClientUpdate

Requests are atomic in `Sessions` and `Settings` where they are one SQL statement, and
take the steps they have where they are more (a login verifies, then stores). Days are
numbers and an expiry is the day after the login, compared as the SQL does: an expiry at
some hour of a day is greater than the date of that day. A value of a setting is told
apart by what the readers of its type make of it.

`ClientUpdate` has one action per thing left on the disk, in the order of the code; the
process may end between any two of them, and in the middle of a file. A release is a
number and a file holds the release it was unpacked from.

## 3. Runs

| Run | Shows | Instance |
|---|---|---|
| `connect` | `NoStrayListener`, `AttachedIsVisible` | three requests, each create, disconnect or reconnect; ports fail to open |
| `print` | `TypeOK`, `EndedPrintNotShown`, `PreambleFirst` | two prints, or a print and a cancel or message, and requests that break off; acknowledgements and resend requests for lines inside and outside the file |
| `setup` | `ConnectingResolves`, `KilledReaderStops` | one connection set up line by line, closed at any moment; firmware that is Marlin or not, errors, capabilities; open, read and write fail |
| `converge` | `NoStrayListener`, `ListenersConverge`, `ConnectingResolves` | a connection, perhaps that at boot, closed while another is opened; open, configuration and settings fail |
| `printout` | `JobTypeOK`, `LineNumberInBounds`, `ImplementsPrintout`, `PrintFinishes`, `RefusedPrintEnds`, `MessageGetsThere` | a print of four lines, three damaged lines of which the third is refused, two lost answers, a cancel, a message |
| `views` | `TypeOK`, `ToldCurrent`, `ImplementsViews` | two clients that connect, send, stall, break and close |
| `alone` | `MainReturns`, `GoneIsRemoved`, `EverybodyLearns` | one client, the same, with liveness |
| `files` | `TypeOK`, `PrintingFileKept`, `StoredIfAlone` | two names and another path to one of them, two uploads of two parts in one or two files, a rename, a print; writes fail |
| `tokens` | `TypeOK`, `RememberedIsSelected` | two logins of two users, five days, restarts |
| `table` | `TypeOK`, `ClientConnectsToDevice`, `SettingsSurvive` | every table, with numbers around the width of a u32 |
| `client_update` | `TypeOK`, `ClientIsWhole`, `ServerStarts` | three releases of one or two files, a redirect, three failures |
| `main_panic` | `ErrorsComeFromOwnThread` is violated | disconnect while the port is being opened, and the open fails |

The properties, in words:

* `NoStrayListener`: of the bridges that are starting or listening, all but the one the
  manager holds have a KillBridge waiting on the channel for them.
* `AttachedIsVisible`: a bridge that the manager holds and that has announced itself is
  not shown as DISCONNECTED or ERRORED, so no client is invited to open a second one.
  The converse does not hold (section 6).
* `EndedPrintNotShown`: when no bridge works on a print any more and no listener is about
  to announce the end, every update that shows that print, stored or queued, is followed
  by one that replaces it. A bridge that is killed or fails in the middle of a print never
  clears its `print_info`, and `InPrint` counts it like one that is alive: the property says
  nothing of a PRINTING that is stored late, after a kill or an ERRORED, and such a one may
  stay (it is the late update of `lost_print`, section 6).
* `PreambleFirst`: in the distributor no line of a print is ahead of the M110 N0 of that
  print. A line that is sent again does not go that way.
* `ConnectingResolves`: CONNECTING is left, by the printer, an error or the timer.
* `KilledReaderStops`: after a kill the reader ends too and the port is closed.
* `ListenersConverge`: again and again at most one listener is left.
* `ImplementsPrintout`: damaged lines, lost answers, a cancel or a message make no line
  execute twice, out of order or not at all, and no early end.
* `PrintFinishes`: a print ends with its last line, unless clients end it (`Disturbed`: a
  cancel, a disconnect, a second print), it is refused for its resends (`Refused`), or an
  answer is lost. A lost answer does stop it for good: the code sends a line for an ok and
  has no timeout.
* `RefusedPrintEnds`: a print that is refused takes the connection with it, unless clients
  end the print at the same time: the reader gets to its end and the port is closed.
* `MessageGetsThere`: a message to the printer is written to the port, also when a print
  ends before it is taken, unless clients end the print (section 6, `TerminalDelivered`) or
  it is refused.
* `LineNumberInBounds`: no ok and no resend request of the print that is going on reaches
  the panic of `set_line_number`.
* `ImplementsViews`: no client is ever told a state that has been replaced.
* `ToldCurrent`: between two events every registered client whose handler is done knows
  the current state.
* `MainReturns`, `EverybodyLearns`, `GoneIsRemoved`: the main loop comes back to its
  events, who is registered learns the current state, and a broken connection is removed,
  all of it unless a client stops reading; that one client can stop them all is what the
  exception says.
* `PrintingFileKept`: while a print is shown that was asked for by the name of its file,
  that name keeps its file and the file does not become shorter. Of a print that was asked
  for by another path it is false (section 6, `TouchesNoPrint`).
* `StoredIfAlone`: when an upload is answered with Created, its last file is stored whole
  if the writes succeeded and no other upload has opened it, also when the file was
  renamed under it.
* `RememberedIsSelected`: a token that was asked to be remembered stays valid. Of one that
  expires there is nothing to check: it serves only once it has expired (section 6,
  `FreshTokenServes`).
* `ClientConnectsToDevice`: no settings make a client's request open a connection without
  a device or with a baud rate that is 0 once cut to 32 bits. `SettingsSurvive`: the
  defaults that are inserted at each start replace nothing.
* `ClientIsWhole`: a server that runs with a `build_info` serves all files of that
  release, after any failures, unless a release was withdrawn. `ServerStarts`: no failure
  leaves a disk that the next start cannot repair.

Each property of a passing run has a mutant, an operator next to the one it replaces
(`OnCreateBridgeAnyway`, `LockedByReader`, `OpenZipRecordsFirst` ...), with which TLC
finds the property violated.

Bounds, all of them constants of the modules or of a `.cfg`:

* `Requests`: two to four. Two connections are needed for a stray, a third to meet the
  kill of the first; two prints for one to hide the other.
* `Routes`: what each request may be. A run gives its requests only the routes its
  question needs, which bounds the number of connections and prints, not their order.
* `MaxQueued`: the printer is not read while that many events are queued. It bounds the
  queues, which nothing else bounds while a printer talks. One is enough for the reader
  and the listener to queue behind each other, since the tasks themselves are not
  subject to it. It is 0, and the printer silent (`Lines` empty), where the question is
  about the connection, and 6 in `printout`, where it is never reached by a printer that
  waits for lines.
* `MaxResponses`: lines between two "ok", up to three: the first response decides between
  Marlin and not, a second one carries a capability; a resend request takes two.
* `GcodeLengths`: the M110 line and the lines of the file. 1 (the first "ok" ends the
  print) and 2 (one line) in `print`, which with line numbers 1 and 3 from the printer
  gives all cases of `get_line_by_index` and `set_line_number`: a line, none, and the
  panic. 5 in `printout`: a line that is asked for again has lines before and after it.
* `ResendScale`: 1000 in the code, where one resend ends any print of less than 1000
  lines (section 6), so that in a file of a few lines nothing could come after a resend. It
  is scaled with the file: 2 in `printout`, where two resends are served and the third is
  refused, 1 in `print`, where one is served before. `PrintFinishes` and
  `MessageGetsThere` except the refusal, and `MCPrintJob_resends`, a configuration kept
  beside the runs, checks `RefusedPrintEnds` and `MessageGetsThere` with 1000.
* `Faults`: which of open, configure, read, write, settings and the body of a request may
  go wrong.
* `Corruptions` and `Losses`: three damaged lines, so that a resent line may be damaged
  again, and two lost answers.
* `Clients`, `MaxEvents`, `MaxInbox`: two clients are enough for one to connect while the
  other is being told; one queued event, and another in the main loop's hands; two
  messages, so that a ping and a close can follow each other, where liveness is checked.
  Stalls are in both runs (`MayStall`).
* `Names`, `Aliases`, `Uploads`, `Renames`, `Prints`, `Parts`, `Inodes`: two names and one
  other path, two uploads of two parts, one rename, one print. Two uploads of one name
  overwrite each other's first part and can leave a hole; a rename swaps nothing with less
  than two names; with two parts an upload begins a second file. `Inodes` is three: a file is
  new only if its name has none, and the rename frees one of the two names.
* `Logins`, `LastDay`: an expiry is passed after two days, a restart before and after it.
* `Width`: 4 stands for 2^32, `Numbers` has 0 to 2, 4 and 5: zero, small, and the two
  that are cut to 0 and 1.
* `Releases`, `Contains`, `MaxFaults`, `MaxRedirects`: a release after the one that failed
  half-way and one more; a file that an older release does not have; three failures, for
  one in the repair of another; one redirect, which goes through the same steps again.

The proofs assume none of these bounds. `CHECK_DEADLOCK` is off where clients may come no
more or the printer may be silent, or where a panic of the main loop ends the process;
`table` and `client_update` never stop.

## 4. Fairness

`Server`: weak fairness of the main loop, of each task of each bridge, and of the rest of
a request that has been accepted. The tasks are tokio tasks on a multi-threaded runtime
whose loops yield or sleep; the port answers within its 10 ms read timeout; `open()`
returns. Two of these are assumptions about the environment: a websocket client that does
not read would hold up the main loop at its broadcast (which is what `WebSockets` is
about), and a database that does not answer would hold up a handler. No fairness is
assumed of clients, of the printer, or of I/O errors.

One assumption about time: the timer of a connection runs out ten seconds after the port
opened, and the main loop polls every 300 ms at the latest, so by then it has handled the
CONNECTING update sent before the port was opened (guard of `TimeoutElapses`). Without it
the timer could find the state before CONNECTING and never report.

`PrintJob` adds a printer that reads what it is sent and answers it, without which no
print goes on. Damage and loss are never fair: they happen or not.

`WebSockets`: strong fairness of the main loop, the checker and each handler. tokio's
mutexes are first come, first served, so a task that waits for a lock gets it although
others take it again and again; weak fairness would let the checker take `sockets` at
every turn. Clients owe the server nothing: they need not read, answer or leave.

`ClientUpdate`: weak fairness of the process's own steps and of `Start`, which is the
service manager that starts a server that has ended. Failures are bounded.

`Files`, `Sessions` and `Settings` have safety properties only.

## 5. Proofs

Checked by TLAPS for every value of the constants, under the named assumptions on them,
which only say what kind of values they are.

* `TypeProofs!TypeCorrect`: `Spec => []TypeOK` of `Server`. `TypeOK` is inductive. Besides
  types it says what each task relies on between two of its steps: a reader at work has a
  line, a task that sends while it holds the lock has a print, an action being carried
  out is no error. Without the lock the second one would fail, and
  `print_info[b].print` would be read from None.
* `SafetyProofs!EndedPrint`: `Spec => []EndedPrintNotShown`. The argument: only the main
  loop takes updates, and it stores them in order, so what follows an update in the queue
  follows it still when it is stored; every other task appends, and appends PRINTING for
  a print only while that print goes on (`TypeProofs`: `BridgeAdds`, which is where the
  lock is used); and a print is only cleared by a listener that then sends CONNECTED, or
  replaced by a PrintStart that is announced in the same step. That the listener does
  send it needs a strengthening, `CreatedOnce`: a request starts one bridge at most, so
  no new listener takes the place of one that still has an end to tell.
* `SafetyProofs!AttachedVisible`: `Spec => []AttachedIsVisible`. Inductive together with
  `TypeOK`: a bridge announces itself before it does anything else, the main loop stores
  what it takes, and an offline state is stored in the step that decides to let go.
* `SafetyProofs!StraysAreKilled`: `Spec => []NoStrayListener`. The invariant adds that the
  bridges alive can be counted, and rests on `CreatedOnce` too: a bridge that has ended
  is not started again, so the set grows only by the bridge the main loop starts, and it
  starts one only when it holds none. It sends a kill in the step in which it lets go,
  and a kill is taken in the step that ends a listener.
* `SafetyProofs!PreamblesLead`: `Spec => []PreambleFirst`. The inductive invariant is
  `PrintInv`. The beginning of a print is in one place at a time: with the handler, in a
  PrintStart on one of the two channels, or with the listener that has taken it
  (`PrintOnce`); as long as it is, no bridge prints it, so nothing of it has been sent
  (`LinesFollow`); and the lock of `print_info` is held by one task (`OneHolder`), so that
  the reader sends no line between the PRINTING and the M110 N0 of the listener. One
  lemma for each task says that it keeps all that (`KeepsPrints`).
* `PrintJobProofs!JobTypeCorrect`: `JobSpec => []JobTypeOK`, for any number of prints.
* `PrintJobProofs!NumbersStayInBounds`, `PrintsOut` and `FinishedMeansPrinted`:
  `LineNumberInBounds`, the refinement `ImplementsPrintout`, and `FinishedIsPrinted`, for
  one print (`OnePrint`: of all requests one at most is a print) of one file (`OneFile`:
  all files that can be printed have the same length), with any length of the file, any
  number of damaged and lost lines, cancels, messages and disconnects, of a connection
  that is not opened again. The hypotheses are needed: `MCPrintJob_late_ok` and
  `MCPrintJob_out_of_bounds` (section 6) show that all three fail when a second print
  begins before the oks of the first have been read; `printout` is an instance that satisfies them. The inductive invariant,
  `JobInv`, follows a print all the way and back. On the way to the printer: everything
  under way is a part of the one print and a line of its file (`OfTheFile`), and the
  M110 N0 leads in each queue (`ResetLeads`, on top of `PrintInv`); here the resent line,
  which overtakes the distributor, has to be excluded before the M110 N0 has arrived,
  which is why the invariant also says that until then the printer has named no number
  (`NoneBefore`). At the printer: what was executed are the first lines, up to its
  counter (`InOrder`). On the way back: no number in an ok is greater than the counter,
  none in a resend request greater than the counter and one, in the line, in the reader's
  collected responses or in the action it carries out (`Unheard`). So the reader finds no
  line to send only when the counter is that of the last line.
* `WebSocketsProofs`: `WebSocketsTypeCorrect`, `ClientsToldCurrent` and `Implementation`
  (`Spec => ImplementsViews`, the refinement). `ToldCurrent` is not inductive: during a
  broadcast some clients have not been told yet. `Inv` says which ones those may be in
  each phase of the main loop (`Concerned`), that the message of a broadcast is the
  current state, and that a copy of the state which a handler made is still current,
  because the handler has not released its guard.
* `FilesProofs`: `FilesTypeCorrect`, `PrintedFileKept`, `AloneStored`, for any number of
  names, aliases and requests. The invariant: whoever has locked the state works on another
  name than the text that is shown, since nothing is shown while it has the lock; this says
  something of the file only if the text is a name, which is why `PrintedFileKept` is of
  prints that were asked for by one. An inode that has an entry was opened by some upload,
  so that a new file is no other name's; and an upload that is alone on its present file
  has written the parts that came for it in order.
* `SessionsProofs`: `SessionsTypeCorrect`, `RememberedForEver`. The row of a remembered
  login has no expiry and no step takes it away.
* `ClientUpdateProofs`: `ClientUpdateTypeCorrect`, `RunningClientIsWhole`. Until a release
  is withdrawn, what is unpacked is newer than `build_info`, and `build_info` is never
  newer than the latest release. So a client that was left half unpacked is under an id
  that the next comparison does not accept.
* `SettingsProofs`: `SettingsTypeCorrect`, `ConnectsToDevice`, `RestartKeepsSettings`, for
  every set of texts and every width of the integers. `TypeOK` is inductive because every
  row is there while the process runs; the check of the request is made after the number
  was cut.

`TypeProofs` also holds the lemmas about Server that all the others cite: what the
constructors build, what the queues keep, and which events each task can add.

What is only model-checked: the liveness properties (`ConnectingResolves`,
`KilledReaderStops`, `ListenersConverge`, `PrintFinishes`, `RefusedPrintEnds`,
`MessageGetsThere`, `MainReturns`, `GoneIsRemoved`, `EverybodyLearns`, `ServerStarts`),
which need fairness and ENABLED and are out of the prover's reach. Every invariant, every
action property and both refinements of the passing runs are proved.

## 6. Where the code differs from what it says

`main_panic` is a run. The configurations in the first column of the other rows are kept
beside the runs: TLC ends each of them with a counterexample to the property, which states
what the code or its comments promise.

| Configuration | Property | What happens |
|---|---|---|
| `MCServer_main_panic` | `ErrorsComeFromOwnThread` | a client disconnects while the port is being opened, the open fails: the main loop meets the error that it takes to be impossible (`main.rs` 184) and the server ends |
| `MCServer_stale_kill` | `OwnBridgeNotKilled` | a failed attempt leaves two KillBridge events on the channel that nobody takes; they kill the next connection |
| `MCServer_stale_timer` | `TimeoutIsOwn` | the timer knows nothing of its connection: that of an attempt which was given up ends the next one early (`bridge.rs` 281) |
| `MCServer_lost_print` | `PrintHasBridge` | a late update of a bridge that was let go of shows CONNECTED with nothing attached; a print is accepted and dropped |
| `MCServer_terminal` | `TerminalDelivered` | the end of the file and a cancel each queue a PrintEnd; the second ends the listener (`bridge.rs` 573); the server stays CONNECTED and nobody takes messages any more |
| `MCPrintJob_ten_percent` | `RefusedAboveTenPercent` | `get_resend_ratio` is a percentage and is compared with 0.1 (`models.rs` 338, `bridge.rs` 237), the message says 10 %: one resend in eleven lines ends the print |
| `MCPrintJob_late_ok` | `FinishedIsPrinted` | the ok of a cancelled print's line is taken for the next print, which is finished before its first line |
| `MCPrintJob_out_of_bounds` | `LineNumberInBounds` | such an ok of a longer print makes `set_line_number` panic (`models.rs` 359) in the next one |
| `MCWebSockets_ready` | `ReadyIsFirst` | the socket is registered before "ready" is sent: a broadcast may come first |
| `MCWebSockets_pong` | `PongCanBeSent` | a client that goes between its ping and the pong ends the loop that reads from all clients (`websocket_handler.rs` 178) |
| `MCFiles_alias` | `TouchesNoPrint` | a print is asked for as `./a.gcode`; the state shows that text (`start_print.rs` 78), which is not the name `a.gcode` that an upload or rename compares with it (`upload_file.rs` 118, `rename_file.rs` 63): it passes the check and the file is emptied or moved |
| `MCFiles_upload` | `NoUploadWhilePrinting` | an upload that began before PRINTING was stored goes on writing to the file |
| `MCFiles_rename` | `PrintedFileInPlace` | a rename between the reading of the file and PRINTING moves it |
| `MCFiles_created` | `CreatedIsStored` | an error of `write()` is only printed; the answer is still 201 Created |
| `MCSessions_fresh` | `FreshTokenServes` | the query asks for `expire < DATE('now')`: a token serves only after it expired, until the next restart deletes it |

And, without a state machine being needed to see it:

* Permissions are read into a u8: terminal.send, webcam and update (bits 8 to 10) make the
  row of a user unreadable (`models.rs` 190).
* `reconnect_connection` asks for connection.edit, its header says print_state.edit.
  `disconnect_connection` accepts CONNECTING, its header says Connected or Printing.
* The answer to OPTIONS on `/api/print` does not allow DELETE (`api_manager.rs` 454).
* `update_settings` stores any text and the readers of numbers unwrap its parse
  (`models.rs` 89-97); the attempt at boot takes an empty device path for one
  (`main.rs` 331).
* After a half unpacked update, a withdrawal of that release brings the former id back,
  which `build_info` still names: the mixture counts as up to date
  (`client_update_check.rs` 17). `ClientIsWhole` excepts it.

## 7. Not modelled

* Bytes, G-code and the wording of messages. Whether a line moves the progress by more
  than 0.1 is a choice (`SendProgress`), since it depends on the bytes.
* `parser.rs` 42-95, checksums and temperatures: pure functions of a text. That a checksum
  tells a damaged line apart is part of `PrintJob`'s printer.
* The resend threshold is computed in f32 in the code and exactly here.
* A line carries one capability at most. A line with several would push two commands.
* Requests that are refused in `Server`: they change nothing. Whether they are refused is
  in `Sessions`.
* `list_files`, ping, DSN and static files: they read and answer.
* What a websocket message says beyond the state, and the JSON around it.
* Password hashing and random tokens: data.
* In `WebSockets` the state is changed by reports that come from anywhere; that they are
  those of `Server` is not composed. The state of `Server` is any sequence of updates to
  it, so nothing that `WebSockets` shows depends on which.
* An abstract specification of the connection that clients see. It was considered and
  left out: late updates of bridges that were let go of allow every change of state, so
  it would say nothing.
* Server with more than one fault model at a time beyond the runs above: the state space.

## 8. Plan

1. `PrintJob` for several prints: what remains true when an ok of one print is taken for
   another (lines of a print in increasing order; an end only after the M110 N0).
2. A length for each file in `PrintJob`, which would make `OneFile` unnecessary.
3. Safety parts of the liveness properties: a KillBridge is never lost while a listener is
   left, and a message on the bridge channel is taken by a listener or stays.
4. `PrintJob` with a connection that is closed and opened again, which takes the printer's
   start-up lines.
5. `parser.rs` 42-95 as operators, with what a checksum tells apart.
