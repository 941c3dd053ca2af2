# A TLA+ model of bumpemu

bumpemu lets the CCS mobile app drive a CellPro PowerLab charger.  It runs on a
small Linux board, looks to the app like a Revolectrix bump controller on
Bluetooth low energy (BLE), and talks to the charger over a serial line.  The app
sends short commands and is sent the state of the charger every status interval.

The modules here model that program: what it does with commands, failures, lost
answers, reconnects and its own threads.  The code is in `src/bumpemu`; every
definition is translated from it, and file names with line numbers below are of that
tree.

Contents: [inventory](#1-inventory-of-the-system), [modules](#2-modules-and-the-code),
[runs](#3-what-is-checked), [fairness](#4-fairness), [proofs](#5-what-is-proved),
[what was learned](#6-what-was-learned-about-the-code),
[left out](#7-what-is-not-modelled), [plan](#8-plan), [how to run](#9-running-it).

## 1. Inventory of the system

How a command travels: bluez calls `WriteValue` on the main loop, which puts the
bytes into a queue; the *message thread* assembles messages from them and calls a
handler of `RxChrc` in `controller/emulator.py`; the handler talks to the charger
through `Powerlab`, whose *reader thread* fills a buffer with what the serial line
delivers, and usually ends in a *status loop* of its own.  Apart from that a timer of
the *main loop* calls `status_loop` periodically for as long as the app is
connected.  There are three threads and two locks.

| component | state | operations | talks to |
|---|---|---|---|
| **State machine** `controller/state_machine/*` | one object of ten state classes | `on_event`; `Event.get_from_charge_status` turns a status record into an event; the constructors of some states talk to the charger or change a message | called by the emulator |
| **Emulator** `controller/emulator.py`, `RxChrc` | `_state`, `_charger_options`, `_presets`, `_active_preset`, `_forced_error_code`, `_disallow_operations`, `_no_status_count`, `_battery_group`, `_selected_operation` | `status_loop` with `_charger_connected`, `_check_preset_chemistries`, `check_preset`, `_update_presets`; handlers `connect_request`, `manual_operation`, `operation_start`, `monitor`, `operation_stop`, `dismiss`, `clear_error`, `selected_operation`, `set_battery_group_count` | charger, state machine, the app |
| **Session and threads** the same class | `_notifying`, `_running`, `_running_cond`, `_lock`, the timers | `StartNotify`, `StopNotify`, `WriteValue`, `connect_request`, `status_loop` | main loop, message thread |
| **Message framing** `controller/message_handler.py` | queue, circular buffer | `handle_message`, `_handle_messages`, `_advance_to_next_preamble` | handlers of the emulator |
| **Serial link** `charger/powerlab.py` | the port, `SerialBuffer` with its condition variable, reader thread | `connect`, `close`, `read_*`, `write_presets`, `command_*`, `retry` | the charger |
| **Circular byte array** `circular_bytearray.py` | an array and two indices that only grow | `append`, `consume`, `advance`, `clear`, slices | serial link, framing |
| Charger records `charger/preset.py`, `status.py`, `options.py` | raw bytes | bit fields, scalings, `is_...` tests | emulator |
| **Status messages** `controller/messages/charger_status.py`, `charger_idle.py` | none | which message a status record and a state become, and whether the values fit its fields | emulator |
| Checksums and bit fields `util.py` | none | `crc`, `rotate_bit16_left`, ... | serial link, framing, records |
| Other message payloads `controller/serialize.py`, `messages/*` | none | formatting of settings and battery for the app | emulator |
| Bluetooth objects `controller/bluez_dbus.py`, command line `main.py`, tools | D-Bus objects, configuration | registration, parsing | bluez |

### Behaviours that are hard

- *Nested status loops.*  Every error is shown by running a status loop, also from
  inside the status loop that found it; the inner one may connect again, read the
  presets again or lose the charger before the outer one goes on.
- *Partial failure.*  A command has several exchanges, each may fail after its
  retries, and a failed one may still have been carried out (the answer was lost).
  Presets are erased before they are written.
- *Things remembered across a link.*  The gate (`_disallow_operations`), the active
  preset and a forced error outlive the connection they were established over.
- *Three reads of `_notifying`* in one status loop, while the message thread clears
  and restores it and the main loop sets and clears it.
- *Late answers* on a line without flow control: found by the next command.
- *Lost pieces* of messages: BLE writes without a response are not repeated.
- *No history from the charger*: only a status record per interval.
- *Records that fit no message*: building the status message may raise an exception
  after the state has moved; it is logged, and the app is sent nothing.

### What makes each component correct

| component | correct if |
|---|---|
| state machine | the state follows the charger; an outcome stays until it is acknowledged; the end of an operation and a safety halt are not missed |
| status messages | what the app was last sent agrees with the state again as soon as the charger's records can be shown |
| emulator | the charger only runs with permission, the permission implies what was checked; it runs the preset of the selected operation, with the right values and chemistry; a count is taken over only when it is stored; the handlers have the data they take for granted; the charger is found again |
| session | one status loop per session and none after it; connect requests are served; the assertions hold |
| framing | each message handled once, in order; an undisturbed app never stops the thread |
| serial link | a call that returns has been carried out; a load is current; every call ends; the reader thread never stops |
| circular byte array | a bounded queue |
| records | a setter stores the nearest value and disturbs no other field; values taken over once are not taken over again; what is written is what is read, unless it is damaged, which is noticed |

## 2. Modules and the code

| module | models | main correspondences |
|---|---|---|
| `ChargerState` | `state.py`, `event.py` | `Accepts` and `Target` are the lines of all `on_event` methods, `EventOf` is `Event.get_from_charge_status` |
| `StatusReport` (extends `ChargerState`) | the getters of `status.py` and the messages `ChargerStatus` and `ChargerIdle` | `StatusMessage` is the message `status_loop` builds, `Serializes` whether every value fits its field (`TemperatureFits`, `ChargeSeconds`, `ResistanceFits`, ...) |
| `StateTracking` (extends `StatusReport`) | how the state, and what the app was last sent, follow the charger | `StatusLoop`, `StatusLoopFails`, `Stop`, `Dismiss`, `Refuse`, `ClearError` are whole status loops or commands with the loop they end in; `ChargerMoves` is the charger |
| `Emulator` (extends `ChargerState`) | `RxChrc`: handlers and status loop | variables carry the names of the fields (`mem` is `_presets`, `disallow` is `_disallow_operations`, ...); see below |
| `OperationGate` | abstract specification of the emulator | phase, permission and whether the charger was told to run |
| `Session` | the threads of `RxChrc` | `Begin`, `Check`, `Wake`, `WaitTimesOut`, `Restore`, `Reset`, `AddTimer` are `connect_request` cut where another thread can come in; `TakeLock`, `Body`, `Mark`, `Return` are `status_loop` |
| `SerialLink` | `Powerlab`, `SerialBuffer`, `retry` | `Call` ... `Returns` one call, with an exchange as `ResetBuffers`, `ClearBuffer`, `Send`, `Receive`/`ReadTimesOut`; `ReaderReads`, `ReaderAppends` the reader thread; `Execute` the charger |
| `Framing` | `MessageHandler` | `TakePiece` is `_run`, `HandleMessage`, `RejectMessage`, `AwaitRest` one round of `_handle_messages`; `BeginMessage`, `WriteValue`, `LosePiece` the app and the radio |
| `CircularByteArray` | `circular_bytearray.py` | `AppendData`, `Consume`, `Advance`, `Clear`, `Slice` |
| `BoundedFifo` | abstract specification of the array | what `SerialLink` and `Framing` use in its place |
| `Presets` | `preset.py`, the bit fields of `util.py`, `_modify_preset` | `Layout` is the table of all properties of `Preset`, `Decode` the getters, `Encode` the setters, `Modified` is `_modify_preset` |
| `PresetStore` (extends `Presets`) | presets between memory and charger | `Set` and `Modify` change objects, `WritePresets` and `ReadPresets` are the image of `write_presets` and `read_presets` with `checksum` and `_verify_preset_checksums` (`Checksum` is its loop, over halves so that TLC does not run as deep as there are words) |
| `MC...` | constants for the runs | |
| `...Proofs` | theorems about the module of that name; `PresetStoreProofs` builds on `PresetProofs` | |

**The status loop as a program.**  In `Emulator` the lock is held over several
exchanges, so a status loop is a sequence of actions and `pc` says which is next:
`connect` (`Connects`, `ConnectFails`), `presets` (`ReadsPresets`,
`ReadPresetsFails`), `chem` (`CheckChemistry`, `ChargerConnected`, `SettingsFail`),
`status` (`StatusRead`, `StatusFails`).  `frames` is the stack of suspended
`_check_preset_chemistries` loops: for each the operations it has still to look at.
`cont` says what follows the outermost loop: nothing (`handler`, `tick`), sending the
settings (`settings`), or adding the timer (`timer`).  The world outside
(unplugging, the charger's panel, a job that ends) acts between any two steps.
A command to the charger has one of the `Answers`: `ok`; `refused`, it was not
carried out; `lost`, it was, and nothing came back.  `SerialLink` is where those
come from.

**How the modules divide the work.**  `Session` knows nothing of presets and
`Emulator` nothing of `_notifying`: in `Emulator` a new session (`ConnectRequest`)
begins whenever the lock is free, in `Session` a status loop either keeps or loses
the link.  `StateTracking` leaves connecting, presets and sessions to `Emulator` and
adds a charger that moves on its own and the message the app is sent.  `SerialLink` and `Framing` use a sequence for the circular array,
which `ImplementsFifo` justifies.  `Emulator` knows of a preset its battery count,
whether its chemistry is the battery's (`odd` if not) and whether its other values are (`tuned`); that
values once assigned stay assigned (`Exact` = TRUE) and that erased presets are
noticed is what `PresetStore` shows (`ModifySettles`,
`OnlyWrittenIsRead`).

**Variants.**  Definitions such as `NeedsUpdateInFlash` before `NeedsUpdate`, or
`SetRunningAlways` before `SetRunning`, are not used by the specifications.  Each is
what a plausible mistake would make of the definition after it, and each makes TLC
report a violation of one of the properties when it is put in its place: they show
that the properties depend on the code.

## 3. What is checked

Sizes are distinct states; all runs finish within a few minutes.

| run | question | shows |
|---|---|---|
| `StateTracking` (13 thousand) | does what the app was sent follow the charger, though only single readings are seen, some fit no message, reads fail, commands are refused and an ENTER or its answer may get lost? | `OperationIsShown`, `RefusalPasses`, `EndIsShown`, `HaltIsHandled`, `DisplayCatchesUp` |
| `EmulatorSafety` (2.8 million) | what holds whatever fails, and what besides as long as a session is `calm`? | `TypeOK`, `ConnectedHasData`, `ActiveFollowsSelection`, `GateHasPreset`, `CountIsStored`, `OutcomeIsKept`, `ThreadsEndByLoss`, and the refinement `ImplementsGate`; in a calm session `GateMeansTuned`, `ThreadsSurvive`, `RunsSelectedPreset` |
| `EmulatorLiveness` (213 thousand) | is the charger found again, and does the gate open and stay so? | `LinkComesUp`, `GateOpens` |
| `EmulatorStored` | does the charger hold the values that are checked before an operation? | no: `RunsStoredPreset` is violated (finding 1) |
| `EmulatorChemistry` | is a preset for another chemistry kept from running? | no: `RunsRightChemistry` is violated (finding 2) |
| `EmulatorCount` | is a count that is taken over the active preset's? | no: `CountMatchesActive` is violated (finding 4) |
| `Session` (24 thousand) | is there one status loop per session, and is every request served, though the charger is lost at any time? | `MessageThreadLives` and `ConnectIsServed` for an app that may vanish and come back at once, but unsubscribes only when its commands are done; `OneStatusLoop`, `RunningMeansLoop`, `SessionEnds` and more of `ConnectIsServed` for one that ends its sessions |
| `SessionEarlyStop` | and if the app unsubscribes while a request is on its way? | no: `AssertionsHold` is violated (finding 3) |
| `SerialLink` (744 thousand) | with commands and answers lost or late, what does a call that returns mean? | `StoredStays`, `SelectedStays`, `LoadsCurrent`, `ReaderNeverWaits`, `EveryCallEnds` |
| `Framing` (451 thousand) | with pieces lost and messages cut anywhere, what is handled? | `HandledInOrder`, `NothingMissed`, `StuckOnlyByLoss`, `MessagesAreHandled` |
| `CircularByteArray` (22 thousand) | is it a bounded queue? | `SizeBounded`, `ImplementsFifo` |
| `PresetStore` (18 thousand) | do presets survive being changed, written, read and damaged? | `TypeOK` (no setter carries into the next field's word), `StoresNearest`, `FieldsApart`, `ModifySettles`, `OnlyWrittenIsRead`, `RewriteIsStable` |

The four violations are disagreements between the code and a comment or assertion of
its own; section 6 tells them.

**Calm sessions.**  Some properties are not true of the code once something has gone
wrong in a session, see section 6.  `calm` is a history variable of `Emulator` (no
action depends on it): TRUE when a session begins, FALSE from the first connection
attempt or reading of presets or status that fails, lost answer to a selection,
unplugging, selection on the panel, request for a count no preset can hold, or
operation that is not configured.  Refused commands, failed
writes, chemistry errors and whatever else the runs have leave a session calm.  The
properties have it as their premise, so that they say themselves what they need.
`patient` in `Session` is of the same kind.

### Bounds, and why they are enough

- *Emulator.*  Two slots and three operations (one of them `analyze`, which is
  refused; two mapped to the same slot) make the active preset, the selected
  operation and what the charger has selected differ in every way.  A count is 1 or 2
  of at most 2; requests also ask for 0, which no preset can hold.  `Readings` has a
  ready charger, a charging one, a finished one and an error: one per class of
  transitions; the whole table is gone through in `StateTracking`.
  `NoStatusLimit` is 5 in the code; with 1 every failure is the last, with 2 (the
  other runs) one in between can reset the count.  `MaxNesting` = 1 allows a status
  loop inside a preset check inside a status loop; deeper ones repeat that.  The
  code has no limit: each level of a persistent chemistry error adds one until the
  connection fails.  `MayUnplug` is FALSE in `EmulatorSafety` because `ReadFaults`
  and `CommandFaults` already let every exchange fail; `EmulatorLiveness` has it TRUE
  and the random failures off, since it asks what happens after they are over.
  `EmulatorLiveness` also has a user at the panel,
  `EmulatorSafety` has none: a selection there only ends what is calm.  `OddSlots`
  has one slot whose preset may be for another chemistry; the rest have the
  battery's.  `Exact` is TRUE, the battery's values are such that a preset can hold
  them; if not, the gate stays shut for ever (section 6).  There is a
  battery in all runs; without one the emulator refuses every operation.  The proofs
  cover that case too.
- *Session.*  Two commands in the queue and two timers: enough for a connect request
  behind another command and for one loop too many, which is what is asked about.
  `MayLose` is TRUE in `Session`: any status loop may lose the charger or find it again,
  and so meet the assertion of emulator.py:414.  In `SessionEarlyStop` it is FALSE: that
  run is about an assertion that fails without it.
- *SerialLink.*  `Retries` = 1 and `Attempts` = 2 (2 and 3 in the code): a call is made,
  repeated and given up; every further repetition is like the second.  A cell is
  several bytes, so that an answer has one to three, and can be cut in two or three.
  The buffer has room for three of the longest answers (in the code: 49152 bytes for
  answers of at most 7686, six of them), so that `ReaderNeverWaits` is a harder
  question than in the code; `ReaderHasRoom` proves that two are enough.  *Assumption:* an answer is late by at most one
  exchange.  The timeouts of the code (half a second and more) are long against a
  charger that answers at once; a driver that holds bytes back for longer than two
  timeouts is not covered.
- *Framing.*  Messages of 3 or 5 cells in pieces of up to 3, three messages, two
  pieces in the queue, a buffer of 8 cells: a whole message and most of the next.
  A cell is a byte, or two for a length or CRC; where those two could be torn apart
  the code waits for the same total.  One cell of the payload looks like a preamble
  and, misread as a length, gives either a size that just fits or one that does not.
- *CircularByteArray.*  Capacity 4, chunks and reads up to 3, nine bytes ever
  appended: the contents wrap at every position, twice.
- *StateTracking.*  The records have every mode the state machine or the message tells
  apart, with the completion flag where it is looked at; for an idle, a charging and a
  finished charger also the last values that fit every field, and for each field the
  first one that does not.  What else a record holds is copied into a field of its own
  width.  The readings are a constant: `StateTrackingProofs` has any set of them.
- *PresetStore.*  Five presets to a block as in the code, and two blocks (15 in the
  code) for the offset of the second; one preset, in the second block, is changed
  twice: a field and a neighbour, in either order.  The values lie on both sides of
  every boundary of a setter.  One word of an image goes bad, in its lowest or its
  highest bit, in a preset, a preset's checksum or a block's; or all are erased.

Deadlock is checked everywhere but in `Framing`, where the app runs out of messages
(`MaxMessages`) and a thread that spins or has ended does stop.

## 4. Fairness

- *StateTracking*: weak fairness of `StatusLoop`.  The main loop's timer calls it
  every status interval and an intact link answers; reads that fail
  (`StatusLoopFails`) may come in between as often as they like.
- *Emulator*: weak fairness of the steps taken with the lock held (they are a
  thread's program and every exchange has a timeout), strong fairness of `Tick`: the
  timer needs the lock, which a handler may hold whenever it asks; the message
  thread releases it after each command and waits for the next one.  Nothing is
  assumed about commands, the user or the charger.
- *Session*: weak fairness of the steps of the message thread that need no lock,
  strong fairness of each thread's `StatusLoop` (it needs `_lock`) and of
  `TimerFires` (which competes with the calls of bluez on the main loop).
  `WaitTimesOut` and the app have none.
- *SerialLink*: weak fairness of the steps of a call, of the reader thread and of the
  charger.  All waits are bounded by timeouts.
- *Framing*: weak fairness of the message thread.  The app has none.

Premises of liveness properties are part of them.

- `LinkComesUp` and `GateOpens` ask for a charger that stays plugged in and connection
  attempts that start from a closed port (`ConnectsAfterClose`); without the latter a
  forgotten reader thread can take the answers away for ever (section 6).
- `GateOpens` is about an idle charger from a moment at which either no preset was chosen
  yet in the session, or the gate is open with presets that are up to date.  From then
  on it is found open, with the selected preset, again and again, whatever the panel
  selects.  From other moments it need not be: section 6 has two ways to leave the
  gate shut for ever.  Commands do not fail in its run (`CommandFaults` is empty).
- `EndIsShown` asks for records that can be shown; of a completion also that no error
  from before it waits to be dismissed: the state Error leaves only by the user.
- `OneStatusLoop`, `RunningMeansLoop`, `SessionEnds` and the second part of
  `ConnectIsServed` are about an app that is `patient`: it has ended every session with
  StopNotify and begun the next after the loop was gone.  Its request becomes a status
  loop, unless a timer has died of the assertion of emulator.py:414 before.
- The first part of `ConnectIsServed` is about any app that unsubscribes only when its
  commands are done.  Its request may have to wait for the loop of a session it has left
  without a word, and is woken when that ends; it need not time out.  `WaitsInVain`
  names the only states in which nobody will wake it.

## 5. What is proved

TLAPS proves these for every value of the constants: any number of slots,
operations and readings, any kinds of failure, any bounds, with or without a battery.
Between them they cover every safety property the passing runs check.  `WellBehaved`,
the premise about sessions, is that the app unsubscribes only when its commands are done.

| module | theorem | says |
|---|---|---|
| `EmulatorProofs` | `TypeCorrect` | `TypeOK`, with the bounds of the failure count and of the battery count |
| | `ConnectedAlwaysHasData` | a state other than Disconnected comes with options and presets |
| | `ActiveAlwaysFollowsSelection` | the active preset is the selected operation's |
| | `GateAlwaysHasPreset` | with the gate open there are a battery and an active preset: the assertions of `operation_start` and `monitor` |
| | `EmulatorImplementsGate` | every behaviour of `Emulator` is one of `OperationGate` |
| | `CountAlwaysStored` | the battery count changes only together with presets of that count stored in the charger |
| | `OutcomeAlwaysKept` | an outcome leaves the display only by a command or with the charger or session |
| | `ThreadsAlwaysEndByLoss` | in any session, what a thread can end by |
| | `ThreadsAlwaysSurvive`, `GateAlwaysMeansTuned`, `AlwaysRunsSelectedPreset` | the three properties of calm sessions |
| `StateTrackingProofs` | `TypeCorrect` | every record gives an event, every event a state, every loop a message |
| `SessionProofs` | `MessageThreadAlwaysLives` | if `WellBehaved`: no assertion ends the message thread, with the charger lost and found at any time |
| | `AssertionsAlwaysHold` | if `WellBehaved` and the charger is never lost: none fails on a timer either |
| | `AlwaysOneStatusLoop`, `RunningAlwaysMeansLoop` | if `WellBehaved`: a patient app's one status loop, and what `_running` says of it, with the charger lost at any time |
| `SerialLinkProofs` | `TypeCorrect` | exchanges, answers and results are of the kinds the code expects |
| | `ReaderHasRoom` | with room for two answers the reader thread never waits |
| | `AlwaysStoredStays`, `AlwaysSelectedStays`, `AlwaysLoadsCurrent` | what a store, a selection or a load that returns has achieved |
| `FramingProofs` | `AlwaysHandledInOrder` | messages are handled in order and none twice, whatever is lost |
| | `AlwaysNothingMissed`, `AlwaysStuckOnlyByLoss` | with nothing lost none is missed, and the thread goes on |
| `CircularByteArrayProofs` | `SizeAlwaysBounded` | the array holds between nothing and its capacity |
| | `AlwaysImplementsFifo` | the array is a bounded queue |
| `PresetProofs` | `FieldSet` | setting any field of any preset gives it its code and leaves every other field as it was |
| | `SetterStores` | for any value a setter stores the nearest one there is, and what it stores it stores again as it is |
| | `ModifiedSettles` | `_modify_preset`, with any values for any preset of values the setters can store: the second time nothing changes, and an update is needed exactly if a value cannot be held |
| `PresetStoreProofs` | `ChecksumTells` | `checksum` of two sequences that differ in one word differs, whatever their length |
| | `WrittenContents` | what is read of an image is what it was made of |
| | `TypeCorrect`, `SettersStoreNearest`, `ModificationSettles`, `ReadsWhatWasWritten` | the four invariants of `PresetStore`, for any number of presets and blocks and any values |
| | `FieldsStayApart`, `RewritingIsStable` | its two action properties |

**The emulator's invariant.**  None of the first four is inductive.  A handler that
finds the state Disconnected begins with connecting, and which data exist depends on
how far the status loop, and the suspended ones under it, have come.  `ControlOK` says
that:

- a preset check is suspended only while a status loop runs, and not while the
  lock is free or after the loop;
- while one is suspended, presets have been read, although the state is still
  Disconnected;
- the options are there when the presets are about to be read (not later: a nested
  loop may have lost the charger, which is why `SettingsFail` exists);
- the status is only read when connected;
- an active preset implies presets in memory (`read_presets` gives new objects, and
  the values of the active one are taken from the old ones).

`IInv == TypeOK /\ ControlOK /\ ConnectedHasData /\ ActiveFollowsSelection /\
GateHasPreset` is inductive.  `EmulatorProofs` has lemmas about the table of the
state machine (no event but DISCONNECTED leads to Disconnected, which is what keeps
`ConnectedHasData` through a status record), about presets, and about leaving a loop
or crashing; then one lemma per group of actions; `StepInvariant` combines them.

**The refinement.**  Its lemmas split `Next` into the steps
`OperationGate` cannot see (`QuietStep`) and the few it can: a status record, ENTER
with an event, clearing an error, starting, connecting, losing the link, a new
session.  Each lemma shows which action of `OperationGate` such a step is; that a
record never ends a shown outcome and that only an idle emulator opens the gate come
from the lemmas about the table.

**Calm sessions.**  `CalmInv` adds to `IInv` what holds while a session is calm.
`CalmControl`: only the first status loop of a session finds the state Disconnected or
has no options, and both threads live.  `CalmGate`: the active preset is one of the
presets in memory, since none were read after it was chosen; with the gate open it is
the charger's selection too, and the presets of all operations are adjusted and have
the count shown.

**What ends a thread.**  `ThreadsEndByLoss` is about every session.  Where the settings
are sent the lock is the message thread's, and the timer can only end within a preset
check.  `LossInv` is what that needs besides `IInv`: while a check is suspended, or one
that was goes on and finds the options gone, a chemistry error is forced.

**The session.**  `SafeInv` says who may have cleared `_notifying`: while there is an
app, or a command it left behind, it is set unless the message thread is between
`Check` and `Restore`, where no assertion is.  So the status loop of the message thread
finds it set, whether or not it has to connect, and `_running` is set after it.  A timer's
need not: the session may be over.  `LinkOK` is why it does not have to connect then if the
charger is never lost.  `PatientInv` is about a patient app: its
connect request is the first command of the session and meets no earlier loop, so that
there is one timer from its end on, and `_running` follows that timer.  What it says
after a timer has died (`TimerDied`) is weaker: there may be none, `_running` is left as
it was, and the next request waits for it.  That nobody stops early is what finding 3
shows to be needed.

**The serial link.**  Four invariants.  `FlowInv`: what was sent in this exchange is
the last on its way; an answer to it is there only when no command is left, and after
a reset nothing is late.  `Bounded` counts commands on their way as three cells each: at most three
after a reset, so at most six after the next command.  `AnswersInv`: an answer that is
not late describes the charger as it is; while one is waited for, whatever could be
taken for it is right, even if it is late, because every command still on its way is the
same one.  `ResultsInv`: no command on its way would undo what a call has achieved.

**The framing.**  `OrderInv`: buffer and queue hold cells in the order they were
written, none of them of a message that was handled, whatever pieces are missing.
Without losses `Whole` says more: buffer, queue and what the app writes next are one
unbroken stream (`Linked`; `Edge` is where two pieces meet) that begins with the first
cell of the next message.  That its first cells are that message, cell for cell, is an
induction over positions, done with the least number of a set (`LeastNumber`).  So no
payload is ever taken for a preamble and no length misread, and a message that is not
complete leaves room for the next piece.

**The circular array.**  The abstract queue is the cells between the two indices.  The
work is in the reductions: two places less than a capacity apart have different
remainders, and a piece that wraps is stored as its two halves.

**The fields of a preset.**  A field of a word is what lies above one power of two and
below another.  A word is three parts (`SplitWord`), in one way only (`SplitsOnce`), and
setting the middle one leaves the two others (`PutAtGives`, `PutAtKeepsBelow`,
`PutAtKeepsAbove`).  That no two fields of `Layout` overlap (`FieldsDisjoint`) is a
finite table; together they are `FieldSet`.  The setters are gone through one by one
(`ChargeStored`, `DischargeStored`, ...): that no code is nearer than the one that is
stored needs the two scales of a current and the place where they meet, and that a
stored value is stored again as itself needs that both scales round alike there.

**Modification.**  `ModifiedSettles` is about a loop over the values given.  `Modified` is
a recursive function; that it exists for any number of values (`AfterExists`) and that the
value of every field asked for stays what its own step made of it (`Taking`, `AllTaken`)
are inductions over the number of values gone through, and so is that the second time
nothing is left to do (`NothingTaken`).  This is where it is needed that no field is asked
for twice: with two values for a field the second time would set it twice again.  What is
stored once is equal to what is asked or is rounded to the same code again, so only a value
that cannot be held asks for an update.

**The checksum.**  `Checksum` goes over a run of words in halves.  That the recursion has
a solution is an induction over the length of a run (`LoopExists`, from `LoopBegins` by
`LoopGoesOn`); the solution is extended to longer runs by `BodyExtends`.  One step is
one-to-one in the word and in what it begins with (`NextSums`: adding modulo 2^16 and
rotating lose nothing), so a run is, by induction, one-to-one in each of its words and in
its beginning (`ComparedAll`).  That is `ChecksumTells`: any change of a single word, and
not only of the bits TLC tries, in any preset or in a checksum, is told (`BadIsTold`).

**The image.**  A place is a block and a word in it, in one way only (`PlacesAre`,
`IsSumPlace`), and a word in a block is a preset and an offset, or the checksum.  Hence the
place `_prestart_offset` computes is where `write_presets` put the preset (`PlaceOfIs`),
which is all of `WrittenContents`.

**The invariant of the presets.**  `RewriteIsStable` and `OnlyWrittenIsRead` are about an
image and what it was made of, several calls ago.  `Kept` remembers that: every preset is
`Sound` (its values are ones the setters store as they are); an image that is not damaged is the
image of its own contents, which are `Ready` (preparing them once more changes nothing,
`PreparedOnce`); after writing or reading they are the presets in memory; and a damaged image
is not verified.  `Inv == TypeOK /\ Kept /\ StoresNearest /\ ModifySettles` is inductive;
TLC had checked it before.  `OnlyWrittenIsRead` and the action properties follow
from it.

**Assumptions.**  `ConfigurationAssumption`: every operation is mapped to a slot, and
at least one besides `analyze` exists (`main.py` reads the mapping from a complete
file).  `BoundsAssumption`: the limits are numbers, the positive ones positive.
`EnvironmentAssumption`: readings are records, faults are of the two kinds.
`NoneAssumption`, `LinkAssumption`: `None` and `Erased` are no values of the data.
`CapacityAssumption`: a positive capacity, and reads below it, as all callers have it.
`RecordsAssumption`: records have the fields of a status, each of its width.
`FramingAssumption`: a message is at least its overhead, also one a misread length
stands for (`_handle_messages` adds the overhead to any length), and one
that lacks a cell fits into the buffer together with a piece.
`EndlessAssumption`: the 2 ** 32 of `num_cycles` is none of its other values.
`StoreAssumption`: values are for fields there are, no field is in `NewValues` twice and
`max_charge_amps` is not among them (they are the keyword arguments of one call,
emulator.py:349-360, and a dictionary's keys), and none is halfway where floating point
decides.  `ErasedAssumption`: the checksum of a block of erased words is not an erased word;
for five presets to a block, as the code has it, this is a number (21896), which TLC
computes when it evaluates the assumption.  The theorems about steps (`CountAlwaysStored`,
`OutcomeAlwaysKept`, `ThreadsAlwaysEndByLoss`, `EmulatorImplementsGate`, `AlwaysLoadsCurrent`) rest on the same
invariants as those about states.

**Only model-checked.**  All liveness (fairness and ENABLED are beyond the prover):
`OperationIsShown`, `RefusalPasses`, `EndIsShown`, `HaltIsHandled`, `DisplayCatchesUp`, `LinkComesUp`,
`GateOpens`, `ConnectIsServed`, `SessionEnds`, `EveryCallEnds`, `MessagesAreHandled`.
The four violations are TLC's too: each is a behaviour it found.
Three recursions over data (checksum, `_modify_preset`, the cells of a message) are proved
by a least counterexample (`LeastNumber`, from the well-foundedness of the numbers)
in place of the induction theorems of the library, which the provers cannot instantiate.

## 6. What was learned about the code

Four disagreements between code and comments or assertions have a run each:

1. *Presets are changed in memory and never written.*  `_update_presets` calls a
   method that does not exist (`can_change_preset`, emulator.py:365); the exception
   is caught and the next status loop finds the modified copies in memory up to
   date, and opens the gate.  The charger runs the old values.
2. *A chemistry error can be cleared.*  It is not clearable, but another refused
   command replaces it by one that is (emulator.py:320).
3. *Unsubscribing early ends a thread.*  `StopNotify` clears `_notifying` while a
   connect request waits or is at work, and an assertion fails outside every `try`.
4. *Changing the count after a reconnect ends a thread.*  `read_presets` makes new
   objects and the active preset stays an old one; the new count goes into the new
   ones, is written to the charger, and then compared with the old one's
   (emulator.py:645).

The following hold of the code too and are in the models as behaviours or as
restrictions of a run.  The first two are also at odds with a comment or an assertion;
most are outside what one speaks about.

- *Two status loops.*  A connect request clears `_notifying` "to exit" an earlier loop
  (emulator.py:176-177) and restores it when that has cleared `_running`.  If this
  happens between the old loop's two reads (541 and 544) the old timer survives and a new
  one is added.  `OneStatusLoop` is about a patient app, whose requests meet no earlier
  loop.
- *The timer's assertion.*  A status loop that has lost the charger and finds it again
  after StopNotify fails the assertion of emulator.py:414 on the timer: the timer goes, and
  as `_running` was not written it stays set (`TimerDied`).
- *Requests that wait in vain.*  `_running` is also left set by a loop that reads
  `_notifying` as set at 541 and as cleared at 544, and an old loop goes on if the app
  subscribes again while its request waits.  The next request waits for `_running` and
  nobody clears it (`WaitsInVain`).

- A charger that reports mode 0 (ready) gives no event: `event.py:39` compares the
  mode with an enumeration member instead of its value, so that IDLE is never
  produced, and the transitions on it in `state.py` (75, 104, 125, 140, 206) are never
  taken.  `EventOf` has it so; no property depends on it.
- A record that fits no message (a temperature below freezing, a cell's
  voltage drop that gives a negative or too large resistance, a number an enumeration
  lacks) is dropped with a log entry after the state has moved.  An outcome reached so
  is shown late, and an error the charger has left by then not at all: a message
  carries the charger's mode of the moment (`EndIsShown` says what remains).
- The charger's seconds count changes its unit at 64799 (status.py:415), a second before
  the 64800 that are taken off it: a record with that number and no minutes gives a
  time of -1 s and fits no message.
- A refused command during an operation overwrites the record's mode by an error's
  (emulator.py:462) for the state machine too: the state becomes Error while the charger
  goes on, and follows it again when the refusal is cleared (`RefusalPasses`).
- `main.py:174` asks of the numbers of presets only that they are positive; one above 75
  raises an exception at every connect.
- When the answer to a selection is lost (emulator.py:686) the charger has the new
  preset and the emulator the old one; an operation started before the next status
  reading runs it (a lost answer ends what is calm).
- `check_preset` sets the active preset before the charger has confirmed it; if that
  fails the gate is shut, and as the preset no longer differs nothing opens it
  (emulator.py:385-390).  The same without a failure: a preset selected at the
  panel while the charger works shuts the gate, and if it is taken back before
  the charger is idle again nothing differs then.  `GateOpens` has premises that exclude
  these two.
- A command refused while disconnected ends by sending the settings, which needs
  options there are not: the message thread ends (`SendSettings`; `ThreadsEndByLoss`
  lists all that can end a thread, `ThreadsSurvive` says that nothing does in a calm session).
  So does an operation the configuration lacks, a count no preset can hold, or a
  count without a battery.
- A battery whose values a preset holds only rounded is never done: its presets
  differ at every check (emulator.py:77) and are updated at every status loop, and the
  gate stays shut.  A discharge current above 1 A that is no multiple of 250 mA is
  enough (450 mAh at 3C).  `ModifySettles` says that this is the only reason.
- A value no preset can hold raises an exception in the middle of `_modify_preset`,
  after the values before it were assigned.
- `max_charge_amps` stores 0.63 A to 0.74 A as 1 A though it could hold 0.5 A
  (preset.py:439-451): the value is rounded to the next quarter before it is found that
  there is no third.  `Goal` says so; nothing in the program asks for such a value.
- If writing the presets fails after the erase, every later connection fails on
  their checksums.
- A reader thread that finds no room in the buffer is woken by a read that finds its
  bytes, and not when the buffer is cleared (powerlab.py:93-94).  With less than two
  answers' room it would wait for ever; the buffer has more (`ReaderHasRoom`).
- Connecting while the port is open (presets could not be read) leaves the old
  reader thread on the line (powerlab.py:212).
- The wait of `connect_request` takes milliseconds for seconds (emulator.py:183), so it
  practically never times out; when it does the request is dropped silently.
- The status loop of an app that goes without StopNotify goes on until another app
  connects (`SessionEnds` is about one that does not vanish).
- One lost piece of a message, or an app that leaves in the middle of one, can leave
  the message thread looking at the same preamble for ever (message_handler.py:87-109)
  or end it when the buffer is full (62-63).  `StuckOnlyByLoss` says nothing else does.
- An ENTER that is repeated because its answer was lost may act twice, the second
  time on what the first led to.

## 7. What is not modelled

- The values the app is shown (voltages, times, capacities) and their formatting, but
  for whether they fit (`StatusReport`).  The messages about settings and the battery
  (`serialize.py`, `battery.py`, `bump_settings.py`, `charger_settings.py`) are formatted
  from the configuration and keep no state; a rate above 65535 mAh does not fit there and
  is only logged.
- The name and the fuel curve of a preset, the fields of a status that are only copied,
  and the options, which the emulator reads and does not change.
- The value of a setter that floating point decides: `discharge_volts` halfway between
  two steps of 10 mV, `max_charge_amps` halfway between two amperes.
- The CRC as a computation: a wrong message never has the right CRC.
- What bluez does on D-Bus (`bluez_dbus.py`), argument and file parsing (`main.py`),
  the logging switches, test tool and packaging.
- Handler exceptions in `Framing`; they are in `Emulator` (`alive`).
- A late answer by more than one exchange, see the bounds of `SerialLink`.

## 8. Plan

The order was: the state machine and how it follows the charger; the emulator with
its abstract specification and proofs; the session's threads; the circular array; the
serial link; the framing; presets and their checksums; the status messages; then the
proofs about each.  What is left:

1. *More of the environment*: a session with early stops and lost chargers together,
   late answers within `Emulator`'s commands, more than one operation mapped to a preset
   that is for another chemistry.
2. *One module less between program and line*: `Emulator`'s `Answers` as a refinement of
   `SerialLink`'s calls, instead of the argument that its three outcomes are all there
   are.
3. *The link between `PresetStore` and `Emulator` by proof*: that `Exact`, `tuned` and
   `ReadPresetsFails` say of presets what `ModificationSettles` and `ReadsWhatWasWritten`
   prove is an argument of section 2 so far.
4. *Presets a charger came with*: the image begins as that of empty presets, which the
   setters could have stored; other firmware may store values they cannot (a charge current above 40 A).
5. *Safety behind the liveness*: the steps by which `EveryCallEnds` and `LinkComesUp` make
   progress are action properties, which can be proved, though fairness cannot be used.
6. *The other payloads*, if they ever come to keep state.

## 9. Running it

    tlc -workers 2 -config EmulatorSafety.cfg MCEmulator.tla
    tlapm EmulatorProofs.tla

The module of each run is in `PROJECT.json`; `Session` is checked directly, the
others by their `MC` module.
