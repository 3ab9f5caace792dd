# A TLA+ model of solarflow-ble

These modules model the asyncio client that talks to a Zendure SolarFlow over
Bluetooth LE (`src/solarflow_ble`, paths below are relative to the repository),
check it with TLC on small instances and prove theorems about it with TLAPS.
They were written from the code; where the code and what the repository says of
it disagree, the disagreement is a run of its own (see *Findings*).

## The system

| Component | Code | State | Operations | Hard behaviours |
| --- | --- | --- | --- | --- |
| Session life cycle | `src/solarflow_ble/client.py` | `status`, `_session_failure`, `_cleanup_done`, `_closing`, `_reports_wait_active`, `_reports`, `_write_results`, `_notification_queue`, `_notification_worker`, `_keepalive_task`, `_lifecycle_lock`, `_lock`, `_target_device_id`, `state` | `connect`, `disconnect`, `_teardown`, `_cleanup_transport`, `_reset_session`, `_handle_session_failure`, `_notification`, `_consume_notifications`, `_process_notification`, `_keepalive` | five kinds of task share one object; a failure is handled by whichever task meets it, without the lifecycle lock |
| Control writes | `client.py` (`set_*`, `_request_write`) | `_lock`, `_write_results`, `_message_id` | `set_output_limit` ... `set_ac_mode`, `accept` | correlation of late acknowledgements, a session that changes under a write, time-outs |
| Bleak transport | `transport.py`, `interfaces.py` | `_client`, `_accept_notifications`, `_notification_tasks` | `connect`, `start_notify`, `write`, `stop_notify`, `disconnect` | cancels the notification tasks, possibly the one that called it |
| Device state | `models.py` | `SolarFlowState`, packs | `with_report`, `_merged_packs` | partial reports, packs told apart by serial number |
| Limits and validation | `limits.py`, `client.py` | the warned-once flag | `_resolve_limits`, `_validate_range` | order of the sources, boundaries |
| Message ids | `client.py` | `_message_id` | `_next_message_id`, `_build_request` | one reserved id, shared by every task that sends |
| Wire format, advertisements | `protocol.py`, `const.py` | none | `encode_json`, `decode_json`, `parse_advertisement` | malformed input |
| Client diagnostic | `scripts/client_diagnostic.py`, `_proxy_common.py` | writer, proxy, radio, client; the plan, what has been applied | `merge_config`, `find_device`, `run`, `plan_controls`, `run_controls` | a control that fails half way must be restored, over a session that may be lost at any moment; nested `finally` clauses and Ctrl-C |
| Probe | `scripts/probe_solarflow.py`, `_proxy_common.py` | capture file, proxy, radio, client | `run_probe`, `_run_passive_capture`, `_list_advertisements`, `scan_for_target` | the capture is closed while other tasks may write to it |
| Redaction, quality gate, exceptions | `scripts/_redact.py`, `scripts/check.py`, `exceptions.py` | none | | |

How they interact. An application task calls `connect()`, `disconnect()` and
the setters; several such tasks may share a client. `connect()` opens the
transport, starts the session's *worker* task, subscribes, and then waits three
times on `_reports` for what the worker puts there. The transport calls
`_notification` in a task of its own for every payload; that task only queues
the payload for the worker, unless there is no worker. Once READY a *keepalive*
task writes every 30 seconds. A setter writes under `_lock` and waits on
`_write_results`. Whoever meets an error (worker, keepalive, setter, or a
notification task without a worker) runs `_handle_session_failure`: it marks the
failure, puts a sentinel into both queues, tears the session down and calls
`connection_lost_callback`. Only `connect()` and `disconnect()` take
`_lifecycle_lock`; the failure handler does not, so it may overlap either of
them, or the next `connect()`.

What makes each part correct:

* session: every blocked consumer is woken when the session ends; the transport
  is torn down by one task; the application hears of a lost session once and
  only of sessions that were lost; READY means that somebody watches; no task of
  a session outlives or disturbs the next one; every call ends;
* notification queue: the stop sentinel is last, so that nothing accepted is
  lost and the worker ends;
* handshake: nothing is asked of a device that has not been identified, and the
  status goes through its documented order;
* control writes: an acknowledgement satisfies the write it answers;
* state and packs: a partial report changes exactly the fields it carries;
* limits: an out-of-range value is never sent; message ids: the reserved id is
  never produced;
* diagnostic: what was changed is restored, whatever fails, and the exit code says
  so;
* both scripts: they work on the device they were asked for, and release what they
  hold however they end.

`PROJECT.json` lists the hazards line by line with the properties that cover
them, and says of the rest why nothing does.

## Modules

| Module | Models |
| --- | --- |
| `SessionContract` | abstract: what an application may rely on when it opens sessions one at a time |
| `SolarFlowClient` | the session life cycle, the life cycle of a control write, and the transport as the client sees it; implements `SessionContract` |
| `MCSolarFlowClient` | constants for TLC: the number of calls and notifications, a device that answers promptly, symmetry of the callers |
| `SolarFlowClientProofs`, `SessionLossProofs`, `LifecycleProofs`, `SessionEndProofs` | theorems about `SolarFlowClient` for every value of its constants; each extends the one before |
| `SettingContract` | abstract: what an application may take a control call for |
| `ControlWrite` | the control calls in detail: the line of `_lock`, message ids, the correlation of acknowledgements; implements `SettingContract` |
| `MCControlWrite`, `ControlWriteProofs` | its constants for TLC, and its theorems |
| `Limits` | which values the setters accept, for which device, and what they send (operators only) |
| `DiagnosticControls`, `DiagnosticControlsProofs` | the control suite of the client diagnostic: plan, apply, restore; uses `Limits`; its theorems |
| `Discovery` | the target a script is asked for and the device it finds (operators only) |
| `BleakTransport` | `transport.BleakTransport`: its Bleak client, subscription, acceptance and notification tasks |
| `ScriptRun` | one run of the diagnostic or the probe; composes `DiagnosticControls`, `Discovery` and `BleakTransport` |
| `MCScriptRun`, `ScriptRunProofs` | its devices and requests for TLC, and its theorems |
| `DeviceState`, `MCDeviceState`, `DeviceStateProofs` | `SolarFlowState`: how reports and packs are merged; its reports for TLC, and its theorems |

`SolarFlowClient` has the session in detail and writes in outline,
`ControlWrite` the other way round: it sees of the session only `status`,
whether a failure is recorded, and that `_write_results` is replaced when a
session fails, closes or opens. `ScriptRun` has the scripts in detail and of the
session only who tears it down, and how far that has come.

### How SolarFlowClient corresponds to the code

**Tasks and steps.** asyncio runs a task without interruption from one
suspending `await` to the next. `pc[t]` names the await at which task `t` is
suspended, and an action is the code from there to the next one. Long runs of
code that several tasks share (the failure handler, the teardown) are cut at the
labels `Midway`; they are not awaits, and while a task is at such a label no
other task steps (`Turn`). The awaits of `asyncio.Queue.put` on unbounded queues
and of an uncontended lock do not suspend and are no labels. The tasks are the
callers, one worker and one keepalive per session, and one task of the transport
that handles a notification when there is no worker.

**State.** `client` holds the fields of the object: `status`, `failure`
(`_session_failure` is set), `cleanupDone`, `closing`, `waitActive`,
`identified` (`_target_device_id` is known), `keepalive` and `worker` (the task
references), `session` (which `connect()` the fields serve: a ghost) and
`applied` (the sessions whose reports `state` contains: a ghost that abstracts
`SolarFlowState`). `queues` holds `_reports` and `_write_results`. `_reset_session`
*replaces* those queue objects while a consumer may be blocked on the old one,
so each has a `current` object and, when `detached`, the `held` one its consumer
still waits on. `inbox[s]` is the notification queue of the worker of session
`s`; since `connect()` makes a new queue and the old worker keeps its own, there
is one per session. `lock` names the owners of the two locks. `awaiting[t]` is
the task a `gather()` in a teardown waits for (it stays set while the cancelled
`gather()` waits for what it has cancelled), `serving[t]` the session a task
acts for, `lost[s]` counts the calls of `connection_lost_callback` about `s`.

**Messages** are one of ten kinds: what the handshake waits for, a BLESPP
without a usable deviceId, a report of another device, a `read_reply` (which
stands for every message nobody waits for), the three sorts of `writeRsp` a
write can meet, and a payload that does not decode. Every method, property and
value inside is abstracted away.

**Time** is abstracted to choice: a wait may time out at any moment
(`ConnectFails`, `WriteGivesUp`), a BLE operation may fail at any moment, the
keepalive's sleep may end at any moment. The same actions stand for the
cancellation of a caller that waits inside the handshake or inside a write.
`CancelledInLine` is a cancellation in the line of a lock; `TeardownCancelled`
one inside `stop_notify()`, at one of the two awaits of the transport's
`disconnect()`, or in the callback, and
`JoinCancelled` one inside `gather()`, which cancels the task it waits for, which
may itself wait in a `gather()` (`AbortJoin`, `Aborted`, `WorkerCancelled`).
`BleakTransport.disconnect()` first waits for the notification tasks it has
cancelled (label `td_tasks`, skipped when there are none) and only then for Bleak's
`disconnect()` (`td_disc`), which may raise; `_cleanup_transport` suppresses that.
Where such a teardown is cut short or fails, the link may stay up although
`_cleanup_done` is set: `CutShort` says what a cancellation leaves at each label,
`LinkDown` and `LeftUp` how Bleak's `disconnect()` may end, and the ghost
`transport.stranded` remembers a link that was left up so. Nobody disconnects it
any more in this session; the next `connect()` may find it up. Cancellations are
bounded by `Budget.interrupt`. The
link may drop whenever it is up (`LinkLoss`); as in the code, nobody is told.

**Actions** are named after what they run: `Connect*` (one for each stretch of
`connect()`), `Disconnect*`, `Teardown*` (`_teardown`, `_cleanup_transport`,
`_stop_notification_worker`, `BleakTransport.disconnect`), `Failure*`
(`_handle_session_failure`), `Notify*` (`_notification`), `Worker*`
(`_consume_notifications`), `Keepalive*`, `Write*` (`_request_write`).
With `CallsBack` the application's `connection_lost_callback` may await
`disconnect()` (`CallbackDisconnects`), in whichever task it runs.
`Finished` lets the system stop when every caller is outside the client, so that
TLC's deadlock check, which is on in every run, finds any other standstill.

### How ControlWrite corresponds to the code

`call[c]` is the last control call of caller `c`: `locking` (in the line of
`_lock`), `sending` (inside `transport.write_gatt_char`), `waiting` (in
`_wait_for_response`), or ended; with the setting it writes and the id of its
request. `lock` is the line of the FIFO lock, its owner first; the keepalive
stands in it like a caller and holds it while it writes (`keepalive`: asleep,
locking, writing), and leaves it when its session's teardown cancels it.
`results` is `_write_results` with the same `current` and `held` objects as in
`SolarFlowClient`, here holding messages with the settings they name and the id
they echo. `nextId` is `_message_id`. Beyond the client there are `air`, the
requests the device has and has not dealt with, in order, and `verdict`, what it
made of the last request of each caller. `unanswered` remembers the settings
written in the present session by calls that are over and have not read the
answer to their own request: they timed out, were cancelled, or took another
message for it.

The device (`DeviceDecides`, `DeviceReports`, `DeviceMisses`) accepts or
rejects a write, answers it late or never, and may miss it altogether; its answer
names the setting and echoes the id. With `FullReports` it also sends status
reports that carry `writeRsp` 0 and every setting, whenever it likes, as in the
capture `tests/fixtures/solarflow_reports.jsonl` (line 11, and lines 25, 38 and 51
of later batches). The capture has no answer to a write, so that what such an answer
names is taken from what `accept()` and the tests expect of it.

`GiveUp` is the response time-out and the cancellation of a call that has been
sent; `CancelledInLine` that of a call in the line. `SendFails` fails the
session that exists when the write raises, which may be a later one.
`SessionCloses` and `SessionOpens` wait until nobody has been granted the lock
without having run (`NobodyGranted`): a granted task runs in the next turn of the
event loop, and a teardown takes several.

### How DiagnosticControls corresponds to the code

`Begin` is `run_controls` up to its first await, `plan_controls` included: a
synchronous function of the state and the command line, which are chosen here.
Then one action for each setter that `run_controls` awaits, with its outcomes. A
setter that returns has sent its request (`Set`), and no more: by the findings
`late_answers_ignored` and `returned_means_accepted` it may have taken an
earlier acknowledgement of the setting or a status report for its own. One that
raises may have sent it (`Raises`). `sent` holds the requests the device has
still to deal with, in order, `Backlog` at most; the device obeys (`Obeys`) or
ignores (`Ignores`) the first of them at any moment, also when the script is
over. The ghost `unheeded` has the settings whose *restoration* the device
ignored although its setter returned. Values keep their units: the setters take
percent, the device holds per mille. `phase` says where `run_controls` is;
`applied` is its list of the same name, latest action first; `raised` says that
an exception will leave it. A setting the state does not know has the value 0 on
the device; the properties make no claim about it. What a setter accepts is
`Accepted` of the limits `ResolvedLimits` finds for the productKey known at that
moment, since the script gives its client neither limits nor a model. A setter
needs the device to be `reachable`, which `ScriptRun` says of every step:
through an open session over a live link. A report may bring the productKey
while the suite runs (`ProductReported`). The first lines of `run_controls`,
which refuse a client that is not READY, are in `ScriptRun`. The registry of the
code holds one set of bounds under two names; the instance adds a smaller model,
so that the bounds really change.

### How ScriptRun corresponds to the code

`request` is what the script is asked for: `controls` and `monitor` are the
diagnostic with and without `--controls`, `handshake`, `passive` and `list` the
probe with its default, `--no-handshake` and `--list-advertisements`. `at` is the
await the script is in, `code` how it will end, and `held` what its `finally`
clauses have to release: the capture or JSONL file, the connection manager of the
proxy, the Bluetooth manager. Ctrl-C is a cancellation of the script's task at
any await (`...Interrupted`), so the `finally` clauses run under it, and a second
one may cut these short.

`Discovery` has the choice of the target. `Merged` and `Valid` are `merge_config`
and `validate_arguments`; `Found` is one pass of `scan_for_target`, with the
devices in `air` in any order. `Parsed` is `parse_advertisement` on sequences of
bytes. `DeadlinePasses` may happen at any moment of the scan, and counts after the
pass.

`session` and `owner` are what remains of `SolarFlowClient`: a session is open,
or in a teardown that belongs to the worker, to the keepalive, or to the
script's own task. `Unsubscribed` and `Dropped` are the two awaits of
`_cleanup_transport`, run against `BleakTransport`. `disconnect()` joins the worker
and its own teardown, and no other (`Waits`): a keepalive that is tearing down has
already been taken out of `_keepalive_task`. `stranded` is, here, a teardown that was
cancelled inside `stop_notify()`. A session that fails inside `connect()` is torn
down there and the `disconnect()` that follows is a no-op; both are one teardown
here.

`BleakTransport` keeps the Bleak client, the link, the subscription and
`_accept_notifications` in `ble`, and counts `_notification_tasks` in `tasks`.
`Captures` runs one of them, in which the probe writes to its capture
(`CaptureTransport`); `PassiveCaptures` is the callback of the passive capture,
which Bleak calls directly. `spilled` remembers that this happened after the
capture was closed.

### How DeviceState corresponds to the code

`fields` has the integer fields of `SolarFlowState` under the name of the
property they mirror, `identity` its `device_id` and `product_key`, and `power`,
`raw` and `packs` the fields of these names (a field that is None is absent from
its function; `packs` is a sequence, as a dict keeps its order). `Report` is
`with_report` as a whole, with `_merged_packs` as a fold over `packData`;
`Establish` is `_establish_identity`, which puts the deviceId of the BLESPP that
ends the first wait of the handshake into the state; `Reset` is what
`_reset_session` does to the state. `reports` is a ghost, the messages the state
has been made of since the last reset, from which `LatestValues` and
`PacksOfReports` say what the state has to be, by a definition that does not
merge anything: the last value in the history (`Latest`), and of the packs the
first place of each serial number in all of `packData` (`Mirror`). Booleans,
strings and other values that `_is_int` rejects are values outside `Int`. After
`Establish` a report that names another deviceId is no message of this state
(`_validate_message_identity` raises); that and payloads that do not decode are
failures in `SolarFlowClient`.

### Regimes

* `Spec`: a caller may call anything at any moment, `connect()` included as soon
  as `status` says DISCONNECTED.
* `PatientSpec`: `connect()` opens a session only when no failure handler is
  running and the earlier session's worker has emptied its queue. Some
  properties hold in this regime only; the findings show how they fail outside of it.
* `Prompt...`: the device sends BLESPP, `getInfo-rsp` and the reports that answer
  a read only when the handshake has come to them, and no second BLESPP or report
  while the first is still to be read. Unsolicited reports, which it
  sends at any time, are the acknowledgements of the instance (every `writeRsp`
  is a report), beside reports of another device and undecodable payloads. It
  shortens the passing runs of `SolarFlowClient`; the theorems do without it, and
  so do the runs of the findings.
* `Resends = FALSE` in `ControlWrite`: the application does not write a setting
  while another write of it is pending, nor again in a session that has not read
  the answer to its last write of it (`unanswered`). `ContractKept` needs this:
  see `late_answers_ignored`. With a device whose status reports carry no
  `writeRsp` an application keeps to it by not repeating in a session a write that
  timed out or was cancelled; with one whose reports do, it cannot tell whose
  acknowledgement it got, and keeps to it for certain only by writing each setting
  once in a session. The control suite of the diagnostic writes every setting twice
  and is outside of it, which is why `DiagnosticControls` does not take a returning
  setter for an obedient device.
* `FullReports` in `ControlWrite`: whether status reports carry `writeRsp` 0 and
  every setting. `SettingContract` then lets a call return while such a report lies
  unread, whatever the device decides; a `SolarFlowCommandError` still means a
  rejection.

## Runs

`Connects`, `Disconnects`, `Writes` bound the calls of each kind; `Rounds` the
answers of the device to each handshake request; `Garbage` the undecodable
payloads; `Others` the messages of each kind in `OtherKinds`. The number of
callers is the number of model values in `Callers`.

| Run | Checks | Instance |
| --- | --- | --- |
| `session` | `TypeOK`, `IdentityBeforeRequests`, `FailureWakesWaiters`, `NoStrayKeepalive`, `ReadyIsWatched`, `DisconnectReleases` | `Spec` with a prompt device, two callers, one call of each kind, one cancellation inside a teardown, a BLESPP without identity, a report of another device and an acknowledgement |
| `reconnect` | `CleanupExclusive`, `TransportReleased`, `FailedIsDisconnected`, `SessionIsolation`, `NotifierNeverTearsDown`, `WorkerDrains`, `LostOncePerSession`, `ReadyHasReport`, `SessionEndsForCause`, `ContractKept` | `PatientSpec` with a prompt device, two callers, two sessions, one disconnect, callbacks that disconnect, an undecodable payload |
| `liveness` | `CallsEnd`, `LinkLossNoticed`, `FailureReported` | `FairSpec` with a prompt device, two callers, one session, one write and one disconnect |
| `writes` | `TypeOK`, `IdsFresh`, `WritesSerialized`, `ContractKept` | `Resends` FALSE and `FullReports` TRUE; two callers, two settings, three control calls, one keepalive read, one status report at any moment, two sessions |
| `scripts` | `TypeOK`, `FoundIsTarget`, `NothingLeft`, `NothingSpilled`, `ExitMeansRestored`, `ChangesAccounted`, `SilentMeansRestored` | every script and every way to name its device, four devices in the air in any combination, Ctrl-C twice, one notification task, two requests on their way to the device; the five settings of the suite with values at, inside and outside the bounds, known and unknown; three products |
| `state` | `TypeOK`, `LatestValues`, `PowerOfFields`, `PacksOfReports` | fourteen different reports and a BLESPP, up to four messages in a session, three properties, three packs |

Why these bounds are enough to meet the interesting cases. The races are between
at most three parties: a task that handles a failure, a caller that opens or
closes, and the worker. Two callers and one session reach every pair of them;
two sessions are needed for, and enough to show, what an earlier session does to
a later one (with one caller: after a failed session it is free to reconnect).
One undecodable payload, or one report of another device, is one failure met by
the worker; link loss gives the
failures of the keepalive and of a writer in addition, so that two failures of
one session meet. Nothing in the code depends on the number of messages beyond a
queue being empty, holding one, or holding something behind the one that
matters, which `Rounds` and `Garbage` reach. Each property has a mutation of the
code (the operators named `...Mutant` in the module) under which TLC finds it
violated, which also shows that the instance is large enough to reach the
situation the property is about.

In `writes`, `Calls`, `Reads`, `Reports` and `Openings` bound the control
calls, keepalive reads, status reports and sessions. Two callers and a keepalive give
a line with two waiters in it; of three calls one may leave an unread answer behind,
one may read it, and the third is queued behind both. The second session is for what
is left of the first. With `FullReports` TRUE the behaviours without a status report
are among those checked, since a report need not come. `Reserved` is 5 instead of
1009, so that the counter passes it in the middle of the writes. `reconnect` switches the
deadlock check off: a callback that disconnects may wait for ever
(`callback_deadlock`), which the run is not about. In it a second `getInfo-rsp`
is what makes a session READY before its report.

In `scripts` 105 per mille is no whole percentage, 51 % and 2401 W are out of
bounds, and 0 is no AC mode. Of the four devices one has a trailing 0x16 after
its identifier, one is not connectable, one is another vendor's and one has data
that is no ASCII. A second Ctrl-C is what meets a `finally` clause that the
first one has started; a third would find nothing that a second does not. One
notification task is enough for a write to a closed capture, and the proofs are
for any number of them. Two requests on their way are a setting's change and its
restoration, which is what could arrive in an unfortunate order; the proofs are
for any number again. In `state` the fourteen reports of `MCDeviceState` are one
for each way a report can be partial: a term of the battery power alone, both,
one of them as text; properties that are unknown, empty or missing; packs that
are new, known, named twice, without news or malformed. Merging looks at one
report and the state before it, so that three reports (know, forget, ask again)
show what can go wrong; there are four.

### Fairness

`FairSpec` assumes weak fairness of each task's own actions: the event loop
runs every task that is ready, a BLE operation returns or raises, every wait in
the handshake and in a write has a time-out, and the keepalive's sleep ends.
Taking the write lock gets strong fairness: `asyncio.Lock` serves its waiters in
turn, while a keepalive may release and take it again and again. No fairness is
assumed of callers' decisions to call, of cancellations, of notifications or of
the link. The one assumption that is not the client's own is that
`connection_lost_callback` and `update_callback` return (`CallsBack = FALSE`;
`callback_deadlock` has the other case).

## Findings

Each is a run that stops at a counterexample, in the smallest instance that has
one. Most concern windows of a few event-loop turns.

| Run | The repository says | The code does |
| --- | --- | --- |
| `connect_returns_ready` | README: "`connect()` returns once the session is `READY`" | the worker queues the first report and fails on the next payload before `connect()` resumes; `connect()` takes the report, starts a keepalive and returns with status DISCONNECTED |
| `callback_deadlock` | `disconnect()`: "A no-op when already disconnected." | a `connection_lost_callback` that awaits it, in the worker, waits for the lifecycle lock while the lock's owner, a failing `connect()` or a `disconnect()`, joins the worker; both wait for ever |
| `close_wakes_waiters` | `_wait_for_response`: raises "when the session fails or closes while waiting" | `disconnect()` replaces the queue without a sentinel; a pending write sleeps until its time-out, holding `_lock` |
| `session_ends_for_cause` | README: "Call `connect()` again to start a fresh session" once DISCONNECTED | the failed session's teardown, still running, disconnects the fresh session; nobody is told |
| `late_answers_ignored` | CHANGELOG: "a late `writeRsp` from an earlier timed-out write no longer satisfies the wait" | `accept()` takes a `writeRsp` that names the same property, whatever id it echoes |
| `returned_means_accepted` | README: "A rejected write raises `SolarFlowCommandError`" | status reports, asked for or not, carry `writeRsp` 0 and every setting; `_apply_message` keeps them in `_write_results`, and the next write returns on one before the device has decided |

Further observations, reachable in the models though no run stops at them:
`_refresh_status` runs after every message but BLESPP, so that the `read_reply`
which comes before the first report makes the session READY while `connect()`
still waits for that report, though CHANGELOG says "The session becomes `READY`
(and controls are allowed) once the handshake completes and the first report
arrives" (`ReadyHasReport` says what does hold); `connect()` sets PROTOCOL_READY
over DISCONNECTED when the session fails between the arrival of `getInfo-rsp`
and its own resumption; the keepalive started by a `connect()` whose session had
failed is overwritten by the next one, also under `PatientSpec`, and
`disconnect()` does not cancel it (`NoStrayKeepalive` holds of one session, in
the run `session`, and not of two); a payload left in a failed session's queue
is merged into the state of the next session when `connect()` does not wait for
the old worker, even if it waits for `connection_lost_callback`
(`SessionIsolation` holds under `PatientSpec` only); a write that waits for
`_lock` while the session is closed and opened again is sent in the new one, be
it during its handshake, since readiness is checked before `_lock` is taken
(`ControlWrite` has these behaviours; its properties hold with them and none
excludes them); `plan_controls` refuses overrides without a known original only
for `minSoc`, `socSet` and `acMode`, so that a power limit may be applied that
cannot be restored, and a SOC value that is no whole percentage is restored
rounded down.

Of the transport's teardown: a call cancelled inside `stop_notify()`, inside the
transport's wait for its notification tasks (`transport.py:72`), or inside Bleak's
`disconnect()`, leaves the link up, or may, and since `_cleanup_done` is set nobody
takes it down any more in that session; so does a Bleak `disconnect()` that raises,
though the client then says DISCONNECTED (`transport.stranded`; `DisconnectReleases`
says that there is no other case). The next `connect()` finds the link up: after a
teardown cut short before Bleak's `disconnect()` it reuses the Bleak client, otherwise
it makes a new one.

Of cancellations: `disconnect()` cancelled at any await leaves `status` as it
was, so that a `connect()` after it may find READY and do nothing; a `set_*()`
cancelled while it handles a failure takes the notice of the loss with it;
cancelled while it joins the worker, `disconnect()` cancels what the worker had
still to process. A `connection_lost_callback` that runs in a `set_*()` owns
`_lock`, and would wait for itself if it wrote.

Of the control suite: exit code 0 means "restored" only as far as the device
heeds the restorations. Since a setter may return on a stale acknowledgement, the
suite may end, with success, before the device has obeyed its last requests, or
though it has rejected or missed one of them. `ExitMeansRestored`, `SilentMeansRestored`
and `ChangesAccounted` say what remains: what the suite leaves on its way to the
device is, for each setting, last of all a restoration, and no other setting stays
changed than one whose restoration the device ignored. That rests on the device
dealing with its requests in the order in which they were written to the link.

Of the scripts, each named as an exception in `NothingLeft` or `NothingSpilled`
because TLC finds the property violated without it: `disconnect()` does not wait
for a keepalive that is tearing the session down, so the probe may close its
capture, and either script end, before the link is down; Ctrl-C inside
`manager.stop()` keeps the probe from `async_stop()`, as `suppress(Exception)`
does not stop a cancellation; a passive capture whose Bleak `disconnect()` raises
goes on calling a closed capture. The probe goes on for `--capture-seconds` when
`connect()` returned a dead session, the diagnostic raises; a diagnostic without
controls ends with success though its session died meanwhile. A probe given both
`--address` and `--identifier` looks up the address alone first, and ignores the
identifier of a device it finds so.

## Proofs

`SolarFlowClientProofs` proves, for any set of callers, any number of calls and
notifications and a device that sends anything at any time, from the module's
one assumption (`ConstantsAssumption`: the budgets are numbers, and callers,
worker, keepalive and notification tasks are different things):

* `TypeCorrect`: `Spec => []TypeOK`. `TypeOK` alone is not inductive. `connect()`
  starts a worker and a keepalive for the session number in `serving[c]`, so that
  number must be a session's while the caller is on its way (`ConnectServes`);
  and a report processed without a worker is applied to `client.session`, which
  must be a session's as soon as the link is up or a caller in the handshake
  (`Numbered`). `Typed == TypeOK /\ ConnectServes` and `Numbered` are inductive
  together; there is one lemma per group of actions for each.
* `WorkersDrain`: `Spec => []WorkerDrains`. `WorkerDrains` is inductive together
  with `Typed`. The argument: the stop sentinel is appended only to the queue of
  the worker that `client.worker` names, in the step that clears this reference,
  and payloads only to the queue of the worker it names; so the queue of a worker
  that has been told to stop never grows again. The steps that matter are
  `ConnectTransportUp`, `NotifyQueued`, `TeardownWorker` and the worker's own;
  all others leave queues and reference alone (`DrainsKept`). The lemmas
  `TailKeeps`, `AppendKeeps` and `ToldKeeps` say what those steps do to a queue.

`SessionLossProofs` continues with `LossHeardOnce`: `Spec => []LostOncePerSession`,
in every regime and not only in that of the run. A task on its way to
`connection_lost_callback` is one inside a teardown without the lifecycle lock,
and it tells the session in its `serving`. The inductive invariant `LossInv` says
of each session that at most one task is on its way to tell it, that what it
tells nobody has heard yet, and that nobody has heard or will of a session that
the client serves and that has no recorded failure (`Once`). Then `FailureMarked`
finds no teller and makes one, and `FailureNotice` uses it up. Two more facts
hold this together: a caller in the handshake owns the lifecycle lock, so its own
teardown is no failure's (`Locked`), and a session that is still to be opened is
unheard, and one call opens it (`Fresh`, `Ahead`), so that `ConnectStart` starts
from silence. All other steps bring no task into a failure's teardown
(`LossKept`).

Its other theorem is `NoStrayInOneSession`: `Budget.connect <= 1 => (Spec =>
[]NoStrayKeepalive)`. Of two sessions the property is false (see the findings), so
the invariant says what is left of it for any number of them: a keepalive that
goes on writing is the one `_keepalive_task` names, or another session has
started its own (`ReplacedInv`). Only `ConnectTakeReport` starts one, and whoever
clears the reference, `TeardownBegin`, stops the keepalive it named or is it.

`LifecycleProofs` is about `PatientSpec`: a `connect()` begins only when nothing
of the earlier session is running any more, everything else happens at any time,
with any number of calls, cancellations and notifications and with callbacks
that disconnect. The inductive invariant is `LifeInv`, with `LossInv` and the
types:

* `OwnerInv`: who has the lifecycle lock is inside `disconnect()`, as `_closing`
  says, or a caller in `connect()` or its except clause;
* `JoinInv`: only tasks that were started are joined;
* `TellerInv`: who is on its way to tell a failure tells that of the session the
  client serves. Outside of `PatientSpec` this is what breaks first
  (`session_ends_for_cause`);
* `SessionInv`: handshake, live worker and applied reports are of that session;
* `StatusInv`: how far `status` has come at each await of the handshake, unless a
  failure has been recorded;
* `CleanupInv`: who is at the transport has set `_cleanup_done`, and is alone;
* `StartInv`: nothing has been started for a session that is still to be opened.

A behaviour consists of few kinds of step (`PatientStep`): those outside of every
call and teardown (`Outside`), those of the handshake, of a teardown
(`TearingStep`), a cancelled task that lets go (`Leaving`), a failure's beginning
and end, and the beginning and end of `connect()` and `disconnect()`. Each action
is shown once to be of its kind (`PatientStepKinds`), and each part of the invariant
is then argued per kind. It yields

* `OneAtTheTransport`, `StateIsOfTheSession`, `IdentityComesFirst`: `CleanupExclusive`,
  `SessionIsolation` and `IdentityBeforeRequests` hold always;
* `EndsForCause`: the action property `SessionEndsForCause`;
* `ClientKeepsContract`: `PatientSpec => ContractKept`, the refinement of
  `SessionContract`. `ConnectStart` is the contract's `Connect`, whatever sets
  `status` to READY its `Establish`, `DisconnectStart` its `Disconnect`,
  `FailureMarked` its `Fail`, `FailureNotice` its `Tell`; where a call returns,
  raises or is cancelled it does `End`, and a cancelled task that had a loss to
  tell does `Drop`. Every other step is a stutter of the contract: its phase, its
  call, and whether a loss is still to be told, stay what they were.

`SessionEndProofs`, also about `PatientSpec`, first follows a client none of
whose calls was cancelled inside a teardown (`~Interrupted`). The hypothesis is
needed: a cancelled `disconnect()` leaves status and link as they are. The
budget of interruptions only shrinks (`SpentInv`), so a behaviour is without one
up to some point, and up to there `EndInv` is inductive together with `LifeInv`
and with `OpeningInv` (while a caller opens the transport no teardown is under
way). `EndInv` says that nobody is cancelled but a keepalive (`UncutInv`), what
the labels tell of the transport (`PlaceInv`), that a link that is up though
nobody wants it is on its way down, or was left up by Bleak, or is found by a
`connect()` on its way (`ReleaseInv`), that `connect()` goes on to end the
failed session whose status it overwrote (`FailInv`), that a notification
without a worker comes too late to be a failure's first witness (`NotifierInv`),
and who watches a READY session (`WatchInv`). Hence `LinkIsReleased`,
`ReadyMeansWatched`, `FailureDisconnects` and `NotifierHandsOver`, which state
`TransportReleased`, `ReadyIsWatched`, `FailedIsDisconnected` and
`NotifierNeverTearsDown`. The first two properties have the hypothesis in their
definitions, the theorems about the other two state it; the run `reconnect`,
which checks those two, cancels nothing.

* `WaitersAreWoken`: `PatientSpec => []FailureWakesWaiters`, cancellations
  included. `WaitInv` says that a queue whose consumer still holds the old object
  (`detached`) has such a consumer; that while the session can still fail, its
  consumers wait on the queue object that will be told; and that once it has
  failed, theirs has the sentinel in it (`QueueInv`, for `_reports` and
  `_write_results` alike). `WriterInv` adds that a write that waits has `_lock`,
  so there is one consumer per queue.
* `EndIsRelease`: `PatientSpec => DisconnectReleases`, cancellations included, so
  that it says what they may leave behind. `MarkedInv` has three parts. Who is
  past its cleanup has set `_cleanup_done`, which no step but the next session's
  `ConnectStart` takes back (`MarkInv`). A link that is up though this is set is
  on its way down, or the transport's teardown has left it up (`stranded`), or it
  is the notification's own task that has it, which its `transport.disconnect()`
  cancels while it still owns the lifecycle lock (`DownInv`, `Orphaned`). And that
  task is at the transport only when a callback has it disconnect (`OwnTaskInv`).
  A `disconnect()` that returns has the lock (`ReturnsLocked`), so the last case
  is excluded.
* `ReadyMeansReported`: `PatientSpec => []ReadyHasReport`. READY may come before
  the first report (see the further observations); this is what remains true:
  once the lifecycle lock is free, `state` holds a report of the session.
  `_process_notification` merges a report before it queues it, so a report in
  `_reports` says that the session had one (`FiledInv`); until the session fails
  the queue that `connect()` reads is that one (`QueueInv`), so it can only come
  back with the session served (`SettledInv`), and what `state` has of a session it
  keeps until the status is DISCONNECTED (`AppliedGrows`). A session that is READY with
  the lock free has not failed (`FailInv`).
* `OneSessionIsPatient`: `Budget.connect <= 1 => (Spec => PatientSpec)`, for an
  application that does what it likes. `UnopenedInv` says that until the session
  is opened nothing runs but calls, of which one at most, with the lifecycle lock,
  takes down what is not there; so `connect()` finds the client quiescent
  (`NextUnopened`), and no other step names a session (`SessionKept`).
  `OneSessionIsKept` draws the consequences: `IdentityBeforeRequests`,
  `ReadyIsWatched`, `ReadyHasReport`, `TransportReleased`, `FailureWakesWaiters`,
  `DisconnectReleases` and `ContractKept` hold of one session in every regime. It
  takes a second `connect()` that overlaps the end of a session to break one of
  them.

`ControlWriteProofs` proves about `ControlWrite`, for any callers, settings and
budgets, both kinds of report and both kinds of application, from
`ControlAssumption` (budgets and the reserved id are numbers, the switches
Boolean, and "keepalive", the task that sends a read, is none of the callers):

* `ControlTypeCorrect`: `Spec => []TypeOK`, with nobody twice in the line of
  `_lock`;
* `WritesAreSerialized`: `Spec => []WritesSerialized`. The inductive invariant
  (`Line`) is about all `Tasks`, callers and keepalive alike: nobody is in the line
  twice, whoever is in it wants the lock (`Wants`), and whoever uses what it guards
  (`Uses`) is its first. A task that wants it joins behind everybody (`TaskJoins`), one
  that is done leaves from the front (`OwnerGoes`), and one that is cancelled leaves
  from any place without anybody passing the owner (`TaskLeaves`, which rests on
  the lemma `Removed` about `RemoveAt`);
* `IdsAreFresh`: `Spec => []IdsFresh`. Every id on its way is below the counter,
  and `Fresh` is never below it nor the reserved id (`FreshNat`), so a request
  that is sent has a new one (`SentKeepsIds`);
* `CallsKeepContract`: `~Resends /\ Spec => ContractKept`, the refinement of
  `SettingContract`, whatever `FullReports` is; `late_answers_ignored` shows what
  happens without the hypothesis. The argument: a
  call takes an answer that names its setting or echoes its id. One call at a
  time is about a setting (`AloneInv`); every request and answer still on its way
  is that of the write under way, or about a setting that is `unanswered` and so
  is not written again (`RestInv`); the answer to the write under way says what
  the device decided and is in the queue its caller reads (`OwnInv`), also when
  that queue has been replaced under it (`HeldInv`). The one other message that
  a call may take is a status report, and then `unread` was TRUE, which happens
  only with `FullReports` (`UnreadInv`); it says "ok", so that a call that raises
  `SolarFlowCommandError` has read its own answer. A call that begins is the
  contract's `Ask`, `DeviceDecides` its `Decide`, `TakeAnswer` its `Return` or
  `RaiseCommandError`, every other end of a call its `RaiseOther`, and the coming
  and going of status reports its `Report`.

`DiagnosticControlsProofs` proves about the control suite, for any limits, any
settings' values and whatever `reachable` does, from `DiagnosticAssumption`:

* `SuiteTypeCorrect`: `SuiteSpec => []SuiteType`; the plan's values and
  restorations are numbers because what is not known is not planned;
* `NothingForgotten`: `SuiteSpec => []ChangesAccounted`, and
  `SilenceMeansRestored`: `SuiteSpec => []SilentMeansRestored`. The inductive
  invariant (`SuiteInv`) adds that every planned or applied action restores the
  value its setting had (`Current`), that `raised` is set when a restoration
  failed, and where `applied` is empty. It says of each setting for itself what
  accounts for it (`Accounted`): among other things, that its last request on its way
  is a *restoration* (`Settled`), so that the device's ignoring it is noted in
  `unheeded`. A step is then argued for the setting it sets (`RestoreSettles`) and for
  the others (`KeepsOthers`), and the device's steps once for all (`DeviceIInv`).

`ScriptRunProofs` proves about whole scripts, for any devices, requests, numbers
of Ctrl-C and of notification tasks:

* `RightDevice`: `Spec => []FoundIsTarget`, through the fact that `request` does
  not change and `Found` returns only what was asked for;
* `ScriptsRelease` and `CaptureClosedLast`: `Spec => []NothingLeft` and
  `Spec => []NothingSpilled`. `RInv` says where the session may be at each await
  of the script, and what the transport is at each stage of the session: silent
  once a teardown has reached it, without a client once that is over. A script is
  past `disconnect()` only with such a session, unless by Ctrl-C or a keepalive;
  and the capture is closed after that;
* `ScriptsAccount`, `ScriptsRestore`: every step of a script is a step of the
  suite or leaves it alone (`SuiteInside`), so the suite's theorems hold of it;
* `ScriptTypeCorrect`: `Spec => []TypeOK`, together with `RInv` and the suite's
  invariant, which give the session and the transport their stages; that a scan
  yields devices and a look-up a device or none is `Scanned` and `Reached`;
* `SuccessMeansRestored`: `Spec => []ExitMeansRestored`, from these and `Told`:
  outside of the suite the exit code is a success only if the suite did not
  begin, or ended without an exception.

`DeviceStateProofs` proves about `DeviceState`, for any properties, for reports of
any length and any number of reports, handshakes and resets, from `StateAssumption` (the two
terms of the battery power are fields, an identity has the two keys it may have, a
BLESPP has a deviceId and nothing else,
`packData` is a list of entries, and None is no integer and no dict), the one
inductive invariant `StateInv`, the conjunction of `PacksInv`, `LatestInv` and
`PowerOfFields`, with these consequences:

* `PowerIsOfFields`: `Spec => []PowerOfFields`. If both terms are known after a
  report, the power is computed anew from them; if not, one was unknown before it
  too, so that the power was None and stays it.
* `ShowsLatest`: `Spec => []LatestValues`. A message adds one element to the history
  (`HistoryGrows`),
  and `LatestGrows` says what this does to the last values: they are those before
  it, merged with what it gives (`LatestInts` of the integers, `LatestAny` of all
  values), which is what `Properties` computes from the state alone; a BLESPP
  changes the identity only (`EstablishKeepsLatest`).
* `PacksAreAsReported`: `Spec => []PacksOfReports`. `MirrorStep` is about one entry of
  `packData`: whether it names no pack, a new one or a known one, `MergedPack`
  keeps the packs the mirror of the entries so far, none twice, in the order of
  their first entries, each with its last integers. `RoundsMirror` takes this
  through the fold over a whole list, and `FlattenGrows` through the reports.
* `StateTypeCorrect`: `Spec => []TypeOK`, since values of the history have their types.

The fold and the concatenation are recursive functions over data of any length. The
library's induction theorems take an operator as a parameter, so the module has
its own, in first-order form: a set of numbers that is not empty has a least
one (`Least`, as finite sets ordered by inclusion are well-founded), and so a set
that has 0, and n + 1 with every n, has them all (`Inductive`). With it the
equations of `FoldLeft` and `FlattenSeq` have solutions (`FoldsExists`,
`JoinsExists`), and what they compute goes one step at a time (`RoundsStep`,
`FlattenGrows`).

Only model-checked: the liveness properties, since fairness and ENABLED are out of
the prover's reach. Every invariant and every other action property of a
passing run is stated by a theorem. Outside of `PatientSpec`, where a `connect()` may
overlap the end of the session before, the theorems are `TypeCorrect`,
`WorkersDrain` and `LossHeardOnce`, and those about one session, which has none
before it (`NoStrayInOneSession`, `OneSessionIsPatient`, `OneSessionIsKept`). The
run `session` is such a client, outside of `PatientSpec`: every invariant it checks is
proved there.

## Not modelled

* Cancelling a notification task that processes a payload without a worker while
  its own failure handler waits in a `gather()`: the task just ends.
* A `connection_lost_callback` that calls `connect()` or a setter.
* `last_error`, logging, the unknown-model warning, `allow_control`.
* A setter's value in `SolarFlowClient` and `ControlWrite` (`Limits` has it), and
  the values of the reports there (`DeviceState` has them).
* In `ControlWrite`, the device dealing with a request after the link it came over is
  gone: the answer could not arrive, and `SettingContract` allows the decision
  (`DiagnosticControls` has it).
* Requests that overtake each other on their way to the device.
* The contents of a capture or JSONL record, and files that cannot be opened: the
  scripts then fail before they hold anything.
* The advertisements of a scan after it is over, and the order in which scanners
  list devices.
* The other components of the table above, as `PROJECT.json` says one by one:
  printing, argument parsing, JSON encoding and running linters have no state
  that a checker could explore.

## Plan

In this order; a module is written so that it can be proved about (constants
with named assumptions, one action per operation, no recursive operators).

Done: `SolarFlowClient` with cancellation, callbacks and `SessionContract`, which it
is proved to implement, and its other theorems; `SettingContract` and
`ControlWrite`, proved to implement it; `DiagnosticControls` with `Limits`;
`Discovery`, `BleakTransport` and `ScriptRun`, which composes them; `DeviceState`; each
with its theorems. Left:

* Callbacks that call `connect()`, and a `ScriptRun` over the detailed client.
