# Landslide monitoring: verification project

TLA+ models of the parts of landslide-monitoring-v2 whose correctness depends
on order, failure and time, TLC configurations that check them on small
instances, and theorems about them that TLAPS proves for every instance.
Everything is translated from the source under `src/`; where this document
speaks of a line, it means a line there. `PROJECT.json` maps each definition to
the lines it stands for, and lists runs, mutants, hazards, findings and theorems.

## 1. The system

Sensor nodes (RK2206 boards) send telemetry over a radio bus to a gateway
(RK3568), which spools it and publishes it by MQTT. In the cloud, small services
joined by Kafka topics store it, judge it by rules, and open alerts; commands
travel the other way. All of them read or write the same Postgres tables.

    node --serial--> field-gateway --MQTT--> ingest --Kafka--> telemetry-writer --> ClickHouse, device_state
                                                          \--> rule-engine-worker --> alert_events, siren
    api --Kafka--> command-dispatcher --MQTT--> field-gateway --serial--> node
    node --ack, MQTT--> command-ack-receiver --Kafka--> command-events-recorder, command-notify-worker
    rule-engine-worker --Kafka--> alert-notify-worker --> push, SMS
    alert_events --api, event stream--> HarmonyOS app --> in-app alert, alarm sound

### Inventory

| Component | State | Operations | Talks to | What is hard | What makes it correct |
|---|---|---|---|---|---|
| **api**, commands | `device_commands`, `devices` | issue in one transaction (insert, publish, commit), revoke, reactivate | Kafka `device.commands.v1` | the message leaves before the row is visible; rollback after publish | a visible row has its message |
| **command-dispatcher** | consumer position and offset; row status `queued`, `sent`, `canceled` | look up, cancel, publish, record | Postgres, MQTT QoS 1 | decides on a row it read before two awaits; errors, restarts, redelivery | sent means the broker took it; outcomes are final |
| **command-ack-receiver** | MQTT handlers under way; consumer position; `acked_at` | receive, forward to Kafka, apply, announce; consume the forwarded copy | MQTT, Kafka, Postgres | two paths apply one acknowledgement; either half of a handler may fail | one outcome per command; a forwarded answer settles |
| **command-timeout-worker** | rows selected by the scan | scan, visit, announce | Postgres, Kafka | visits rows it read earlier; one error drops the rest | nothing stays `sent` |
| **telemetry-writer** | maps of the latest number and state; pending messages; resolved offset | accept, refuse, flush, isolate, merge | Kafka, ClickHouse, Postgres | four sinks, no transaction; crash between any two; no offset is ever committed; repeats against restarts of a device | only a restart passes over a message; the console's value is backed by storage |
| **rule-engine-worker** | last event of each rule and device; 30 s cooldown; rule windows | trigger, resolve, reconcile, call the siren | Postgres, Kafka, actuator (HTTP) | decides on an event read earlier; publish fails after the insert | one open alert; an active alert is heard |
| **api**, alerts and field alarm | `alert_events` | acknowledge, resolve, siren actions | Postgres, actuator | the siren is called first and the event recorded after, unlocked | alerts stay consistent with the engine's view |
| **rk3568-alarm-actuator** | its belief about the siren, queue of actions | run an action, reconcile with the platform every 3 s | HTTP, serial | belief and siren part on failures and restarts; stale list | the siren follows the alerts |
| **field-gateway**, port | command chain, answer window, poll window, poller cursor | receive, poll, wait quiet, flush, write, close windows | MQTT, serial | half-duplex radio; late answers; failed writes, and a port closed in the middle of one | exclusive use of the port; no chain stalls but behind such a write |
| **field-gateway**, spool | files `pending`, `published`, `rejected` | enqueue, replay, mark, write back | disk, MQTT | crash between publish and mark; two replays; random order in one millisecond | nothing is lost, repeats are bounded |
| **RK2206 firmware** | upload and command queues, byte queue, quiet window, sequence number | six tasks: sample, upload, receive, execute, answer, watchdog | serial | a race on the quiet window; full queues; no memory of commands done | a node does not talk over an answer |
| **ingest** | subscription, handlers at work | hand over, send to `telemetry.raw` or the dead letters | MQTT, Kafka | acknowledges before Kafka has the message; a Kafka failure looks like invalid input | only its own absence loses a message |
| **huawei-iot-adapter** | none | one request in, one message out | HTTP, Kafka | | |
| **command-events-recorder**, **command-notify-worker** | one row per event | idempotent inserts | Kafka, Postgres | a foreign key from one consumer group to the other's row | one notification per command, and the right one |
| **alert-notify-worker** | notification rows, SMS jobs | insert, push, send, retry | Kafka, Postgres, SMS | crash between sending and recording | nobody is told twice, everyone is told |
| **api**, alert stream; **HarmonyOS app**, in-app alert | the stream's cursor; last event and events seen; alert on display, queue, mute; sound stream | poll, connect, receive, present, resolve, mute, tap, log out; start and stop the sound | Postgres, SSE, sound pool | cursor without microseconds; rows committed late; a stop overtaking the answer to a play; the page in use while a logout awaits | the panel shows what is unresolved, the alarm follows the panel |
| **telemetry-dlq-recorder** | one row per dead letter; consumer position and offset | insert once per offset, commit | Kafka, Postgres | a restart before the first commit starts at the end of the topic | what telemetry was refused can be looked up |
| **presence-recorder** | one row per device | upsert | Kafka, Postgres | replays put back an older state | the last presence wins |
| **hermes-edge-supervisor** | action queue, remembered request ids | enqueue, run, forget | HTTP, files | forgets ids at its limit | a request runs once |
| **ai-prediction-worker**, model libraries | current model | train, predict | Kafka, ClickHouse | numerical | out of reach |
| **libs/rules**, packages, apps, hardware, scripts | none | evaluation, UI, tooling | | | |

## 2. The modules

    CommandLifecycle            what the command pipeline promises (abstract)
    DeviceCommands              the pipeline in detail
      DeviceCommandsProofs      types, that it implements CommandLifecycle and CommandPath,
                                what a row says of Kafka, broker and device, proved
      MCDeviceCommands          instances for TLC
    CommandEvents               recorder and notify worker on the topic of events
      CommandPath               the lifecycle's events and these two readers
        CommandPathProofs       one true outcome and one true notification, proved
        MCCommandPath
    SequencePolicy              repeat or restart? merging a message into a shadow
      TelemetryWriter           one partition of telemetry-writer
        TelemetryWriterProofs   types, what happens to every message, what is refused,
                                what is in a shadow, proved
        MCTelemetryWriter       the messages of its runs
    FieldAlarm                  rule engine, operators, actuator and siren
      FieldAlarmProofs          types, and one open alert per rule and device, proved
      MCFieldAlarm
    TelemetryDelivery           what the gateway's spool promises (abstract)
    TelemetrySpool              the spool, its replay and the MQTT client in detail
    TelemetryIngest             the ingest service
    DeadLetterRecorder          telemetry-dlq-recorder on the dead letters
    TelemetryUplink             spool, broker, ingest and that recorder together
      TelemetryUplinkProofs     the spool's types, order, single delivery and refinement,
                                and what the uplink loses, proved
      MCTelemetryUplink
    AlertNotifications          alert-notify-worker
      AlertNotificationsProofs  types, one push, one SMS, proved
      MCAlertNotifications
    AlertStream                 the event stream of the API and its client in the app
    AlertPanel                  alert on display, queue and mute
      AlertApp                  stream and panel with the page's life and the user
        AlertAppProofs          types, the alarm follows the panel, the panel the stream, proved
        MCAlertApp
    AlertAlarm                  the sound service behind the panel
    GatewayPort                 one serial port of the field gateway
      GatewayPortProofs         its type invariant and exclusive use, proved
      MCGatewayPort
    FieldNode                   the firmware of a field node

Conventions: one action is the code between two awaits that another process can
interleave with. A Kafka topic is a sequence; a consumer group is the resolved
position of the running consumer and the committed offset a restart resumes from
(telemetry-writer commits none). Definitions whose comment says *Mutant* are faulty
forms of the definition next to them, kept to show that a property can fail.
Composition is by sharing variables: a step of one part leaves the others' variables
alone, or is conjoined with theirs where the code hands over in one step.

### DeviceCommands

| State | In the code |
|---|---|
| `api`, `status`, `sentAt`, `ackedAt`, `revoked` | the request's progress, the columns of `device_commands`, and `devices.status` |
| `commandLog`, `ackLog`, `eventLog` | `device.commands.v1`, `device.command_acks.v1`, `device.command_events.v1` |
| `dispatch`, `dispatchPos`, `dispatchCommitted` | the dispatcher's step, resolved position, committed offset |
| `toDevice` | commands the broker took at QoS 1; each may be answered at any later moment, again, and differently |
| `handlers`, `ackPos`, `ackCommitted` | the receiver's MQTT handlers and its Kafka consumer |
| `scan` | rows the timeout worker selected and has yet to visit |
| `owed` | UPDATEs that took effect and whose event is unpublished |

`ApiCheckDevice`, `ApiPublish`, `ApiCommit`, `ApiRollback` are the steps of
`POST /devices/:deviceId/commands`; the message is sent inside the open
transaction. `DispatchMissing` to `DispatcherRestart` are the dispatcher,
`OnAckMessage` to `ReceiverRestart` the receiver, `TimeoutScan` to
`TimeoutAbort` the timeout worker. `DispatchMissing` collapses the five seconds
of retries after which a message without a visible row is skipped: that can
happen to any message whose transaction is slow. Times are ranks, because the
code only compares them.

`CommandLifecycle` says the same of one row and its events without Kafka, MQTT
or offsets: issue, send, settle, cancel, announce, and lose what was owed.
`Lifecycle == INSTANCE CommandLifecycle` maps `status`, `owed` and `eventLog` to
themselves.

### CommandEvents and CommandPath

Two consumer groups read `device.command_events.v1`: the recorder inserts
`device_command_events` (`RecordEvent`), the notify worker resolves the policy of
an acknowledged command (`SuccessPolicy`: the command's own, or the default of
its type, or of all) and inserts one notification per event (`InsertNotification`),
whose foreign key needs the recorder's row; without it the insert throws and the
event is fetched again. `UpdatePolicy` changes the defaults meanwhile. `CommandPath`
puts `CommandLifecycle` in front: because the pipeline is proved to implement it,
what holds for its events holds for those of `DeviceCommands`, and TLC is spared
the pipeline's own state.

### TelemetrySpool, TelemetryIngest, DeadLetterRecorder, TelemetryUplink

| State | In the code |
|---|---|
| `handler` | where each `handlePayload` is: counted against the limit, stored, replaying, writing health, filing evidence |
| `pending`, `published`, `evidence`, `unreadable` | the three directories, and pending files that do not parse after a power loss |
| `step`, `owner`, `rest`, `current` | `replayPending`: `replayRunning`, who awaits it, the rest of its listing, the record it is at |
| `link`, `connected`, `outbox`, `sent` | the connection, `mqttConnected`, publications the client keeps, how many the broker has |
| `received` | what the broker received, how often |
| `subscribed`, `handling`, `raw`, `dlq` | ingest's subscription and handlers, and the two topics it writes |
| `letters`, `recorderPos`, `recorderCommitted` | rows of `telemetry_dlq_messages`, by offset; the recorder's resolved position and committed offset |

Each await is a step, with its failure as another: a publish times out and stays
with the client, a file cannot be written, removed or written back. A replay that
nobody awaits and that throws ends the process (`UnhandledRejection`). File names
are a millisecond and a random id: `StampOf` gives the millisecond, and records of
the same one are in no order. `TelemetryDelivery` says of `pending`, `received` and
`evidence` only that a record is held until received or filed:
`Delivery == INSTANCE TelemetryDelivery WITH held <- pending, ...`.
`RecordLetter` inserts and resolves; an INSERT that throws leaves the letter to be
fetched again, and a repeated one finds its row. `RecorderRestart` resumes at the
committed offset or, without one, at the end of the topic. Dead letters that
telemetry-writer adds to the same topic would be recorded alike.

### AlertNotifications

One pass over an event: `ReadSubscriptions`, then per subscription
`InsertNotification`, `SendPush`, `MarkSent` or `MarkFailed`; then per contact
`CreateOrReuseSmsJob`, `SendSms`, `UpdateSmsJobResult`. `Throw` and `Restart` end a
pass at any await, and the event is read again. Which subscriptions and contacts
match is a level an event has to reach. Its configuration is chosen at the start.

### AlertStream, AlertPanel, AlertApp, AlertAlarm

`created_at` is the time an INSERT starts, in microseconds, and a row becomes
visible later (`BeginInsert`, `CommitInsert`). The cursor is a JavaScript `Date`
(`ToDate`): a poll finds the rows of its millisecond again and the client's
`seenEventIds` drop them. `AlertPanel` is the in-app alert of `Index.ets`: one on
display, a queue, a mute. `AlertApp` adds the page hidden and shown, tapped
notifications (`openPendingAlert` presents once before and once after awaiting the
list) and the end of a session and the next one:

| State | In the code |
|---|---|
| `account` | `in`; `leaving` while `logout` awaits the server; `cleared` while it awaits the caches without tokens; `out`, that is `loggedIn = false` |
| `starting` | a login or a restored session has yet to reach `startAlertStream` |
| `visible`, `pendingAlert` | `appVisible`, and the alert `openPendingAlert` loads the list for |
| `link` | the client: `off` (none), waiting or connected, or `dead`: it gave up for want of tokens and is still held |
| `handled` | history: the events handed to the panel in this session |

`logout` drops the client first and clears the panel last; in between the page can
be hidden and shown, which starts a client that nothing stops (`OnPageShow`,
`HasSession`). Logged out, it remembers the events it reads and drops them
(`Receive`); the next login finds it and keeps it (`StartAlertStream`). A session
that the server refuses, or that ends with a change of server, has its tokens
cleared at once (`InvalidateSession`). Two such ends at a time are left out.

`AlertAlarm` is what the sound service does with the panel's
calls of `start` and `stop`; no state of it comes back to the panel, so it is
checked by itself, under every sequence of calls.

### TelemetryWriter and SequencePolicy

One partition. `FetchBatch` takes any stretch of the log; `RefuseMalformed`,
`RefuseUnread`, `RefuseRepeat`, `RefuseOverBudget` and `Accept` are the outcomes
for one message; `FlushInsert` and `FlushDone` are the insert and everything after
it; `FlushIsolates` starts the insertion message by message
(`IsolateInsert`, `IsolateRefuse`, `IsolateDone`). The three maps live in
`eachBatch`, as in the code. No offset is ever committed: auto-commit is off
(`index.ts:573`) and `commitOffsetsIfNecessary` has neither an interval nor a
threshold to act on. With `fromBeginning: false` (`:512`) `Restart` therefore
resumes at the end of the log; the history `passed` keeps what it passes over,
the unread and the pending. `setting` is chosen at the start and fixes what is
produced, which faults occur, the size of a batch and the number of restarts.
`SequencePolicy` holds the pure rules of
`sequence-policy.ts`, and `BuildShadowState`, with the readings of a message
reduced to its identity: a shadow remembers which messages are merged in it.

### FieldAlarm

Of `alert_events` only what is read back is kept: the last event per alert and
the last event per key, a key being a pair of rule and device. The engine's
verdict on a message (`triggered`, `normal`, `band` of the hysteresis,
`missing`) is arbitrary. `EngineLoad` reads the last event; the decision
follows in a later step, so operators' events fall between. The actuator runs
one queue, in which `ReconcileFetch` and `ReconcileActs` are the two halves of
its reconciliation. All alerts are of severity high or critical.

### GatewayPort

The gateway is one thread, so what runs between two awaits is one step.
`current` is the command whose turn it is on `portCommandChains`, `window`
stands for `pendingCommandWindows`, `pollWindow` for
`activePollTelemetryWindows`, `records` for `internalPollCommands`. `air` holds
the commands nodes have received and may still answer, late and more than once.
Poll ids are reused from a small set; an older answer under the reused id is
dropped, as the code's ids are fresh. A frame is written at once or in chunks with
pauses (`pc = "chunks"`). A write that starts on a closed port throws; one whose
port closes in a pause goes on with an object that has been discarded: it fails
or it never calls back, and the chain of the port waits for it for ever
(`pc = "stuck"`), which only a restart of the gateway ends.

### FieldNode

| State | In the code |
|---|---|
| `frames` | what the receive buffer and the command queue of `xl01_driver.c` hold, in whole commands |
| `process`, `cmd`, `accepted` | where `DataProcessTask` is with a command: carried out, waiting for the UART, writing its answer, asleep for 100 ms after it |
| `enabled`, `manual`, `poll`, `quiet` | the globals of `landslide_main.c:110-113` |
| `upload` | where `DataUploadTask` is: asleep, asleep in the quiet window, building telemetry, waiting for the UART, writing |
| `naps` | its sleeps since the process task last did something |
| `rebooting` | the watchdog is armed and no longer fed |

What a task does between two sleeps is one step. The upload task has the lower
priority, so the process task may take up a command while telemetry is built; but
a task that neither sleeps nor waits runs on while the others sleep, so no sleep of
the process task ends meanwhile. The quiet window is counted in the sleeps of
200 ms that the upload task lowers it by: 6 after an answer, 14 where telemetry is
to follow. `WakesUp` relates these to the process task's own sleeps: at most one
ends in the 10 ms before it takes up a command or in the 100 ms it rests after an
answer, and any number (`MaxNaps`) while the answer is written. Preemption inside
the subtraction that lowers the window is left out. Whoever writes to the
UART holds its mutex and sleeps between chunks. Commands that are only answered
are of type `other`.
`Reboot` comes from a command or from `LinkIsStale`, three minutes without one.
The node is checked by itself; `GatewayPort` takes nodes as an environment that
may do more than this one.

## 3. The runs

Each run finishes within three minutes with two workers.

| Run | Instance | Distinct states | What it shows |
|---|---|---|---|
| `DeviceCommands_safety` | 2 commands for 1 device, 1 handler, 1 forwarded ack, 1 restart of dispatcher or receiver, errors everywhere, symmetric commands | 1 265 246 | types, rows, messages, answers and events agree; `AckTimeMeansAnswer`, `ImplementsLifecycle`, `OutcomeIsFinal` |
| `DeviceCommands_liveness` | 2 commands nobody answers, or 1 with two forwarded answers; scan limit 1, 1 restart | 158 008 | `SentResolves`, `QueuedAheadIsDispatched`, `ForwardedAckSettles` |
| `CommandPath_notified` | 2 commands of one type, each with a policy of its own or the default's, 1 restart of either reader, defaults changed | 382 034 | `OneNotificationPerCommand`, `NotificationIsTrue`, `DeservingEventIsNotified` |
| `TelemetryWriter_settles` | three settings: one boot in batches of 3 with a restart; repeats, a reboot, a smoke test, over budget, two devices, four faults; the same for one device with all five | 222 085 | `Accounted`, `ShadowKeepsReadings`, `ShadowIsBacked`, `RefusesOnlyRepeats`, `EveryMessageSettles` |
| `TelemetryWriter_outage` | one boot, outages | violated | finding 1 |
| `TelemetryUplink_delivery` | 2 records, limits 1 and 2, one mishap of the gateway and one of ingest, or a restart of the recorder | 422 848 | `TypeOK`, `PublishedWasReceived`, `OnceUnlessMishap`, `ImplementsDelivery`, `OrderIsKept`, `OnlyGapsLose`, `StoredIsKept` |
| `AlertNotifications_told` | 2 events, 2 users with 3 subscriptions, 2 contacts, every mode, 1 thrown error or restart | 512 204 | `OnePush`, `SentSmsIsFinal`, `EventReachesEveryone` |
| `AlertApp_shown` | 2 alerts, 3 events, 3 microseconds to the millisecond, a lost connection or a tap, a session ended and the next begun | 1 436 952 | `AlarmFollowsPanel`, `PanelAgrees`, `EventIsReceived` |
| `AlertAlarm_stops` | 2 streams under way | violated | finding 2 |
| `FieldNode_quiet` | 2 commands of any types, 2 sleeps while an answer is written | violated | finding 3 |
| `FieldAlarm_heard` | 1 key, 2 alerts, queue of 1, five faults | 219 216 | `TypeOK`, `OneOpenAlert`, `ActiveAlertIsHeard`, `SirenIsStopped` |
| `GatewayPort_polling` | 2 nodes, 1 command id delivered twice, 2 polls, serial faults, restarts | 14 654 | `TypeOK`, `PortIsExclusive`, `PortDrains`, `EveryNodeIsPolled` |

`TelemetryWriter`, `AlertNotifications` and `AlertApp` state a `TypeOK` too, which
held on these instances; it is not part of the runs, whose properties would have
to break first.

### Bounds, and why they are enough

- *Commands.* The rows only meet in the scan limit, the order of the topic and
  the dispatcher's position: two commands show every pairwise order. The races
  on one row (two handlers, the consumer, the timeout worker, a redelivery) need
  one command; a handler beside `MaxAckLog = 2` gives two different answers in
  flight with their copies in Kafka. The run of liveness keeps the two apart
  (`Focused`): two commands of which none is answered, or one that is; only steps of
  devices and callers, which owe nothing, are kept from happening. Two different
  times of acknowledgement with two commands (4.1 million states) hold as well. What
  the safety run checks here is also proved for every bound.
- *Telemetry.* Three messages: one pending, one refused in front of or behind
  it, one that repeats or restarts. `MaxLog` stops `Produce`, so the writer may
  come to rest: those runs turn the deadlock check off. The three settings of
  `TelemetryWriter_settles` trade faults for inputs, since all at once are too
  many: batches long enough to hold a refusal between two pending messages, every
  kind of input with the four faults that keep the batch, and all five faults for
  one device. The restart of the first passes over whatever is unread or pending.
- *Uplink.* Two records show a replay that is overtaken, one that ends early, and
  both orders of two records of one millisecond; a mishap is a failure of disk,
  link or process, and one suffices to repeat a record. Two mishaps with a limit
  of one (934 thousand states) and three records without the liveness (2.6
  million) hold as well, both without the recorder. `Bounded` keeps faults apart
  that are too many at once: Kafka refuses ingest only where the gateway has no
  mishap, the recorder restarts where nothing else fails, and offsets no restart
  will read are not committed.
- *Notifications.* Two events share the SMS jobs' window, two subscriptions share
  a user, two contacts follow one another in the loop. Two mishaps hold as well.
- *App.* Two alerts: one on display, one queued. Three events are two alerts and a
  resolution, or an alert, its resolution and its return. Three microseconds to the
  millisecond put two rows into the first, which every poll finds again, and one
  at the very start of the next. One session ends and another begins, so that a
  client started during the logout hears events nobody is shown and is found by
  the login. `MaxMishaps` keeps taps and lost connections apart; one of each (2.5
  million states) holds as well.
- *Events.* Two commands of one type, which may each have a policy of its own or
  leave it to the default of their type or of all; the faults are
  restarts, an event that is read first, and defaults changed between.
- *Alerts.* The second alert of a key is opened while the first is being
  resolved; each alert can be acknowledged and resolved by engine and operator.
  With two keys TLC needs more than five minutes; keys share only the siren, and
  silencing it for one alert while another is active is reached with one key,
  through actions left in the queue. `MaxQueue = 1` with the reconciliation gives
  two actions in flight.
- *Port.* Two nodes take turns; two arrivals put one command behind another;
  two poll ids let an answer to the previous poll arrive in the next one.

### Faults left out, and assumptions

- `FieldAlarm_heard` leaves out `"partial"` (frames sent, write reported as
  failed, `rk3568-alarm-actuator/src/index.ts:374`) and `"lost"` (frames lost
  without echo, `:163`; `requireEcho` is off by default). With either, TLC finds
  `ActiveAlertIsHeard` violated, with `"lost"` `SirenIsStopped` too: the
  actuator believes something else than the siren does, and the reconciliation
  compares alerts with the belief.
- `StaleOperator = FALSE` assumes operators' events land on open alerts. The API
  does not check it. With `StaleOperator = TRUE` an acknowledgement recorded on a
  resolved alert becomes the last event of its rule and device, the alert opened
  meanwhile is forgotten, and two are open at once.
- `TelemetryUplink` counts mishaps and interruptions of ingest, so that in the end
  broker, disk and Kafka work. It has one schema, which a record satisfies or not.
- `EventReachesEveryone` and `DeservingEventIsNotified` name what they leave out: a
  pending row of an interrupted pass, an event behind one without its record.
- In `GatewayPort` the serial driver calls back every write in the end, but for one
  whose port closed between two chunks: `PortDrains` names the chain stuck behind it
  and `EveryNodeIsPolled` assumes none. MQTT delivers finitely often: under an
  endless stream of commands the poller may never find the port idle.
- Postgres is configured for telemetry-writer, and the actuator is configured for
  the API (an unconfigured one is counted as having accepted).
- kafkajs 2.2.4 is modelled from how the services use it: with
  `fromBeginning: false` and no committed offset a group resumes at the end of
  the log; `commitOffsetsIfNecessary` without an interval or a threshold commits
  nothing, which `TelemetryWriter` relies on, while the modules of the other
  consumers, which call it too, let it commit or not;
  after an error in `eachBatch` the consumer fetches from its resolved position;
  `resolveOffset` assigns, so it can also move back.

### Fairness

Only what loops for ever in the code is fair. `DeviceCommands`: weak fairness of
the loops, strong fairness of the steps that an error can pre-empt (an error may
come, not at every attempt); none for callers of the API, devices or MQTT
handlers, whose errors are final. `TelemetryWriter`: weak fairness of fetching,
handling and flushing. `FieldAlarm`: the actuator's timer and the write after it
only; the siren is heard without help from the engine. `GatewayPort`: timers and
returning awaits; nothing of nodes, MQTT or the port's opening.
`TelemetryUplink`: the gateway's event loop and its replay timer, the MQTT client
with its broker, ingest's handlers and subscription, the
recorder's loop. `CommandPath`: each reader's
loop. `AlertNotifications`: the handler's loop. `AlertApp`: the server's poll
interval, the client's reconnection while there is a session, and its reading, and
nothing of the user or of a logout's awaits.

### Findings

1. `TelemetryWriter_outage`: a refused message resolves its offset although
   earlier ones are still pending; when ClickHouse is then unreachable at the end
   of the batch, these are discarded and never fetched again. `NothingSkipped` is
   violated.
2. `AlertAlarm_stops`: a `stop()` while `start()` awaits `pool.play` finds no stream
   to stop; the answer then records one that loops although the alert is muted or
   resolved. `SilentWhenStopped` is violated.
3. `FieldNode_quiet`: telemetry begins right after the answer to a command, which
   `config/app_config.h:54` wants it held back from: the quiet window is armed
   100 ms after the answer, and until then the upload task sees the window of an
   earlier command only. In the trace one command asks for telemetry, its window
   runs out while the process task rests after the answer to the next, and the
   telemetry goes out before that answer's own window is armed. Telemetry built
   before an answer that waits for the UART behind it does not look at the window
   again either. `HeldBackAfterAck` is violated.

Noted while modelling, with no run: the dispatcher leaves a failed message
unresolved "to allow retry after restart/backoff"
(`command-dispatcher/src/index.ts:235`), but subscribes with `fromBeginning: false`,
so that before the group's first commit a restart resumes past it; a repeat that
arrives after a later message of its boot has a smaller uptime, is taken for a
restart of the device (`sequence-policy.ts:80`) and is stored twice; an
acknowledgement recorded on a resolved alert hides the one opened meanwhile
(`rule-engine-worker/src/index.ts:499`, `api/src/routes/alerts.ts:398`); nobody publishes the event `COMMAND_SENT`
that the topic documentation lists; the compatibility route of the Huawei API
inserts commands with a `request_source` the table's CHECK refuses; the
firmware keeps no ids of commands it has done, so a redelivered command is
carried out twice; an internal poll answered after its window is published
northbound although such answers are configured not to be; telemetry-writer, which
never commits, loses on a restart whatever it has not read or not yet stored
(`telemetry-writer/src/index.ts:512`, `:573`); a serial port closed between two
chunks leaves a write that never calls back, behind which the commands of that port
wait for ever and the poller never finds it idle
(`field-gateway/src/index.ts:2363`, `:1208`, `:1687`); a client of the event stream
started while a logout awaits outlives it and is what the next login uses, although
it has seen and dropped the events it heard in between, or has died without tokens
and hears nothing until the page is hidden and shown (`Index.ets:434`, `:1057`).

## 4. What is proved

Every invariant and every action property a passing run checks, and every
refinement, is also a theorem: TLAPS proves it for every value of the constants
that satisfies the modules' ASSUMEs (finite sets of commands and keys, positive
times, natural bounds, disjoint ids, `Unset` not the state of a device). Each
follows the same argument: an invariant stronger than the property, checked by
TLC first, true of `Init`, kept by every action.

### Commands

- **`LifecycleSafety`, `LifecycleOutcomeIsFinal`** (CommandPathProofs): the
  abstract lifecycle announces at most one outcome per command, and the one its
  row holds; outcomes are final. `TypeOK /\ OneOutcomePerCommand /\
  EventMatchesRow` is inductive as it stands, because `OneOutcomePerCommand`
  speaks of events owed as well as of those published.
- **`PathOneNotification`, `PathNotificationIsTrue`** (CommandPathProofs): whatever
  is read again and whoever restarts, no command has two notifications, and the
  one it has says what its row says. `ReadersInv` adds that each event is
  notified once (`EventNotifiedOnce`: the notification's row is what the second
  reading finds) and that a silent one is not (`SilentIsNotNotified`). That no
  *command* has two then needs the lifecycle's invariant, that it has one
  outcome. The constants' `ConstantsOK` is not needed.
- **`TypeCorrect`** (DeviceCommandsProofs): positions stay within their topics.
  Needs `ConsumerBusy`: the Kafka consumer owes at most one event, that of the
  message at its position; otherwise announcing could step past the end.
- **`PipelineImplementsLifecycle`**: each action is an abstract step or a stutter.
  Needs `Visible`: a row exists exactly when its request has committed, and the
  dispatcher only holds visible rows, so that recording `sent` is always `Send`
  or nothing. **`PipelineSafety`**, **`PipelineEventMatchesRow`** and
  **`PipelineOutcomeIsFinal`** carry the abstract properties over.
- **`PipelineRowHasItsMessage`, `PipelineSentWasPublished`,
  `PipelineAckTimeMeansAnswer`**: add `Messages` (a request past its publish has
  its message) and `Taken` (the message being recorded, and every acknowledgement
  in a handler or in Kafka, is of a command the broker took).
- **`ServicesImplementPath`, `ServicesNotifyOnce`**: the detailed pipeline composed
  with the two readers of its event topic implements `CommandPath`, whose
  pipeline is only the abstract lifecycle; so its theorems hold of the services
  themselves, although TLC never explores that product.

### Telemetry

- **`WriterTypeCorrect`, `WriterAccounted`, `WriterShadowIsBacked`,
  `WriterRefusesOnlyRepeats`** (TelemetryWriterProofs): the first needs
  `FlushHasCause` (a flush in the middle of a batch follows a message accepted
  from it). The second needs `Progress` (what waits for the flush has
  been looked at, and is empty when no batch is in hand) and `Taken`
  (every message looked at is stored, filed, still in the writer's hands, or was
  passed over by a restart, which is the only way to be none of the others). The
  other two need `Sources`: the number of every stored state belongs to a message
  that was merged into it and is found in ClickHouse, and every number the writer
  remembers belongs to a message it has taken, so a message refused as a repeat
  has the number of one that was taken before it.
- **`WriterShadowKeepsReadings`**: what is stored and not refused, does not wait for
  the flush and was not passed over by a restart is in the shadow, if messages
  arrive in order and no setting loses shadow writes. Of what a batch has passed,
  each message was refused, waits for the flush, or is in the shadow (`Placed`), the
  maps hold all that the shadow and what waits do (`MapsKeep`), and an isolation
  keeps what it has put aside (`IsolationKeeps`). That is not inductive: it does not
  exclude a state *older* than the shadow, which the upsert's guard on `updated_at`
  does not write. What makes one harmless is `ShadowsKeep`: a shadow holds
  everything of its device that is older than itself, unless it was refused or
  passed over.
- **`SpoolTypeCorrect`, `SpoolPublishedWasReceived`, `SpoolImplementsDelivery`,
  `SpoolOrderIsKept`** (TelemetryUplinkProofs): whatever fails, a record the gateway
  has stored is held or was received, one filed as published was received, and of
  records of different milliseconds and whole handlers the earlier is received
  first. Needs `OutboxIsKept` (what the MQTT client still holds is on disk or has
  arrived), `AwaitsLast` (the publication awaited is its last), `RestIsPending`
  (nobody else removes what a listing still names) and, for the order, that
  whatever lies behind a record on disk, in the listing and in the outbox was
  stored after it.
- **`SpoolOnceUnlessMishap`**: while nothing fails a record is received once,
  whichever handlers, timers and connections ask for replays. `CalmInv` says what a
  calm run keeps: one publication awaited (`OneAwaited`), what is pending was not
  received, nor is anything received before it was stored or after it was filed.
- **`UplinkImplementsSpool`, `UplinkSpecIsUplink`**: the broker, ingest and the
  recorder leave the gateway alone, so all of the above holds of the composition
  the run checks. **`UplinkOnlyGapsLose`** adds ingest's own invariant: a message
  delivered is with a handler, in Kafka, among the dead letters, or missed in a
  step in which the service was stopped or lost its session.

### Alerts

- **`AlarmTypeCorrect`, `AlarmOneOpenAlert`** (FieldAlarmProofs): the second
  assumes `~StaleOperator`. Needs `OpenIsLatest` (an open alert is the alert of
  its key's last event, and that event is not a RESOLVE) and `SeenIsCurrent` (what
  the engine read still names that alert; if it read a closed one, none is open).
- **`TypeCorrect`, `NotifiedOnePush`, `NotifiedSentSmsIsFinal`**
  (AlertNotificationsProofs): a push needs `RowBeforePush` (no push without a row
  of its event and user) and `PushAtHand` (the one handler at work is
  the only one that may have pushed and not yet marked the row); an SMS recorded
  as sent is in nobody's hands any more.
- **`TypeCorrect`, `AppAlarmFollowsPanel`, `AppPanelAgrees`** (AlertAppProofs): that
  the panel shows what a session was handed and not resolved, in the first session
  and in every later one, is a fact about the stream first (`StreamInv`). What a
  session was handed its client has seen, whether it was started by the login or
  outlived the logout before (`handled \subseteq seen`), and between sessions
  nothing is handed over. To the millisecond, the server's cursor is not behind what was
  sent (`CursorAhead`) nor the client's last id behind what it has seen
  (`SeenBehind`); the wire is in the order of `created_at` (`WireInOrder`), and an
  alert's trigger is committed before any other event of it begins
  (`TriggerFirst`); so a trigger is received before its resolution, or the cursor
  has passed it for good (`TriggerBeforeResolve`).
  The proof found an exception the run's bounds were too small for: the cursor
  has milliseconds, `created_at` microseconds. A trigger at the start of a
  millisecond that commits late, its alert resolved within that millisecond and
  already received, is found again after a row with a lower id has moved the cursor
  back, and is received after its resolution. TLC shows it with three instants to
  the millisecond and five events. `PanelAgrees` excepts such alerts
  (`ResolvedAtOnce`); in practice the engine's evaluations are seconds apart.

### The serial port

- **`PortTypeCorrect`, `PortExclusive`** (GatewayPortProofs): no write begins
  while an answer is awaited or a polled node may be sending. The code looks at
  the telemetry window before the quiet wait and the flush, and not after; that
  this suffices needs `RecordIsCurrent` and `UnsentUnanswered`: between the look
  and the write only a poll can open that window, the only poll with a record is
  the current one, and nobody answers it before it is sent.

Model-checked only: the liveness properties (`SentResolves`,
`QueuedAheadIsDispatched`, `ForwardedAckSettles`, `DeservingEventIsNotified`,
`EveryMessageSettles`, `ActiveAlertIsHeard`, `SirenIsStopped`, `PortDrains`,
`EveryNodeIsPolled`, `StoredIsKept`, `EventReachesEveryone`, `EventIsReceived`),
because fairness and ENABLED are out of the prover's reach. `AlertAlarm` and
`FieldNode`, whose properties the code does not have, have no theorem.
Nothing proved uses a RECURSIVE operator or induction over data: what is folded
over a sequence (the messages merged into a shadow) is carried along step by step in
a set of the model (`from`) instead.

## 5. Not modelled, and why

Pure I/O and tooling (apps, hardware, scripts, cellular link, packages);
floating-point scoring (ai-prediction-worker, model libraries, edge risk agent);
reads and single-statement writes of the API; sensor drivers. Rule evaluation
over windows and missing data is a nondeterministic verdict in `FieldAlarm`.
Paging of the alert list (50 per page), rules edited or deactivated while an
alert is open, and alerts below severity high are abstracted away.

## 6. Plan

1. `FieldNode` composed with `GatewayPort` in place of `air`; sampling and the
   scheduler of a shared port.
2. What the field alarm promises without `~StaleOperator`, and what a node's answer
   means to the port, as theorems; the safety of the sound service outside the race
   of `AlertAlarm_stops`.
3. `HermesQueue`, presence recorder.
4. `libs/rules` as pure functions against a reference definition of the
   condition tree with missing data.

Hazards of the parts planned, at the lines where they bite, beyond those of
`PROJECT.json`:

| Where | What | For |
|---|---|---|
| `field-gateway/src/index.ts:2402` | the flush before a write discards what another node has sent | FieldNode |
| `field-gateway/src/index.ts:1859`, `:1955` | commands queue without a deadline; one whose write fails is dropped unanswered | FieldNode |
| `field-gateway/src/index.ts:2269` | the answer to a poll that arrives after its window is published northbound | GatewayPort |
| `fifo.c:73`, `xl01_driver.c:476`, `landslide_main.c:1333` | full queues cut frames and drop commands; a command delivered twice is done twice | FieldNode |
| `field-gateway/src/index.ts:898` | records stored side by side all pass the limit on pending files | TelemetrySpool |
| `ingest/src/index.ts:190` | a presence message is lost | presence recorder |
| `presence-recorder/src/index.ts:91` | a replayed batch puts back an older state | presence recorder |
| `hermes-action-queue.ts:152`, `:196` | requests may run in another order than they came; a forgotten id runs again | HermesQueue |
| `rk3568-alarm-actuator/src/index.ts:322`, `:361` | the status query writes outside the queue; one page of fifty alerts | FieldAlarm |
| `rule-engine-worker/src/index.ts:346`, `:686` | a rule edited or deactivated while its alert is open; an acknowledged missing alert hides a trigger | FieldAlarm |

## 7. Running it

    tlc -workers 2 -config DeviceCommands_safety.cfg MCDeviceCommands.tla
    tlapm DeviceCommandsProofs.tla

Each configuration `X_y.cfg` belongs to the module `MCX`, but `AlertAlarm_stops.cfg`
to `AlertAlarm` and `FieldNode_quiet.cfg` to `FieldNode`. Proofs take seconds to
a minute per module.
