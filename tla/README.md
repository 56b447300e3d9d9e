# ForgeSight, specified in TLA+

ForgeSight watches machines: simulators publish sensor readings over MQTT, an
ingestion service stores them in PostgreSQL, an alarm engine polls the table and
writes alarms, an API serves both over HTTP, WebSocket and gRPC, and a Qt
dashboard shows them and lets an operator acknowledge alarms, online or not.

Every process is small and mostly sequential. What is hard to get right is
between the steps and between the processes: a poll that must neither skip nor
repeat a row, a worker pool that must drain before the last flush, an
acknowledgement whose answer is lost, a list that arrives after the ack it does
not know of, a cache that writes later than it is told. The modules here model
these parts, TLC checks them on small instances, and TLAPS proves the most
important facts for every size.

Paths in this file are relative to `src/` unless they name a file of this
directory.

## 1. Inventory

| Component | State | Operations | Interacts with | Hard behaviour |
|---|---|---|---|---|
| Alarm engine (`alarm-engine/`) | `last_id` and the loaded rules in memory; `alarm_rules`, `alarms` | create tables, seed, load rules, find the cursor, poll (reload, fetch, evaluate, write, move the cursor) | reads `readings`; shares `alarm_rules` and `alarms` with the API | cursor against commits; crash and restart; failing queries; rules edited and deleted between two statements |
| Ingestion (`ingestion/`) | MQTT link, worker pool and its queue, `DbWriter` buffer, event bus | MQTT callback, submit, pop, write, publish, 500 ms flush, shutdown | MQTT broker, `readings`, optional Kafka producer | parallel workers, lost wakeups, drain on shutdown, failed batches |
| API live push (`api/src/api_server.cpp`, `ws_broadcaster.cpp`) | two poll cursors, subscribed MQTT bridge, set of WebSocket connections | start, 2 s tick, bridge callback, accept, close, stop | polls `readings`, `alarms`; pushes to dashboards | two sources of one reading; failed lookups; clients that join between polls |
| API routes (`api/src/rule_service.cpp`, `device_service.cpp`, `grpc_server.cpp`) | none of its own | rules, alarms, acks, devices, latest, history, locations | the tables; the gRPC server has its own connection | statements of two processes in between |
| Dashboard: acks (`ui/src/api_client.cpp`, `alarm_model.cpp`, `AlarmPanel.qml`, `Main.qml`, `ui/app/main.cpp`) | alarm rows, badge, queued ids, requests in flight, `pending_acks` file | click, bootstrap, flush on connect, list, push, answer, clear all, restart | API over several HTTP connections and one WebSocket | answers in any order, lost answers, two clients, restarts |
| Dashboard: `WsClient` | socket state, attempt counter, reconnect timer, two flags | connect, disconnect, set auto reconnect, socket signals, timer | the API's WebSocket | signals that arrive after a call that contradicts them; backoff |
| Dashboard: `OfflineCache` | pending states in memory, 500 ms timer, open SQLite file | save, flush, open, load, destruction | file system; `DeviceModel` | write-behind, file switch, crash, failing statements |
| Dashboard: request accounting (`ui/src/api_client.cpp`) | number of requests not answered, `busy` | GET, POST, rule mutation, history and rule loads | the busy indicator and `bootstrapFinished` | overlapping requests of different kinds share one counter |
| Dashboard: rule editor, history panel (`RuleEditorPanel.qml`, `HistoryPanel.qml`, `rule_model.cpp`, `history_model.cpp`) | rows of both models, form, spinners, kind of the last change, samples of the page | open, leave, load, refresh, edit, submit, delete, answers | `ApiClient` signals, the routes of rules and history | overlapping loads and changes; a page that is left while it loads |
| Dashboard: devices page (`device_model.cpp`, `device_filter_model.cpp`, `plant_scene_model.cpp`, `plant_layout.cpp`, `DeviceTreePanel.qml`) | rows with status and place, places of devices; per filter its rows, a cached count and a 0 ms timer; sections; the scene and a 250 ms timer | update of a row, of a device's place, search, recount, rebuild of sections and of the scene, selection | signals of the model reach the filters, the scene and QML bindings in one pass; timers later | cached counts, signals that name ranges of rows, late layouts |
| Dashboard: a live tile (`device_model.cpp`, `main.cpp`, `Main.qml`) | the value shown | push, list of latest readings | `WsClient`, both push sources of the API | values of three sources in any order; gaps when a link or the API comes back |
| Dashboard: zoom, statistics | none | pure functions | QML | rounding |
| Presentation, exports, start-up code, simulators, deployment, website | | | | none that a model reaches |

What makes each of them correct:

* **Alarm engine**: each committed reading above the starting cursor is
  evaluated once and in id order; a reading raises one alarm per rule at most; an
  alarm has a breach behind it, and an unchanged rule misses no breach; history
  is never replayed; deleting a rule keeps its alarms.
* **Ingestion**: each accepted reading is stored once or lost with a batch that
  failed; the pool loses no task and no wakeup; main returns only when nothing is
  left.
* **Live push**: every row once, in order, from the cursor on; nothing old.
* **Acks**: one winner per alarm; no ack vanishes; the screen never claims an
  ack the database does not hold; no alarm is missed by a link that comes up; a
  queue that empties.
* **WsClient**: a client that is wanted always has something that will connect
  it; one that is not stays down.
* **Live tile**: what the lists and the pushes of a link bring leaves no gap.
* **Devices page**: a filter holds what it accepts, its numbers agree with its rows when
  nothing is due, every place has a section in the end, the floor shows the rows, and nothing
  on it overlaps.
* **OfflineCache**: the last save of a key is in memory or in the file, until a
  crash or a failing statement; files are not mixed; writes are not put off.
* **Rule editor, history panel, `ApiClient`**: the shared counter returns to zero; a
  spinner ends with the call it stands for; a list that is not loading misses no rule; a
  downsampled history keeps its ends and its anomalies.

`PROJECT.json` lists each hazard with the line where it bites and the properties
that would catch it.

## 2. Modules

| Module | Models |
|---|---|
| `RuleEvaluator` | `rule_evaluator.cpp`, `types.cpp`: comparison, words, message templates (operators only) |
| `AlarmEngine` | main of the engine, `alarm_store.cpp`, `reading_cursor.cpp`, with the inserts of ingestion and the rule routes of the API as its environment |
| `OrderedPoll` | abstract: a consumer of a log with increasing ids |
| `AlarmEngineProperties`, `AlarmEngineProofs`, `MCAlarmEngine` | its properties, proofs, and the values TLC gives its constants |
| `ThreadPool` | `thread_pool.cpp` with its mutex and condition variable |
| `Ingestion` | main of ingestion, `db_writer.cpp`, `event_bus.cpp`, `kafka_producer.cpp`; EXTENDS `ThreadPool` and runs its steps |
| `WriteBehind` | abstract: a store that writes, or loses, what it was given |
| `IngestionProperties`, `IngestionProofs` | properties of the service; proofs of the pool and of the service |
| `Listings` | the rows of a statement with `ORDER BY` (an operator only); EXTENDED by `LivePush` and `ApiCalls` |
| `LivePush`, `LivePushProperties`, `LivePushProofs` | `api_server.cpp` start, tick, stop, MQTT bridge, connections; both poll queries; properties and proofs |
| `AckSync`, `AckSyncProperties` | one dashboard, the API and the alarms table around an acknowledgement |
| `AckSyncProofs` | its safety: truthful screen, one winner, no ack and no alarm lost |
| `WsClient` | `ws_client.cpp` |
| `LiveView`, `LiveViewProofs` | one tile: EXTENDS `WsClient` and adds the table, both push sources of `api_server.cpp`, the list of latest readings and `updateDevice`; proofs of both |
| `DeviceModel` | the rows of `device_model.cpp` and the signals they send |
| `DeviceFilter` | `device_filter_model.cpp` and the bindings of `DeviceTreePanel.qml`; EXTENDS `DeviceModel` |
| `PlantLayout` | the layout and the picking of `plant_layout.cpp` (operators only) |
| `PlantScene` | `plant_scene_model.cpp`, the floor view and the selection; EXTENDS `DeviceModel`, `PlantLayout` |
| `Devices`, `MCDevices`, `DevicesProofs` | the whole page: EXTENDS `DeviceFilter` and `PlantScene`; its instance and its proofs |
| `OfflineCache` | the device states of `offline_cache.cpp` |
| `OfflineCacheProofs` | what waits is held, and is of the open file |
| `ApiCalls` | the counter and busy flag of `api_client.cpp`, calls in flight, and the routes of rules and history (`rule_service.cpp`, `device_service.cpp`) |
| `RuleEditor`, `HistoryPanel` | the two pages of the dashboard that load and change lists, each EXTENDS `ApiCalls` |
| `Panels`, `PanelsProperties`, `PanelsProofs`, `MCPanels` | both pages on one client, with the visits of pages in `Main.qml`; properties; proofs; symmetry for TLC |

### How state and actions correspond to the code

**AlarmEngine.** `pc` is the place of the engine's only thread: start-up
(`create_tables`, `seedCheck`, `seed`, opening the reader, the initial load, the
cursor) and one poll (`reload`, `fetch`, `row`, `write`, back to `sleep`). A step
is one SQL statement or the code between two of them, so the API's statements
fall anywhere in between. `lastId` is `last_id` (`NoCursor` is `nullopt`),
`cached` the rules in force, `batch` the fetched rows, `todo` the alarms of one
row still to be written. A delete of a rule is the transaction `tx` with its
`UPDATE`, `DELETE` and commit; `held` are the rows whose lock makes an INSERT of
the engine wait. `fk` is the foreign key of an old or a migrated schema. Rows of
one id sequence become visible in id order: the table has one writer.

**ThreadPool and Ingestion.** A worker is between its test of the queue
(`check`), the wait set of the condition variable, and its task. `Submit` and
`NotifyOne` are two steps since the code unlocks before it notifies; likewise
`BeginShutdown` and `NotifyAll`. A notification wakes one sleeper or none;
wakeups may be spurious. `Ingestion` runs the pool's steps with what its tasks do:
`DbWriter::write` under its mutex, a step of its own, then the publication on the
bus. Main is `connect`, `check`, `sleep`, `disconnect`, the shutdown of the pool and
the destructors; its flush is a step with the same mutex. A message is valid or
one whose row PostgreSQL refuses (the timestamp is only checked to be a string), and a
malformed one never reaches the pool.

**LivePush.** `cursor` is `last_reading_id_` and `last_alarm_id_`; a tick looks
up missing cursors, reads the rows above them and broadcasts, all in one event of
the API's loop (each statement may fail by itself). A bridge message is posted to
that loop by the Paho thread and waits in `bridge` (the queued invocation). `polled` and
`direct` record what a connection was sent by the poll and by the bridge. `recent`
are the rows inside the catch-up window of the lookup.

**AckSync.** Requests and replies are counts per kind and content: the dashboard's
HTTP connections reorder both. A request that is lost and a reply that is lost look the same to the
dashboard. The link is known to the API before the dashboard has seen
`connected()`, and to the dashboard after the API has lost it; pushes are lost
with their socket. `OnConnected` is the handler of `main.cpp:119-135`: list first,
then the queued acks. `BadgeAfter` keeps the detail that `alarmAdded` is emitted
only for new rows and that the handler counts when the last of them was added.

**WsClient and LiveView.** The socket's state, whether its `disconnected` signal is still to
come, `attempt` and the timer; a step is a call or a signal. `LiveView` numbers the readings of one
sensor. `stored`, `bridged` and `polled` say how far the table, the subscription and the poll cursor
are; `wire` is what was pushed and not read, which dies with the connection; `list` is the state of
each request for `/api/readings/latest`, served and answered in any order. `Connected` is the
`on_connected` of the client with the bootstrap that `main.cpp:119-124` starts. `tile` takes whatever
arrives (`device_model.cpp:60-71`); `reached` remembers the newest value it ever had. `excused` marks
the connections whose list failed, or during which the API found its cursor only at a later tick:
what was stored before is then in neither.

**DeviceModel, DeviceFilter, PlantScene, Devices.** A row has a status and a place. A reading adds
or changes a row, and a place sets all rows of its device and announces the range from the first
to the last of them, which may cover rows of other devices. `filter` is one proxy: of the whole plant
(`everything`), of one section (it exists while its section does), or none, chosen in the initial state
since the proxies do not know of each other. `cached` and `dirty` are `critical_` and
`critical_dirty_`, `shown` what the bindings to `criticalCount` last evaluated to, `healthy` what
`healthyPct` last read; a binding is evaluated again only on the signal it depends on, in the
order in which `structural` emits and schedules (`device_filter_model.cpp:17-23`). The rows of one answer
(`readings`, `located`) come in one pass of the event loop: no timer fires and nobody clicks in between.
`scene` is the last layout; it is made at once when the floor opens, and 250 ms after a change
while it is open. Every length of the layout is a multiple of 0.6 and a sum of lengths is the number of such
units, so that positions are integers (coordinates in half units, since zones and cells are centred).

**OfflineCache.**
`pending` and the file hold, per key, which save they have seen last; time is
counted in ticks until the flush timer fires.

**ApiCalls, RuleEditor, HistoryPanel, Panels.** A call is a record with its request, its
stage (`sent`, `ok`, `failed`) and the answer; the API serves any call that is sent, one
statement or transaction at a time, and the dashboard receives any answer, so both
orders are free. A success of a rule change emits its signal before the counter is taken down: the
handler's reload raises `busy` first and `CountDown` may clear it, as in
`api_client.cpp:264-271`. `listed` counts how often the model shows a row, since
`add_rule` appends. A sample is its place in time. The loader of the history page destroys
it on leaving (`Main.qml:239-242`), so answers find no listener and `HistoryModel` keeps its rows;
the rules page is kept (`Main.qml:264-268`). Bootstraps and acks are only counted here: what
their answers do is in `AckSync`. A failed `SELECT` is a 200 with an empty list
(`rule_service.cpp:19-22`, `device_service.cpp:178-181`), and the `UPDATE` of a rule that is gone
is a success (`rule_service.cpp:126`).

## 3. Runs

| Run | Instance | Shows |
|---|---|---|
| `AlarmEngineCursor` | 3 readings, 2 starts, a failure, connection loss, fairness | `NoDuplicateAlarm`, `CursorSkipsNothing`, `NoHistoryReplay`, that the engine implements `OrderedPoll`, `ReadingsAreEvaluated` |
| `AlarmEngineRules` | 2 readings, 2 rules with edits and deletes, legacy key | `AlarmsInv` (types, `AlarmsAreJustified`), `SteadyRuleMissesNothing`, `AlarmsReferToRules`, `AlarmHistoryIsKept` |
| `IngestionPipeline` | 2 workers, 3 readings, batches of 2, a fault, an outage | `IngestionInv`, `NoLostWakeup` of the pool, `ReturnDrains`, `OvertakingIsBounded`, `LossIsBounded`, and that the service implements `WriteBehind` |
| `IngestionLive` | 2 workers, 2 readings, batches of 3, fairness | `ReadingsReachTheTable`, `SignalEndsTheProcess` |
| `LivePush` | a client, 2 readings, 1 alarm, 2 faults, fairness | `PushInv` (types and `EachRowOnceInOrder`), `NoHistoryReplay`, `EveryRowIsPassed` |
| `AckSync` | 1 alarm, 3 requests in flight, 1 fault, fairness | `AckInv` (types, `ScreenIsTruthful`, the same of what is under way, and `OneAckWins`), `NoAckVanishes`, `NoAlarmIsMissed`, `QueueForgetsOnlyRecorded`, `QueuedAcksAreRecorded`, `ScreenSettles` |
| `LiveView` | 6 attempts, 2 readings, 2 lists in flight, fairness | `ClientInv` (types, `KeepsTrying`, what timer and flags say of the socket), `NoReadingIsMissed`, `ConnectsInTheEnd` |
| `Devices` | 2 sensors of a device, 2 places, a search, 3 further rows in 3 zones, 3 columns, fairness | `DevicesInv` (types, `RowsFollowMeta`, `MembersFollowRows`, `NumbersAgree`), `CountsAreRight`, `FloorIsCurrent`, `SceneIsSound`, `SectionsAppear` |
| `OfflineCache` | 2 keys, 2 files, an interval of 2 ticks, 1 fault, fairness | `CacheInv` (types, `WaitingIsTimed`, `WaitingIsOfThisFile`), `SavesAreKept` (`LastSaveIsHeld`, `FilesAreNotMixed`), `WaitingIsWritten` |
| `Panels` | 2 contents of a rule (symmetric), 1 device, 3 readings with an anomaly, a cap of 1, 3 actions, 2 page changes, 1 mishap | `PanelsInv` (types, `CounterIsExact`, `NoStuckSpinner`, `PageFollowsModel`), `QuietListIsComplete`, `AnswersShowTheWindow` |
| `FindStuckAck`, `FindCriticalKpi` | the smallest that show it | violations, see below |

Each property is stated in words above its definition.

### Bounds, and why they are enough

* *Readings, tasks, alarms* (`MaxReadingId`, `MaxTasks`, `MaxReadings`, `MaxAlarms`): two
  make an order, three let a batch fill with one left over and exceed two workers, so that
  the queue fills while a worker sleeps. One alarm is enough
  for everything that concerns its ack; in `LivePush` both tables go through the same
  steps, so one of them has two rows.
* *Workers*: two race; the proofs of the pool cover any number.
* *Faults, outages, starts* (`MaxFaults`, `MaxOutages`, `MaxStarts`): a failure
  followed by another of the next statement is the longest pattern that any
  handler tells apart (`FindTransientLoad` and `LivePush` have both).
* *Requests in flight* (`MaxInFlight`): three allow two lists around an ack, or two
  acks and a list. A step that would send more is not taken.
* *Actions, visits, mishaps* (`MaxActions`, `MaxVisits`, `MaxMishaps`): an action is a call that
  the user or `main.cpp` makes; the reload after a change is not counted. With the first visit of
  the rules page two more remain, which is what two overlapping changes, a change
  and a refresh, or a bootstrap and an ack need. One mishap is a failed statement, a lost call or a
  change by another dashboard. The contents of rules are interchangeable: no action or property
  names one (only safety is checked under the symmetry).
* *Windows*: up to three rows under a cap of one are cut to the first, the anomaly and the newest.
* *Values*: a reading breaches a rule or does not, and comparison is also checked at
  the threshold itself; `RuleEvaluator` is exact for integers.
* `MaxAttempts`: the delay reaches its cap of 30 s at the fifth attempt; a sixth shows that it
  stays there.
* *Lists in flight* (`Requests`): two, so that the list of one connection is answered after that of
  the next; a client connects only while one is free.
* *Rows of the page*: two rows make a burst, so that the second comes while a recount is due, and a
  range; one device with both lets a place move all rows out of a section. The rows of `Others`
  make one floor wider than the other, with another plant beside them. Two searches, of everything
  and of one row, take a row out and back in.

Faults are finite in the liveness runs because the code retries without limit and
promises nothing about a service that fails for ever; a lost libpq connection, a
crash and a cache that did not open are named as excuses in the property.

### Violations found

Each configuration named `Find…` checks one statement of a comment, help text or
README, which the code does not keep: TLC prints a behaviour that breaks it. The
first two are runs of `PROJECT.json`; the others are there to be run by hand,
`tlc -config FindX.cfg M` with M `MCAlarmEngine` (`FindTransientLoad`, `FindSeed`,
`FindDetach`), `IngestionProperties` (`FindKafkaOrder`), `LivePushProperties` (`FindSentTwice`),
`AckSyncProperties` (`FindAcks`), `LiveView` (`FindTile`), `MCDevices` (`FindLabel`) or `MCPanels`
(`FindPanels`). `FindAcks`, `FindSeed` and `FindPanels` hold several statements, of which one at a
time is to be left uncommented.

| Run | Statement | What happens |
|---|---|---|
| `FindStuckAck` | queued acks are flushed once the API is reachable | an ack that another client anticipated is answered with 404 and is sent again for ever |
| `FindCriticalKpi` | a KPI strip covers the critical count | the second new row of an answer lets `healthyPct` refresh the cached count without a signal; the recount finds nothing changed, and the CRITICAL number stays that of before the answer until the count changes again |
| `FindTransientLoad` | a failed load keeps the previous rules | the first load answers an empty list when its query fails, and the next failure keeps that |
| `FindKafkaOrder` | a partition stays ordered per device | two workers produce two readings of a device in either order |
| `FindSeed`, `SeedsOnlyIfEmpty` | `--seed` inserts default rules *if empty* | a failed query is taken for an empty table |
| `FindSeed`, `ConfiguredMessageIsUsed` (an `INVARIANT`) | the generated wording is a fallback | the message template of a rule is not read from the table |
| `FindDetach` | detaching the history works under either schema | an alarm committed between the `UPDATE` and the `DELETE` makes the latter fail |
| `FindSentTwice` | a row already delivered is not sent again | the bridge and the poll both send a reading |
| `FindAcks`, `BadgePulsesWhileUnacked` | the KPI pulses while anything is unacknowledged | a known row that an older push turns back is not counted |
| `FindAcks`, `QueuedRowIsQueued` | a queued id is queued for sync | a cache that did not open queues nothing, and the row says it did |
| `FindPanels`, `SamplesAreInTimeOrder` | the samples are in time order, which the binary search of the crosshair needs (`HistoryPanel.qml:56-57`) | two loads overlap and the second answer is appended to the first |
| `FindPanels`, `ResultIsReportedCorrectly` | the result of a change is reported correctly (`RuleEditorPanel.qml:16-17`) | a create is submitted while a delete is in flight; the delete is announced as "Rule created." |
| `FindPanels`, `RefetchReplaces` | a refetch replaces rather than appends (`RuleEditorPanel.qml:36-37`) | a change is answered while an older load is in flight; both lists are appended |
| `FindPanels`, `BootstrapIsReported` | a bootstrap that has ended is reported | an ack or a rule change takes the counter to zero, without the signal |
| `FindPanels`, `PageKnowsItsSamples` | the page knows the samples it counts | a page that is left and visited again shows the count of the model, whose samples it never received |
| `FindTile` | a tile shows the latest value of its sensor | the bridge hands a reading on before the poll, or a list served earlier arrives after a push: the older value stays |
| `FindLabel` | the label is that of the selected device | the device is placed on another floor; its index, bound to the key alone, now is its neighbour's |

## 4. Fairness

* `AlarmEngine`: the engine's one thread runs while its process lives, and
  PostgreSQL ends a transaction (a rule's delete) that holds a lock.
* `ThreadPool`, `Ingestion`: a thread that can run does; tasks return; a thread past
  its unlock reaches its notify. Submitting is never required.
* `LivePush`: the Qt event loop runs the 2 s timer and the posted messages.
* `AckSync`: the API takes every request that waits, and the dashboard handles
  answers and pushes one after the other, in any order. The link is not assumed to be good: `KeepsReconnecting` (the link comes up again
  and again and the dashboard is not restarted for ever) is a premise of the
  two properties that need it.
* `WsClient`, `LiveView`: an armed timer fires, an attempt ends, a reachable server is
  reached, and a request ends, with or without an answer. `ConnectsInTheEnd` assumes a server that
  stays reachable. Nothing obliges the poll, the bridge or the table.
* `Devices`: a pass of the event loop ends (its rows are finitely many), and the 2 s timer of the sections has
  its turn between passes, however many readings keep arriving: strong fairness, since it is
  disabled within a pass.
* `OfflineCache`: time passes and a timer that is due fires.
* `Panels`: safety only. `Rest` stands for a dashboard that waits for its user, so that a deadlock
  would be a call that nothing can answer.

## 5. Proofs

All constants are arbitrary within the named assumptions of each module
(`AlarmEngine`, `PoolAssumption` and their like: numbers are naturals, there is at
least one worker, sets of workers are finite). TLC evaluates these on every run.

* `IngestionProofs!PoolInvariant`. `PoolInv` is inductive: the queue is exactly the
  submitted tasks that were not popped, in order (`QueueIsFifo`); each popped
  task has run or is in one worker's hands (`TasksAreConserved`); a worker exits only
  with the queue empty after shutdown (`JoinWaitsForNoSleeper`). The last two give
  `ShutdownDrains` when every worker has exited.
* `IngestionProofs!NoWakeupIsLost`, `ServiceLosesNoWakeup`. `NoLostWakeup` counts: while somebody
  sleeps, queued tasks ≤ pending notifications + workers about to look. A submit adds one to both
  sides; a notification turns into an awake worker; a worker sleeps only when the queue is
  empty. The proof needs cardinalities of the set of checking workers. Each step of the service is
  one of the pool or leaves the pool alone (`StepsOfThePool`), so the service keeps it as well.
* `IngestionProofs!IngestionInvariant`, `MainReturnsDrained`. Each accepted reading is
  unwritten, buffered, stored or failed, and in one of these (`EachReadingHasOnePlace`),
  with the pool's invariant below it and `MainOrder` above; drained on return follows from
  `ShutdownDrains` and the flush of the destructor.
* `IngestionProofs!OvertakingHasABound`, for any number of workers. When a reading is published, the
  earlier ones that are not are in the hands of other workers (tasks are popped in order), one each:
  an injection into `Workers \ {w}`. Later steps only shrink the set.
* `IngestionProofs!LossHasABound`. Not inductive in terms of what was submitted: `LossIsPaid` counts the
  refused readings among the *failed* ones. A batch of at most `BatchSize` fails on account of a
  statement or of a refused reading in it, and no reading fails twice, so each payment is new.
* `IngestionProofs!IngestionRefinesWriteBehind`. Under the mapping *pending = accepted and not
  stored nor failed*, an insert moves a batch in one abstract step and everything else is an
  acceptance or a stutter.
* `AlarmEngineProofs!TypeCorrect`, `PollInvariant`, `AtMostOneAlarm`,
  `NothingIsSkipped`. The two promises are not inductive: `PollInv` adds that ids are serial,
  that the fetched batch is exactly what follows the cursor (`BatchIsNext`; a row
  that commits later has a greater id), that nothing evaluated lies above
  the cursor and that alarms still to be written for a row have not been.
* `AlarmEngineProofs!EngineRefinesOrderedPoll`. The abstract cursor is the id of the row being
  evaluated, or `last_id`: evaluation is the abstract delivery, moving `last_id`
  afterwards a stutter, a start or end of the process an abstract reset.
* `AckSyncProofs!ScreenNeverLies` (with `OneAckWins`), `AcksAreKept`, `QueueForgets`,
  `NothingIsMissed`, for any number of alarms, requests in flight and faults. The table only
  grows (`TableGrows`) and every reply under way was read from it (`RepliesOrigin`), so
  what arrives late is old and never false. `WinnersAreRecorded` ties the answers with 200
  to the rows of the table. `NoAlarmIsMissed` is not inductive: `NoGap` says of each
  alarm that was broadcast where it is while the list of the link has not come (the request,
  its answer, a push, the rows), and needs `TableIsSerial`, without which a poll could step
  over an id.
* `OfflineCacheProofs!CacheInvariant`, `NoSaveIsForgotten`, for any keys,
  files, delays and faults. `LastSaveIsHeld` and `FilesAreNotMixed` are not inductive: a write
  could put into the open file a state that was saved for another. `WaitingIsOfThisFile`
  excludes it: what waits is its key's last save, and was saved to the open file. One lemma
  covers the writing transaction, whichever of its two outcomes it has; flush, open, load
  and exit use it.

* `AlarmEngineProofs!AlarmsAreSound`, `ReferencesAreSound`. `TodoFires` says that the alarms still to be
  written for a row are those of rules of its stream that it breaches (`EvaluateMeansBreached` takes the
  comparison apart). For the references, ids of rules are not used twice (`RuleIdsPast`), and a delete that
  has removed its row holds every alarm that refers to it (`DeleteHolds`), so the commit detaches them all.
* `AlarmEngineProofs!HistoryIsNotReplayed`, `HistoryIsKept`, `NoBreachIsMissed`. The first adds to
  `PollInv` that the readings from before the start are at or below the cursor once it is read
  (`BeforeIsBehind`). The last rests on `SteadyInv`: an unchanged rule is among the cached ones
  (`SteadyIsLoaded`), for the row in hand its alarm is written, dropped or still to be written
  (`RowIsCovered`), and for the rows passed it is written or dropped (`PassedIsRaised`). `BatchIsNext`
  is what lets the cursor move on: no committed row lies between it and the row in hand.
* `DevicesProofs!PageInvariant`, `NumbersAreRight`, `FloorFollowsRows`, for any keys, devices, places and
  searches. `DevicesInv` is inductive: the rows of a filter change only in the range that was announced,
  and the range covers every row of the device (`RowsOf`), so rows outside it would be accepted as before
  (`MembersFollowRows`). For the count, whatever changes a row of the filter makes it dirty and starts the
  timer; only a reader makes it clean, and then it is right. `FloorIsCurrent` holds with
  `RowsFollowMeta`: a change of places that announces nothing changes no row.
* `LiveViewProofs!ClientInvariant`, `ClientOfTile`, `NothingIsMissed`, for any number of readings and requests.
  `NoReadingIsMissed` is not inductive: `NothingIsMissing` says where the newest reading below the poll cursor
  is while the connection lasts: shown, on the wire, in an answer, or in a list that is still to be served.

* `LivePushProofs!PushIsExact`, `NothingOldIsPushed`, for any clients and numbers of rows and faults.
  `EachRowOnceInOrder` needs that cursors lie behind the next id (`TablesGrow`: else a row could commit
  below a cursor and be skipped) and that a client without a first cursor was sent nothing (`LogsBegin`).
  What a tick appends to a client's log is the ordered list of the rows between two cursors, and
  two such lists in a row are one (lemmas on `InOrder`). `OutsideIsPassed` is what keeps history out: what
  lay before the window is at or below every cursor and every client's start.
* `PanelsProofs!NoCallIsForgotten`, `NoRuleIsMissing`, for any contents, numbers of calls and orders of
  answers. Names of calls are reused, so that the counter is compared with a set of calls; `RulesAreCounted`
  bounds the ids by the creates that were sent. `QuietListIsComplete` is not inductive: `ListIsOnItsWay` says
  of a rule that is not on the screen that a change is in flight (whose answer asks for the list again), or
  a list is still to be read, or an answer holds the rule. A `clear` that follows a load cannot lose it.
* `PanelsProofs!HistoryShowsItsWindow`, an action property, for any cap and any number of rows: an answer is the
  ordered list of the rows kept; the stride spans the window (`StrideSpans`), it keeps at most `MaxPoints` rows
  (`StrideKeepsFew`: one quotient each), and between two neighbours lies less than a stride (`NoneBetween`).
* `DevicesProofs!FloorIsSound`, for any number of plants, floors, devices and columns. A floor of *n* devices
  has room for them (`RowsAre`), each rank has a cell of its own (`CellOfRank`), a plant begins behind the one
  before it and a floor behind the one before (`LeftIs`, `NearIs`, by `TotalGrows`: a sum over more
  summands is longer by each of them), and a finite set of numbers has a Max and a Min (`MaxIsThere`: a
  smallest subset without one would lose an element and still have none). `LayoutOfAPlan` puts these together,
  and `FloorIsCurrent` says which plan the scene shows.

Every invariant and action property of the passing runs is a theorem. Model-checked only: the liveness
properties `ReadingsAreEvaluated`, `ReadingsReachTheTable`, `SignalEndsTheProcess`, `EveryRowIsPassed`,
`QueuedAcksAreRecorded`, `ScreenSettles`, `ConnectsInTheEnd`, `SectionsAppear` and `WaitingIsWritten` (the prover does
not reason about fairness or ENABLED). Induction over data, hence what a recursive definition computes, is
out of its reach as well; the models proved about use sets and cardinalities where a sum or a
list would be recursive (`Total`, `InOrder`).

## 6. Assumptions about code that is not here

* Paho delivers callbacks one at a time and none after `disconnect()->wait()`;
  an automatic reconnect uses the clean session of the first one, so nothing is subscribed
  to after it; `disconnect()` throws when not connected.
* libpq never restores a connection that broke.
* `QWebSocket` emits `disconnected()` for attempts that fail as well.
* Timers of one event loop do not fire before they are due; posted calls run in the order
  they were posted.
* One process writes each table, so ids become visible in order
  (`api/src/device_service.cpp` says the same of ingestion).
* Fewer than 200 alarms: `list_alarms` cuts its answer there.
* `--workers` is at least 1.

## 7. Not modelled

The parts listed as `not_modelled` in `PROJECT.json`: presentation, exports, start-up
code, simulators, deployment, the website, statistics and zoom (floating-point arithmetic on one
series). Inside modelled parts: authorisation,
JSON, logging, decimals (rules compare integers here; `std::to_string` keeps six
digits), the live / stale / offline label of `Main.qml` (it reads the clock), heights of pillars and the
2.5D view, librdkafka's queue, the DDL besides the foreign key.

## 8. Plan

Built first, in this order: the alarm engine (a missed or repeated alarm is the worst
the system can do), ingestion, acknowledgements, live push, reconnection, the cache.

Then the rule and history pages with the client they share.

Then the devices page with its filters and its floor, and the composition of a live tile with the
reconnecting client and the push of the API.

Left: a composition of `Ingestion`'s table with `AlarmEngine` and `LivePush`, from a message to an alarm on
a screen.
