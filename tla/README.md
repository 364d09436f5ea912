# A verification development for the NIDS project

TLA+ models of the network intrusion detection system in `api/`, `config/` and
`frontend/`: TLC checks them on small instances, and TLAPS proves the central
results for every instance. The source is the reference. A definition is
translated from the code it names in `PROJECT.json` ("map"), and a comment in
front of every property says which behaviour of the code it is about.

## 1. Inventory of the system

| Component | State it keeps | Operations | What is hard |
|---|---|---|---|
| Detection engine `api/detection_engine.py` | packet queue, worker tasks, active rules, suppression cache, counters | `submit_packet`, `start`, `stop`, `load_rules`, `_worker`, `_emit_event`, `_broadcast_metrics` | cancellation at an await, restart beside surviving tasks, a full queue, suppression across restarts |
| Broker client `api/message_broker.py` | two connections, a consumer thread, `_consumer_running` | `publish`, `start_consumer`, `stop_consumer`, `close` | connections that break at any moment, no publisher confirms, acknowledgement before the work |
| Event path `api/main.py` | callbacks of the engine, scheduled coroutines, `intrusion_events` | `lifespan`, `on_event_detected`, `_on_broker_event` | crash and shutdown with work in flight, redelivery, partial failure inside one try block |
| Notification worker `config/notifications_v2.py` | deduplication cache, queue of 1000, worker thread, `_shutdown` | `send_notification`, `_worker_loop`, `_start_worker`, `shutdown_notifications` | racing callers, retries into a full queue, death of the worker |
| Playbook engine `api/playbook_engine.py` | rows of `playbooks`, `playbook_executions`, event severities | `run_playbook`, `run_playbooks_for_event`, `run_playbook_for_case`, toggles and deletions | overlapping runs with stale copies, an exception half way |
| Threat intelligence `config/threat_intel.py` | TTL cache, Redis, blocklist sets, blocklist file | `check_ip`, `add_to_blocklist`, `reload_blocklists`, `start` | reload without a lock, a cache nothing invalidates |
| Database sessions `config/database_v2.py` | connections of the pool, their open transactions | `get_session`, `_create_engine`, `init_db` | one connection for all threads on SQLite, the pool's rollback on return |
| Case store `config/database_v2.py`, `api/main.py` | `intrusion_events`, `cases`, `case_events`, `case_notes` | CRUD, link and unlink, acknowledge, delete, each with an audit row of its own | orphaned links, row ids used again, an audit that raises after the change |
| Alert rules `config/database_v2.py`, `api/main.py` | `alert_rules`, the engine's copies | create, edit, life cycle, delete, `reload_rules` | rules the engine has not seen, or still has |
| Retention `config/database_v2.py` | `retention_policies`, `archived_at` | policy CRUD, preview, execute | which policy wins, archive and delete in one pass, tenants |
| WebSocket hub `api/websocket.py` | connection sets of two channels, one lock | connect, disconnect, broadcast | a send that blocks while the lock is held |
| Frontend socket `frontend/src/lib/websocket.ts` | two sockets, one retry counter, timers | connect, reconnect, handlers | two reconnection loops on one counter, a socket replaced while it connects |
| Async pipeline `config/async_pipeline.py` | queue, workers, `_running`, counters | `start`, `start_producer`, `enqueue_packet`, `stop` | lifecycle calls in an unusual order, a handler that raises |
| Signature detector `config/signature_detection_v2.py` | rate windows, suppression times, rules | `evaluate`, the rule evaluators, `add_rule`, `remove_rule` | boundaries of windows, trackers shared by rules |
| SLO and metrics `api/main.py` | histories of 720 samples | summary, trend | averages and availability at the edges |

A packet comes from the traffic simulator or a sensor (`submit_packet`); a worker
analyses it and emits an event; the event goes to `on_event_detected` directly,
or through RabbitMQ and the consumer thread; there it becomes a row, updates the
rule and queues the playbooks, which run in threads and may raise the severity,
block an address, or notify; notifications leave through a worker thread of
their own. The engine and the broker meet in `_emit_event` and `lifespan`, the
event path and the playbooks in the database, playbooks and notifications in
`send_notification`. At the end of `on_event_detected` the hub broadcasts the event
to the browsers, whose two sockets reconnect by themselves; analysts group events
into cases; maintenance archives and deletes them by policy. The async pipeline with
its signature detector is a second, older path from packets to the same table. The
program of the command line, `config/main.py`, uses neither of the two: it has the
earlier `signature_detection.py`, and is not modelled.

What makes each part correct: an accepted packet is analysed once; counters add
up; suppression separates events; an emitted event is stored or its loss can be
named; rows keep the order of emission; a notice is tried a bounded number of
times and never twice at once; playbook counters agree with the executions; a
case shows the events that were put into it; maintenance does what its preview
announced, and to no other tenant; a browser's feed has no gap within a socket and
recovers; a flood raises its rule's alarm; and what is stopped stays stopped. `PROJECT.json` "hazards" lists, line by line, what
could go wrong and which property would show it.

## 2. Modules

| Module | Models | Role |
|---|---|---|
| `PacketFate` | what `submit_packet` promises | abstract specification |
| `DetectionEngine` | the engine on asyncio (Python 3.11, as in the Dockerfile) | detailed specification, implements `PacketFate` |
| `NoticeFate` | what `send_notification` promises of an alert's notices | abstract specification |
| `AtomicCalls` | what `get_session` promises of the functions that use it | abstract specification |
| `...Proofs` | | theorems about the engine, delivery (the event path and the notification worker), the playbook engine, the database sessions, threat intelligence, the store (with retention), the live feed and the sensor: a module for each |
| `MessageBroker` | `RabbitMQBroker` and, external, the server | component, has no specification of its own |
| `EventPath` | `lifespan`, `on_event_detected`, `_on_broker_event` | composes the broker, the process and the table |
| `NotificationWorker` | the notification module | component, implements `NoticeFate` |
| `PlaybookEngine` | playbooks and their rows | component |
| `DatabaseSessions` | `get_session` over the pools of SQLite and PostgreSQL, and, external, SQLAlchemy's pool | component, implements `AtomicCalls` |
| `ThreatIntel` | lookups, caches, blocklist file and sets; Redis and AbuseIPDB external | component |
| `CaseStore` | events, cases, notes, links, rules with their endpoints, and the engine's copies of the rules | component |
| `Retention` | policies, preview and maintenance | extends `CaseStore`, works on its events |
| `WebSocketHub` | `ConnectionManager`, handlers of sockets, broadcasts | component, has no specification of its own |
| `FrontendSocket` | `NIDSWebSocket` in one browser | component, has no specification of its own |
| `LiveFeed` | the network between them | composes the hub and the browser |
| `SignatureDetector` | rules, rate windows, suppression | component, has no specification of its own |
| `AsyncPipeline` | `DetectionPipeline`: queue, producer, workers, life cycle | component, has no specification of its own |
| `Sensor` | what a worker does with a packet and its matches | composes the pipeline and the detector |
| `MC...` | | constants of the checked instances, for `engine`, `store` and `sensor` also their initial states and budgets |

### DetectionEngine

One action is one uninterrupted piece of event-loop code. A worker suspends in
`asyncio.wait_for(queue.get())` and in the callbacks of `_emit_event`, so `task`
distinguishes `waiting`, `holding` (its `get()` has finished, the worker has not
resumed), `emitting` and `finished`. `Cancel` is the delivery of `CancelledError`
to a waiting or emitting worker; a worker that holds a packet swallows it, as
`wait_for` of Python 3.11 does, and `Resume` removes the pending cancellation.
`_analyze_packet` has no await and is one step with its outcome chosen freely:
it raises, finds nothing, or a rule or the anomaly score detects. `lastSeen` is
the suppression cache and outlives `load_rules` and restarts as it does in the
code. `fate`, `emitted`, `failed` and `suppressed` are history variables. The
random term of the anomaly score and every rule's criteria are inside the free
choice.

### MessageBroker and EventPath

`publisher` says what the client knows and what is true of its connection:
`stale` is a connection whose server has gone, `wedged` an open connection with a
closed channel, which `_connect_publisher` never replaces. The consumer thread is
its loop (`loop`, `connecting`, `consuming`), which it may leave for good: the
`finally` clause of `_run` closes a connection that is still open, as it is when the
server has closed the channel only (`halfOpen`), with no try around it, and a `close()`
that raises ends the thread (`dead`). The server is external: a durable
FIFO queue that puts the unacknowledged message back at its head. Messages that
were only prefetched count as still queued. `EventPath` adds the process: the
scheduled coroutines, the table and the phases of `lifespan`. `OnEventDetected`
has three outcomes, for the row and what follows it in its try block may each
fail. In direct mode a worker runs it within its own step, up to its first await.

### NotificationWorker

Callers are threads, so a call of `send_notification` takes several steps: the
deduplication (atomic, under its lock), the look at the worker, the making of a thread,
the start of the thread the global names by then, and one `put_nowait` for each channel.
A caller may thus start the thread another has made; the other's `start()` then raises
RuntimeError out of `send_notification`, with the alert marked in the cache and no channel
queued. (What `Thread.start()` does inside, up to the thread being alive, is one step.) A
worker takes, loads the configuration, sends, backs off and puts back. `_load_config`
stands outside the try: `ConfigRaises` ends the worker with the task in its hand. A channel that is not enabled fails like one that does not answer, as the
chain of `elif` in `_worker_loop` has it.

`NoticeFate` knows none of this: notices are opened in the order of the channels,
tried within one budget, and end once. Under the refinement the abstract `fate` is the
history variable of the same name, `tries` are the attempts, and a notice may be opened
when those of the channels before it are (`EarlierNotices`). It says what the invariants
do not: a full queue leaves the notices of the first channels and no others, nothing is
tried after it has settled, and only a notice with tries left is ever dropped.

### PlaybookEngine

Every run is a thread, and every database call a transaction of its own, as on
PostgreSQL (`docker-compose.yml`); what SQLite does differently is in
`DatabaseSessions`. A run
holds copies of the playbooks with the counters it read (`todo`), a context per
playbook, and the tally it will write. `listing` is `list_playbooks()` in its
order of `updated_at`, which counting, editing and toggling change. Meanwhile
administrators create, change, toggle and delete playbooks and events. A new
playbook may get the id of a deleted one, as on SQLite (`NextId`), and a run
that still has the old one then writes its counters into the new row; `inherited`
names those ids, `contested` the playbooks two runs had read at one time. Events are
deleted and stored again likewise (`StoreEvent`): SQLite gives a deleted event's id to
the next one when no later event is left, and a run that holds the id writes to the new
event by it; `mistaken` names those events. An escalation may fail with its event there,
when the update raises; a commit whose answer is lost, which would leave the severity
written and the execution "failed", is left out. Of a
playbook's triggers only severities are modelled, for rules and event types are
compared in the same way.

### DatabaseSessions

A call of a database function is a short program of statements, `MCProgram` gives
four of them. `uncommitted` holds the rows written on each connection; `shared`
chooses between SQLite's StaticPool, one connection under the key `Static`, and a
connection for each call. SQLAlchemy is external: `commit` and `rollback` give the
connection back, and the pool then rolls back what it is given (`Return`), a
statement other threads can come before. `alone` is history.

`AtomicCalls` is what a caller of `get_session` may rely on: where sessions are isolated,
the rows of a call appear in one step, before it returns, whatever the order of
statements; where they share a connection, that no stored row is taken back. The mapping
is `isolated <- ~shared`, the rows as they are, and the answer of a call that is
unwinding an exception as none yet.

### ThreatIntel

`load[t]` is the place of a thread in `BlocklistLoader.load`, which clears and
refills the sets without a lock; the event loop and the playbooks' threads are the
threads. A lookup (`look`) exists on the loop only, and takes a step for each of
the two sets and one for AbuseIPDB. A verdict carries, as history, what its search
has `read`: sets nothing was loaded into, the file, the rest of a failed load, or
a state some load disturbed, that is, a load in progress when the search began or one
that cleared the sets before it had looked at both. A line that is appended between the
looks disturbs nothing by itself. `listed` is whether the file blocked the address when
the search began. Redis forgets keys in `Tick`; memory keeps an expired
verdict until it is asked for, as `TTLCache` does.

### CaseStore and Retention

Each endpoint is a step: it validates, calls one database function and then
`audit_action`, which may fail after the change is committed (`Audited`, bounded by
`MaxFaults`). A request that is refused changes nothing and is no step. `sqlite`
chooses the database of a behaviour: PostgreSQL numbers rows from a sequence and
enforces foreign keys; SQLite, opened without `PRAGMA foreign_keys` and without
AUTOINCREMENT, gives the greatest id in use plus one and checks nothing. An event
therefore carries `nth`, its number among all events ever stored, and a link of the
history `linked` remembers it. `loaded` is what the engine has of the rules since
the last `reload_rules` or start; rules carry names that are never used again, so
that an event under a rule can be compared with the rule that raised it.
`Retention` adds policies, in a sequence whose places stand for their ids, the
choice among them (`PolicyFor`: the policy, if one applies, that `Precedes` every other,
by the names of their scopes and then their ids, as the query sorts them), and one pass of maintenance that archives
and deletes. `ArchiveCandidates` and `DeleteCandidates` transcribe the preview, `Archived`
and `Deleted` the execution, which tests the same conditions a second time; the action
property `PreviewCarriedOut` compares an execution with the preview before it and the one
after. `hot_days` and `warm_days` are stored by the code and read by nothing.
`RetentionSpec` is the whole system, and what the theorems are about; `MCStore` lets a
behaviour have a part of its steps (section 3).

### WebSocketHub, FrontendSocket and LiveFeed

`waiting` is the queue of the one `asyncio.Lock`, its head being the task that has
it: a handler that joins or leaves, or a broadcast, which keeps the lock while it
sends. A send waits while the client has `Room` messages unread. The browser has a
socket for each channel and one counter of attempts; `Reconnect` is a timer that
fires, and a page that mounts calls `connect()` whenever it likes. `LiveFeed` adds
the network: a connection is lost, or stalls until the web server's ping times
out. Sockets are pairs of a channel and a number, and one that was used is not used
again (`IsNew`). A task at the lock carries the number its broadcast has among those of
its channel, so that `sent` can be compared with what the hub has begun.

### SignatureDetector, AsyncPipeline and Sensor

Evaluating a packet and handling its matches has no await, so it is one step of a
worker (`Sensor`). Times of packets seen are kept for SIGNATURE rules by rule and
source, and for RATE_LIMIT rules by source alone, as in the code, which is what
`FloodsAlert` is about. Whether a packet meets the criteria of a rule is part of
the packet; a PAYLOAD_MATCH rule never matches (section 5). Suppression remembers
the time of every match before any of them is handled. The pipeline's queue is its
depth; `hand` holds the workers that have taken a packet and not returned; a
cancellation that arrives then is swallowed, as in the engine. `Start` and `Stop`
are coroutines of different callers, and `stop` awaits its workers while others
run, another `stop` among them: `stoppers` has, for each call under way, the tasks it
waits for. Two loops of `start_producer` at once do what one does. `past` is the history of what was seen and what became of it. `Walk` is the loop of
`evaluate`, a function of the number of rules passed; `PruneWindow` keeps the end of an
ascending list of times, which is what the comprehension in the code leaves. A handler
that raises before or after it has stored its match ends the loop over the matches
(`MayStop`), whose order is that of the rules.

## 3. Runs

| Run | Instance | Shows |
|---|---|---|
| `engine` | 1 flow, 1 rule, crews of 2 workers of 4 tasks, queue of 2; 3 packets at one time, or 2 packets, clock to 2 and rules that change | type, no lost or duplicated packet, balanced counters, suppression, a complete crew, refinement of `PacketFate`; queued packets are served, a stopped engine comes to rest |
| `event_path` | 2 events, 3 faults, 2 process starts, both modes | every event accounted for, rows in order, a silent consumer after stop, the queue drains |
| `notify` | 2 alerts of one key, 2 channels, 2 threads, queue of 2, 1 retry | one place per notice, deduplication, notices settle, refinement of `NoticeFate` |
| `playbooks` | 2 playbooks, a third form to create, 3 ids, 1 event id, stored as MEDIUM or CRITICAL, 2 runs, 2 edits | counters against executions, severity not below the report |
| `playbook_severity` | 3 playbooks, 1 event, 2 runs | violation: a later playbook lowers the severity |
| `sessions` | 4 calls of 3 threads, 2 errors, both pools | calls all or nothing where they have a connection to themselves; ids of stored rows only; refinement of `AtomicCalls` |
| `sessions_sqlite` | the same, no error | violation: another session's rollback on return takes an execution's row |
| `threat_intel` | 1 address and 1 network, 2 playbook threads, 2 lines, clock to 4, 2 starts | overlapping loads end with the file's sets, searches miss nothing, clean verdicts expire |
| `store` | both databases; 3 events and a case, or 2 events and 2 rules, or 2 events of 2 tenants with 2 policies and 2 days | a case shows its own events; events under a wrong rule, or refused, are explained by stale rules; maintenance does what the dry run announced and leaves nothing to a second pass; tenants stay apart |
| `live_feed` | 1 browser, 3 sockets for events and 2 for metrics, 1 attempt, room for 1 message; 2 reports, or 2 faults, or 2 mounts | no gap within a socket, no socket lost in silence, lock and feed recover |
| `sensor` | 2 sources, 2 rules of 7 forms, 1 worker, 3 tasks, queue of 2, up to 5 packets | packets accounted for, floods raise alarms, silenced matches are explained |
| `sensor_rates` | the same | violation: two RATE_LIMIT rules count each other's packets |

Why the bounds are enough. The engine's hazards need a worker that survives a
stop and a second crew: four tasks for crews of two give a stop, a restart and a
survivor; three packets overflow a queue of two, or leave one in a hand; the clock
passes one suppression window, for which two packets are enough, and a flood needs no
clock (`budget` in `MCDetectionEngine`). On the event path, two events show
every reordering of a pair, and three faults allow a broken connection, a
database error and a crash in one behaviour; two starts give a redelivery to a
second process. Two alerts with two channels fill a queue of two while a worker
backs off, which is what a retry needs to fail, and two threads are what the race
in `_start_worker` can produce from two callers, the thread that is started twice and
the one nobody starts among them. Two runs are what a lost update
takes. On the shared connection two overlapping calls suffice for every
interference, and four give one of each kind of program. Two additions beside a
reload of the loop are three loads at once; a fourth only repeats one of them.
The terms (memory 1, Redis 2, lookup 1) add up to the clock's bound
of 4, so that a verdict that outlived them all would be seen, and two starts let
Redis survive the process. The bounds are constants or stand in guards:
`MaxTime`, `Tasks`, `Runs` and `Threads` as sets, `MaxFaults`, `MaxStarts`,
`MaxEdits`, `MaxErrors`, `MaxLines`, `LookupTime`, and the `Budgets` of `live_feed` and
`sensor`, sets of records of which a behaviour has one: what is reported, mounted,
edited or stopped in one behaviour together. They replace a single large bound, whose
product of everything with everything TLC could not visit.

Two edits delete a playbook during a run and create one under its id, or an event, and
store another, CRITICAL where the first was MEDIUM. Three events
use an id twice with an event in between; two rules are one that is deleted and one
that takes its id; two policies compete in every pair of scopes (three forms, and one that is disabled). A hub
with a stalled client needs two broadcasts, one to hold the lock and one to wait; a
browser loses both channels with one attempt, or one channel twice, and two pages
mount while a socket connects. Five packets exceed a limit of two in a window and
once more after it. A pipeline of one worker with three tasks starts, stops and
starts again beside a worker that has kept its packet; queue and hands hold three
packets, so that the fourth is dropped.

In `store` a behaviour has a focus, on cases, rules or retention, beside the
detection of events, which all share: the endpoints of one part do not read the
tables of another, except through events. Cases have maintenance that deletes
their events, by a policy that is there from the start. The audits of policies and of
maintenance always succeed in the focus on retention: `unaudited` counts failed ones and no
definition of `Retention` reads it; the audits that raise are those of the other foci.

Packets and tasks of `engine` are alike and come in one order, which takes the place of a
symmetry set: neither a submission nor a start is fair, so that this holds back nothing
liveness rests on. Symmetry is used in the
playbook run (runs are alike), in `store` (tenants) and in `sensor` (sources,
rules and tasks), never in a run with liveness properties. Deadlock
checking is off in every run: the clock, the packets and the names of tasks are
finite, and an idle system with all of them used up may stop.

The largest state space is that of `playbooks`, 2.8 million states; no run takes much
more than a minute.

Fairness. `engine` assumes what asyncio gives: some waiting getter of a
non-empty queue is served, timeouts fire, a cancellation is delivered, callbacks
return. Submitting, starting and stopping are never assumed. `event_path`
assumes that the consumer thread and the loop are scheduled and that a server
which is down comes back; `QueueDrains` leaves out a consumer thread that a raising
`close()` has ended, which nothing in the code brings back (section 5). `notify` assumes that worker threads run, that senders
time out (every one of them has a timeout), and that a call which began goes on.
`live_feed` assumes that the event loops of the process and of the browser run what is
ready, that reconnect timers fire, and that the web server closes a connection whose
client does not answer its pings (uvicorn's `ws_ping_timeout`); nothing has to be
reported, to fail or to be mounted, and `FeedRecovers` says what holds once
connections no longer fail.

## 4. Theorems

Eight modules hold proofs, each for every value of the constants its component's
assumption allows: any packets, messages, calls, playbooks, addresses or sockets, any
bound of a queue, a table or a clock. They follow one plan. An invariant `...Inv` is a
conjunction of named parts, the type among them; it holds initially; every action keeps
it, by a lemma per action; and it implies the property of the run. TLC checked every
strengthening on the run's instance before it was proved.

`DetectionEngineProofs`:

* `EngineTypeCorrect`: the type invariant with the queue's bound. It is inductive as it
  stands.
* `NoPacketLost`: `AcceptedInOnePlace`, inductive with the type invariant. The
  conjuncts about the queue without repetitions and the hands without sharing
  are there because `Dequeue` and `Resume` need them.
* `CrewAlwaysComplete`: a cancellation is only ever pending for a task `stop`
  has forgotten; with that, no listed worker ends while the engine runs.
* `SuppressionHolds`: strengthened by "the cache entry of a key is at least as
  late as every event emitted for it", so that a new event is compared with the
  latest one and is far enough from all.
* `BooksBalance`: the two sums, with lemmas on what one step does to the
  cardinality of the workers' hands and of the emitted set.
* `EngineKeepsPromise`: the refinement of `PacketFate`: initial states map to
  initial states and every action to an abstract action or a stutter. The
  invariant of `NoPacketLost` supplies that an analysed packet is not in the queue.

`DeliveryProofs`, about the event path:

* `EventTypeCorrect`, `EventsKept`, `ConsumerSilenced` rest on `PathInv`. `EventsAccounted`
  alone is not inductive: the thread acknowledges a message on the strength of having
  handed it over, so `HandAccounted` says that what was handed over is scheduled, stored
  or named among the losses, and that a message in hand without a connection is in the
  queue again. `Silenced` says that after `stop_consumer` a thread that was not caught in
  `_connect_consumer` has `_consumer_running` false and is on no way back to it.
* `RowsInOrder` rests on `OrderInv`: until a redelivery, the rows, the scheduled
  coroutines, the message in hand and the queue are in line, each part ahead of the
  next, in the order of emission. No part of the line can be left out: each hands its
  first element to the one before.

`DeliveryProofs`, about the notification worker:

* `NoticesInOnePlace` and `RetriesBudgeted` rest on `NotifyInv`: the open notices are
  those in the queue or in one hand, once (`Apart`, `Placed`); the attempts of a notice are
  the retries its task carries, plus one in a backoff (`Counted`); and a channel the caller
  has not come to has no notice yet (`Unput`), so that `put_nowait` adds a new one. They hold
  through all interleavings of the statements of `_start_worker`.
* `DedupKept`: the cache's entry of a key is as late as every alert let through under
  it, and an alert that was not checked has not been let through.
* `NoticesKeepPromise`: the refinement of `NoticeFate`. Of the invariants above it needs
  where a notice is and how often it was tried; new is `Opened`, that the channels before a
  caller's place have their notices.
* `NotifyTypeCorrect`. The assumption asks for at least one channel and none twice.

`DatabaseSessionsProofs`, from `SessionInv`:

* `CallsAreAtomic`: a row lies on the connection of its call, written by a statement it
  has passed (`RowsPlaced`); calls that are alone overlap no other (`Overlaps`); and a call
  with the connection to itself has all its rows committed, or on the connection, or gone
  together (`AllOrNothing`).
* `ReturnedIdsStored`: where a commit precedes the refresh, passing the refresh means
  that every row is stored (`RefreshedRows`), which stays true on the shared connection,
  for rollbacks do not reach what is stored.
* `SessionsKeepPromise`: the refinement of `AtomicCalls`, from the same invariant. On
  connections of their own a commit finds all rows of its call on the connection, or none
  (`AllOrNothing`), and no other's (`RowsPlaced`): it is `Store`, or changes nothing.
* `SessionTypeCorrect`. `ProgramAssumption` says what every function of
  `database_v2.py` has in common: it commits, writes nothing after its first commit, and
  returns after it.

`PlaybookEngineProofs`:

* `PlaybooksTypeCorrect`: with where a run is and what it then holds (`Placed`), and ids in
  use among the ids given (`IdsGiven`), so that `list_playbooks` names a playbook once.
* `SeverityFloor`: what a run has read of an event, and the severity its context carries,
  are not below the report (`ReadsReport`); a stale copy is thus harmless to this bound, as
  long as the event it was read from is the one under that id. The theorem excepts the
  events of which that is not true (`mistaken`), and those a test was aimed at.
* `CountersExplained`: the copies in the runs' hands matter as much as the rows.
  `CopiesCovered`: a copy and the tally added to it are covered by executions;
  `CopiesExact`: exactly so where no two runs had the playbook and none was aborted;
  `Sole`: an uncontested playbook is in one hand, once.
* The assumption asks for finitely many ids, which the choice of a new one needs.

`ThreatIntelProofs`:

* `SetsFollowFile` and, from it, `SearchesComplete`: what the sets and the loads in
  progress hold are lines of the file (`FromFile`), and a line in neither set is still to
  come: some load has yet to read the file, or has read it and not come to that line
  (`ToCome`). Overlapping loads keep this because a load that clears the sets has yet to
  read. `Passed` says that an address which the file blocked when an undisturbed search
  began stays in one of the sets until the search has looked there.
* `CleanVerdictsExpire`: an entry ends within a term of now (`Terms`), and a clean one
  within the terms counted from the listing (`CleanTerms`), since an undisturbed search
  finds nothing only of an address not listed when it began: one listed meanwhile has been
  listed for no longer than the lookup takes (`InTime`), hence `LookupTime` in the bound.
* `ThreatTypeCorrect`, with the date of every listing (`Dated`).

`StoreProofs`, about `RetentionSpec`, whose steps are those of `CaseStore` and `Retention`
together on both databases:

* `CasesShowTheirEvents`: every link has one the user made, for the event under its id
  or, on SQLite, for an earlier one (`LinksMeant`); on PostgreSQL no link dangles, through
  deletions by users and by maintenance (`NothingDangles`).
* `StaleRulesOnly`: on PostgreSQL a rule's name is its id, in the table and in the
  engine's copy (`NamesAreIds`), so that an id found there is the rule that raised the event.
* `TenantsStayApart`: from the types of the policies and the order `Precedes`.
* `MaintenanceAsAnnounced`: `PreviewCarriedOut`, an action property. The two transcriptions
  agree on the events of a state; and an event that stays is ruled by the same policy after
  the pass as before it (`SameRuling`), for a pass changes neither policies nor day nor
  what a policy looks at, so that what was archived is no candidate again. The events are
  finitely many, by their numbers.
* `StoreTypeCorrect`: with the numbers the database has given as bounds of all ids.

`LiveFeedProofs`, about the hub, the browser and the network at once:

* `LiveTypeCorrect`, from `LiveInv`: the line at the lock has each task once and
  where its handler or its broadcast says it is (`Orderly`); only a broadcast at its head
  sends (`HolderPosts`); a socket that has not joined has been sent nothing
  (`SocketsKnown`); and there are no more timers than closed sockets.
* `FeedHasNoGaps`, from `FeedInv`: the numbers of a channel's broadcasts in the line
  are the last of those called, without a gap and in order (`InLine`), and every socket
  the hub serves has had all up to the broadcast begun last, or to the one before while
  it waits for that one (`Fed`).
* `NoSocketForgotten`, from `KeptInv`.
* `HubAssumption` asks for finitely many sockets and for room for a message.

`SensorProofs`, about the pipeline and its detector together, for any rules, edits,
sources and arrival of packets:

* `PacketsKept`, from `PipelineInv`: the sums, with the cardinality of `hand`, and that a
  running pipeline which `start_producer` did not set up has a worker that waits.
* `FloodsRaiseAlarm` and `SilenceHasCause`, from `DetectorInv`, which relates what the
  detector keeps to the history of looks. `Counted`: the times of a SIGNATURE rule are those
  of its last looks, and every earlier one was older than the window then. `Backed`: a time
  in a list that RATE_LIMIT rules share stands for looks of theirs not before it. `Held`: a
  rule that has not matched finds its recent looks in the list, unless one with a shorter
  window cut it. `Limited`: a rule that shares the list with none never has more in it than
  its rate, hence the alarm that is never more than MEDIUM. `Quiet`: the suppression
  remembers the last match, and a chain without gaps leads from it to one that was reported.
* A packet walks through any number of rules in one step. The walk is a recursive function,
  and what it computes is proved by induction over the rules passed (`WalkInv`): after i
  rules the invariant holds for the times, the memory and the history as they are between
  two rules (`Between`). The library's induction theorems take a predicate as a parameter;
  `SetInduction` has a set in its place, from the well-foundedness of the naturals.
* `SensorTypeCorrect`, with the order of the rules as a sequence of their ids, each once
  (`WalkOrder`), through additions, replacements and removals.

The models were written for these proofs where that cost nothing: an order instead of
`SelectSeq` in `PolicyFor`, a quantified place instead of `SelectInSeq` in `Proceed`, a
predicate instead of CHOOSE in `NextId` and `IsNew`, because the provers installed know
nothing of those operators.

Only model-checked:

* All liveness (`QueueServed`, `StopCompletes`, `QueueDrains`, `NoticesSettle`,
  `FeedRecovers`): it needs fairness and ENABLED, which the prover does not handle.
* The three properties the violation runs refute, which are no theorems.

Every other property of the runs, invariant, action property or refinement, is stated by a
theorem. What a theorem adds to its run is the size: any number of rules, calls or sockets,
where the run has two or three.

Only proved: `SensorTypeOK`, `SessionTypeOK` and `PlaybookTypeOK`, which the invariants of
their components need, and `RetryBudget`, which the refinement of `NoticeFate` says at less length in its run.

## 5. Disagreements met while modelling

Shown by a run:

* `playbook_severity`: an escalation is skipped when the event "already" has an
  equal or higher severity, but the comparison uses a copy per playbook.
* `sessions_sqlite`: every execution of an action is documented as persisted; on
  SQLite a session of another thread may roll its row back, without an exception.
* `sensor_rates`: `ARCHITECTURE.md:22` has counters per rule and source. Those of RATE_LIMIT
  rules are per source (`signature_detection_v2.py:241`): each rule counts the packets the
  others have looked at, and matches too early. `FloodsAlert` therefore says of rules that
  share a list only what they do together, and of one that shares it with none what is
  documented.

Read off the models and the code, without a run of their own:

* A comment in `_emit_event` (`detection_engine.py:430`) calls the direct callbacks a
  fallback. With the broker enabled `lifespan` has removed them (`main.py:901`), and an
  event whose publish raised is gone; `EventsAccounted` has it among the named losses.
* Three retries are documented (`notifications_v2.py:13`); a full queue ends the worker
  thread in the middle of a retry (`:555`).
* `ThreatIntelEngine.start` says that it loads the blocklists on startup
  (`threat_intel.py:343`), and only tests call it: until the first addition or reload
  lookups run on empty sets.
* The rate of `detection_engine.py:336` is that of at most 1000 packets over ten
  seconds, never more than 100, and the default threshold is 100, compared strictly.
* On SQLite a case may show an event that was stored after the one it was made for had
  been deleted, and a run may write the counters of a deleted playbook into a new one.
* On SQLite a run that holds the id of a deleted event may lower the event stored under that
  id since, one reported CRITICAL to HIGH, say (`database_v2.py:1672`). `NeverBelowReport`
  excepts these events (`mistaken`) and is violated without the exception.
* A consumer thread may end for good: `close()` in the `finally` clause of `_run`
  (`message_broker.py:120`) is unguarded, and raises on a connection that goes meanwhile.
  The queue then fills until the process restarts; `QueueDrains` excepts that thread.
* Of two callers of `_start_worker`, one may start the thread the other made
  (`notifications_v2.py:566`), whose `start()` then raises RuntimeError: its alert is marked
  as seen, and no channel of it is queued.
* A configuration that cannot be parsed ends the notification worker (`:527`), at every
  notice again, for each caller starts a new one.
* `get_event` (`main.py:1148`) finds only the newest event; the timeline of
  `main.py:1696` is always empty.
* A HIGH event reaches the callbacks of a page twice, as "event" and as "alert"; alerts
  that are sent on the metrics channel are ignored there. The metrics socket stays
  closed once the attempts are used up, also when that of events has come back.
* The loader gives a RATE_LIMIT rule a window of 60 s where `RULE_ENGINE.md:92` says 1;
  its rate is counted over the window, not the second; without `rate_per_second` the
  comparison raises, and the rule never fires. `RULE_ENGINE.md` nests criteria under
  "criteria", and the loader reads them at the top level.
* PAYLOAD_MATCH compiles a pattern of text and searches bytes
  (`signature_detection_v2.py:283`): the TypeError is caught and the rule never matches,
  against `tests/test_signature_detection.py:306`.
* `stop()` of the pipeline clears `_workers` after awaiting them: workers of a `start()`
  in between are forgotten.
* The availability of `main.py:817` expects 12 samples a minute; the engine reports one
  a second, so an outage has to exceed four fifths of the time to be visible.

## 6. Plan

Modelling is done as far as section 7 says, and everything the runs check is proved but
liveness. What could be added:

1. An abstract feed, from which a reader gets a sequence without gaps between two
   connections, implemented by `LiveFeed`; `NoGaps` says the same of one socket.
2. A specification of a detector that keeps the whole history instead of lists of times,
   and `SignatureDetector` shown to implement it where no two RATE_LIMIT rules look at one
   source; `FloodsAlert` says as much, look by look, without the abstraction.

## 7. What is not modelled, and why

The anomaly scores and the trained model (floating point), the averages and the
trend of the SLO summary (floating point without interacting state), packet capture,
PCAP forensics and the network scanner (input and output), the traffic simulator (any
packet at any time replaces it), authentication, the dashboards and pages
(presentation), and the earlier generation of modules (`config/main.py`,
`config/database.py`, `config/notifications.py`, `config/signature_detection.py` and
others), which the API does not use. Of the modelled components, the configuration of
ticket providers, `remove_from_blocklist` and the rate limit of AbuseIPDB, the
pipeline's anomaly branch, pings, formats of messages and senders' protocols are left
out, as is a database commit that happens and whose answer is lost. `PROJECT.json` "components" has a line for each.
