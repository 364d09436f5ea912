-------------------------- MODULE DetectionEngine --------------------------
(***************************************************************************)
(* The real-time detection engine, api/detection_engine.py, on the         *)
(* asyncio of the Python the images pin (3.11): a bounded packet queue,    *)
(* worker tasks, the suppression cache and the metrics counters.           *)
(*                                                                         *)
(* One action is one uninterrupted piece of event-loop code.  A worker     *)
(* suspends in two places only: in asyncio.wait_for(queue.get()), and in   *)
(* the callbacks _emit_event awaits.  wait_for runs get() in a task of its *)
(* own, so a packet can have left the queue before its worker resumes      *)
(* ("holding"); a cancellation that arrives then is swallowed, because     *)
(* wait_for returns the result of a get() that has finished.               *)
(***************************************************************************)
EXTENDS Integers, Sequences, FiniteSets

CONSTANTS
  Packets,      (* the packets that may be submitted                        *)
  Flows,        (* <<src_ip, dst_ip, protocol>> triples, as far as told apart *)
  FlowOf,       (* the flow of each packet                                  *)
  Rules,        (* the alert rules of the database                          *)
  Window,       (* suppression window of each rule; 0 is "not suppressed"   *)
  ML,           (* stands for the anomaly score: a detection with no rule_id *)
  Tasks,        (* names for the worker tasks start() may ever create       *)
  WorkerCount,  (* worker_count                                             *)
  QueueCap,     (* max_queue_size                                           *)
  MaxTime,      (* bound on the clock                                       *)
  NoPacket      (* an empty hand                                            *)

ASSUME EngineAssumption ==
  /\ FlowOf \in [Packets -> Flows]
  /\ Window \in [Rules -> Nat]
  /\ ML \notin Rules
  /\ IsFiniteSet(Tasks)
  /\ IsFiniteSet(Packets)
  /\ WorkerCount \in Nat \ {0}
  /\ QueueCap \in Nat \ {0}
  /\ MaxTime \in Nat \ {0}
  /\ NoPacket \notin Packets

VARIABLES
  running,      (* self.running                                             *)
  queue,        (* self.packet_queue                                        *)
  workers,      (* self._workers: the tasks stop() will cancel              *)
  task,         (* where each worker task is                                *)
  hand,         (* the packet a worker has taken out of the queue           *)
  cancelled,    (* tasks with an undelivered cancel()                       *)
  tickers,      (* how many _broadcast_metrics tasks are alive              *)
  rules,        (* self._rules                                              *)
  lastSeen,     (* self._suppression_cache; 0 when the key is absent        *)
  clock,        (* time.time(), in units of the suppression windows         *)
  metrics,      (* the counters of self.metrics                             *)
  fate,         (* history: what became of each packet                      *)
  emitted,      (* history: the events that got past suppression            *)
  failed,       (* history: analyses that raised                            *)
  suppressed    (* history: detections that suppression swallowed           *)

engineVars == <<running, queue, workers, task, hand, cancelled, tickers, rules,
                lastSeen, clock, metrics, fate, emitted, failed, suppressed>>

Fates    == {"unsent", "rejected", "accepted", "analysed"}
Stages   == {"unborn", "waiting", "holding", "emitting", "finished"}
Keys     == Rules \X Flows
Events   == [pkt : Packets, by : Rules \cup {ML}, at : 1..MaxTime]
Metrics  == [received : Nat, dropped : Nat, processed : Nat, events : Nat, depth : Nat]
Holders  == {t \in Tasks : task[t] = "holding"}
Waiting  == {queue[i] : i \in DOMAIN queue}
----------------------------------------------------------------------------
(* DetectionEngine.__init__: no rule is loaded and no worker runs. *)
EngineInit ==
  /\ running = FALSE
  /\ queue = <<>>
  /\ workers = {}
  /\ task = [t \in Tasks |-> "unborn"]
  /\ hand = [t \in Tasks |-> NoPacket]
  /\ cancelled = {}
  /\ tickers = 0
  /\ rules = {}
  /\ lastSeen = [k \in Keys |-> 0]
  /\ clock = 1
  /\ metrics = [received |-> 0, dropped |-> 0, processed |-> 0, events |-> 0, depth |-> 0]
  /\ fate = [p \in Packets |-> "unsent"]
  /\ emitted = {}
  /\ failed = 0
  /\ suppressed = 0

(* load_rules keeps what is enabled and in production: any subset. *)
LoadRules(active) ==
  /\ rules' = active
  /\ UNCHANGED <<running, queue, workers, task, hand, cancelled, tickers, lastSeen, clock,
                 metrics, fate, emitted, failed, suppressed>>

(* packet_queue.qsize() *)
QSize == Len(queue)

(* Mutant of QueueFull: a queue made without a maxsize is never full. *)
QueueUnbounded == FALSE

(* Mutant of QueueFull: the bound is tested with > instead of >=. *)
QueueOverfull == QSize > QueueCap

(* put_nowait raises QueueFull exactly when maxsize packets wait. *)
QueueFull == QSize >= QueueCap

(* Mutant of Submit: a packet counts as received only once it is in the queue. *)
SubmitCountsAccepted(p) ==
  /\ fate[p] = "unsent"
  /\ IF QueueFull
     THEN /\ queue' = queue
          /\ fate' = [fate EXCEPT ![p] = "rejected"]
          /\ metrics' = [metrics EXCEPT !.dropped = @ + 1]
     ELSE /\ queue' = Append(queue, p)
          /\ fate' = [fate EXCEPT ![p] = "accepted"]
          /\ metrics' = [metrics EXCEPT !.received = @ + 1]
  /\ UNCHANGED <<running, workers, task, hand, cancelled, tickers, rules, lastSeen, clock,
                 emitted, failed, suppressed>>

(* submit_packet.  The depth gauge is read before the packet goes in. *)
Submit(p) ==
  /\ fate[p] = "unsent"
  /\ IF QueueFull
     THEN /\ queue' = queue
          /\ fate' = [fate EXCEPT ![p] = "rejected"]
          /\ metrics' = [metrics EXCEPT !.received = @ + 1, !.depth = QSize,
                                        !.dropped = @ + 1]
     ELSE /\ queue' = Append(queue, p)
          /\ fate' = [fate EXCEPT ![p] = "accepted"]
          /\ metrics' = [metrics EXCEPT !.received = @ + 1, !.depth = QSize]
  /\ UNCHANGED <<running, workers, task, hand, cancelled, tickers, rules, lastSeen, clock,
                 emitted, failed, suppressed>>

(* start: nothing when running; otherwise worker_count new tasks and a metrics task. *)
Start(crew) ==
  /\ ~running
  /\ crew \subseteq {t \in Tasks : task[t] = "unborn"}
  /\ Cardinality(crew) = WorkerCount
  /\ running' = TRUE
  /\ workers' = workers \cup crew
  /\ task' = [t \in Tasks |-> IF t \in crew THEN "waiting" ELSE task[t]]
  /\ tickers' = tickers + 1
  /\ UNCHANGED <<queue, hand, cancelled, rules, lastSeen, clock, metrics, fate, emitted,
                 failed, suppressed>>

(* Mutant of Stop: the list of workers is not cleared. *)
StopKeepsWorkers ==
  /\ running
  /\ running' = FALSE
  /\ cancelled' = cancelled \cup {t \in workers : task[t] # "finished"}
  /\ UNCHANGED <<queue, workers, task, hand, tickers, rules, lastSeen, clock, metrics, fate,
                 emitted, failed, suppressed>>

(* stop: cancels the listed workers, forgets them and returns at once.  The
   metrics task is not cancelled and nothing drains the queue. *)
Stop ==
  /\ running
  /\ running' = FALSE
  /\ cancelled' = cancelled \cup {t \in workers : task[t] # "finished"}
  /\ workers' = {}
  /\ UNCHANGED <<queue, task, hand, tickers, rules, lastSeen, clock, metrics, fate, emitted,
                 failed, suppressed>>

(* The get() task of a waiting worker takes the oldest packet. *)
Dequeue(t) ==
  /\ task[t] = "waiting"
  /\ queue # <<>>
  /\ queue' = Tail(queue)
  /\ task' = [task EXCEPT ![t] = "holding"]
  /\ hand' = [hand EXCEPT ![t] = Head(queue)]
  /\ UNCHANGED <<running, workers, cancelled, tickers, rules, lastSeen, clock, metrics, fate,
                 emitted, failed, suppressed>>

(* Mutant of Cancel: wait_for drops the result of a get() that has finished. *)
CancelDropsPacket(t) ==
  /\ t \in cancelled
  /\ task[t] \in {"waiting", "holding", "emitting"}
  /\ task' = [task EXCEPT ![t] = "finished"]
  /\ hand' = [hand EXCEPT ![t] = NoPacket]
  /\ cancelled' = cancelled \ {t}
  /\ UNCHANGED <<running, queue, workers, tickers, rules, lastSeen, clock, metrics, fate,
                 emitted, failed, suppressed>>

(* CancelledError reaches a worker that waits for a packet or for a callback:
   it leaves its loop.  An event being delivered is left half delivered. *)
Cancel(t) ==
  /\ t \in cancelled
  /\ task[t] \in {"waiting", "emitting"}
  /\ task' = [task EXCEPT ![t] = "finished"]
  /\ cancelled' = cancelled \ {t}
  /\ UNCHANGED <<running, queue, workers, hand, tickers, rules, lastSeen, clock, metrics, fate,
                 emitted, failed, suppressed>>

(* Mutant of TimeoutWhenStopped: get() without a timeout. *)
WaitForever(t) ==
  /\ task[t] = "waiting"
  /\ UNCHANGED engineVars

(* The one-second timeout brings a waiting worker back to `while self.running`. *)
TimeoutWhenStopped(t) ==
  /\ task[t] = "waiting"
  /\ t \notin cancelled
  /\ ~running
  /\ task' = [task EXCEPT ![t] = "finished"]
  /\ UNCHANGED <<running, queue, workers, hand, cancelled, tickers, rules, lastSeen, clock,
                 metrics, fate, emitted, failed, suppressed>>

(* Where `while self.running` leads a worker that is done with its packet. *)
BackToLoop == IF running THEN "waiting" ELSE "finished"

(* A worker resumes with its packet, a pending cancel() swallowed, and goes on to `stage`. *)
Resume(t, stage) ==
  /\ task[t] = "holding"
  /\ fate' = [fate EXCEPT ![hand[t]] = "analysed"]
  /\ task' = [task EXCEPT ![t] = stage]
  /\ hand' = [hand EXCEPT ![t] = NoPacket]
  /\ cancelled' = cancelled \ {t}
  /\ UNCHANGED <<running, queue, workers, tickers, rules, clock>>

(* Mutant of AnalyseRaises: the exception leaves the worker's loop. *)
AnalyseKillsWorker(t) ==
  /\ Resume(t, "finished")
  /\ failed' = failed + 1
  /\ UNCHANGED <<lastSeen, metrics, emitted, suppressed>>

(* _analyze_packet raised: the handler of _worker logs it, nothing is counted. *)
AnalyseRaises(t) ==
  /\ Resume(t, BackToLoop)
  /\ failed' = failed + 1
  /\ UNCHANGED <<lastSeen, metrics, emitted, suppressed>>

(* _analyze_packet found nothing. *)
AnalyseClean(t) ==
  /\ Resume(t, BackToLoop)
  /\ metrics' = [metrics EXCEPT !.processed = @ + 1, !.depth = QSize]
  /\ UNCHANGED <<lastSeen, emitted, failed, suppressed>>

KeyOf(t, rule) == <<rule, FlowOf[hand[t]]>>

(* Mutant of IsSuppressed: the window is half open. *)
IsSuppressedStrict(rule, key) ==
  /\ Window[rule] > 0
  /\ lastSeen[key] # 0
  /\ clock - lastSeen[key] < Window[rule]

(* _is_suppressed: seen before, at most a window ago. *)
IsSuppressed(rule, key) ==
  /\ Window[rule] > 0
  /\ lastSeen[key] # 0
  /\ clock - lastSeen[key] <= Window[rule]

(* ... and the sighting is recorded whatever the answer was. *)
Sighting(rule, key) ==
  IF Window[rule] > 0 THEN [lastSeen EXCEPT ![key] = clock] ELSE lastSeen

CountDetection ==
  metrics' = [metrics EXCEPT !.processed = @ + 1, !.depth = QSize, !.events = @ + 1]

(* A rule matched and its suppression window is open: _emit_event returns. *)
DetectSuppressed(t, rule) ==
  /\ rule \in rules
  /\ Resume(t, BackToLoop)
  /\ IsSuppressed(rule, KeyOf(t, rule))
  /\ CountDetection
  /\ lastSeen' = Sighting(rule, KeyOf(t, rule))
  /\ suppressed' = suppressed + 1
  /\ UNCHANGED <<emitted, failed>>

EventOf(t, by) == [pkt |-> hand[t], by |-> by, at |-> clock]

(* A rule matched and the event goes to the publisher and the callbacks, which
   suspend the worker ("emitting") or do not. *)
DetectByRule(t, rule, stage) ==
  /\ rule \in rules
  /\ stage \in {"emitting", BackToLoop}
  /\ Resume(t, stage)
  /\ ~IsSuppressed(rule, KeyOf(t, rule))
  /\ CountDetection
  /\ lastSeen' = Sighting(rule, KeyOf(t, rule))
  /\ emitted' = emitted \cup {EventOf(t, rule)}
  /\ UNCHANGED <<failed, suppressed>>

(* The anomaly score fired: no rule, no suppression. *)
DetectByScore(t, stage) ==
  /\ stage \in {"emitting", BackToLoop}
  /\ Resume(t, stage)
  /\ CountDetection
  /\ emitted' = emitted \cup {EventOf(t, ML)}
  /\ UNCHANGED <<lastSeen, failed, suppressed>>

(* The last callback returned or raised; a cancel() would have been delivered instead. *)
FinishEmit(t) ==
  /\ task[t] = "emitting"
  /\ t \notin cancelled
  /\ task' = [task EXCEPT ![t] = BackToLoop]
  /\ UNCHANGED <<running, queue, workers, hand, cancelled, tickers, rules, lastSeen, clock,
                 metrics, fate, emitted, failed, suppressed>>

(* _broadcast_metrics wakes from sleep(1.0) and finds the engine stopped. *)
TickerExit ==
  /\ ~running
  /\ tickers > 0
  /\ tickers' = tickers - 1
  /\ UNCHANGED <<running, queue, workers, task, hand, cancelled, rules, lastSeen, clock,
                 metrics, fate, emitted, failed, suppressed>>

Tick ==
  /\ clock < MaxTime
  /\ clock' = clock + 1
  /\ UNCHANGED <<running, queue, workers, task, hand, cancelled, tickers, rules, lastSeen,
                 metrics, fate, emitted, failed, suppressed>>
----------------------------------------------------------------------------
Analyse(t) ==
  \/ AnalyseRaises(t)
  \/ AnalyseClean(t)
  \/ \E rule \in Rules : DetectSuppressed(t, rule)
  \/ \E rule \in Rules, stage \in Stages : DetectByRule(t, rule, stage)
  \/ \E stage \in Stages : DetectByScore(t, stage)

EngineNext ==
  \/ \E active \in SUBSET Rules : LoadRules(active)
  \/ \E p \in Packets : Submit(p)
  \/ \E crew \in SUBSET Tasks : Start(crew)
  \/ Stop
  \/ \E t \in Tasks : \/ Dequeue(t) \/ Cancel(t) \/ TimeoutWhenStopped(t)
                      \/ Analyse(t) \/ FinishEmit(t)
  \/ TickerExit
  \/ Tick

EngineSpec == EngineInit /\ [][EngineNext]_engineVars

(* The event loop runs every ready task, a timeout and a cancel() always arrive,
   and the callbacks return.  Nobody has to submit, start or stop anything. *)
EngineFairness ==
  /\ WF_engineVars(\E t \in Tasks : Dequeue(t))
  /\ WF_engineVars(TickerExit)
  /\ \A t \in Tasks : /\ WF_engineVars(Cancel(t))
                      /\ WF_engineVars(TimeoutWhenStopped(t))
                      /\ WF_engineVars(Analyse(t))
                      /\ WF_engineVars(FinishEmit(t))

FairEngineSpec == EngineSpec /\ EngineFairness
----------------------------------------------------------------------------
(* The values of the variables; the queue never holds more than max_queue_size packets,
   however many are submitted while its workers are stopped or busy. *)
EngineTypeOK ==
  /\ running \in BOOLEAN
  /\ queue \in Seq(Packets) /\ Len(queue) <= QueueCap
  /\ workers \subseteq Tasks
  /\ task \in [Tasks -> Stages]
  /\ hand \in [Tasks -> Packets \cup {NoPacket}]
  /\ cancelled \subseteq Tasks
  /\ tickers \in Nat
  /\ rules \subseteq Rules
  /\ lastSeen \in [Keys -> 0..MaxTime]
  /\ clock \in 1..MaxTime
  /\ metrics \in Metrics
  /\ fate \in [Packets -> Fates]
  /\ emitted \subseteq Events
  /\ failed \in Nat
  /\ suppressed \in Nat

(* A worker holds a packet exactly in the stage named so. *)
HandsMatch == \A t \in Tasks : task[t] = "holding" <=> hand[t] # NoPacket

(* No packet is lost or analysed twice, whatever start, stop, timeouts and
   cancellation do between its put and its analysis: an accepted packet is in
   exactly one place, once, and nothing else is in the queue or in a hand. *)
AcceptedInOnePlace ==
  /\ \A p \in Packets : fate[p] = "accepted" <=>
                          (p \in Waiting \/ \E t \in Tasks : hand[t] = p)
  /\ \A i, j \in DOMAIN queue : queue[i] = queue[j] => i = j
  /\ \A t, u \in Tasks : hand[t] = hand[u] /\ hand[t] # NoPacket => t = u
  /\ \A t \in Tasks : hand[t] \notin Waiting
  /\ HandsMatch

(* The counters the dashboard shows add up at every moment: a received packet is
   dropped, waiting, held by a worker, processed, or its analysis raised; a
   detected event was handed on or suppressed. *)
CountersBalance ==
  /\ metrics.received = metrics.dropped + QSize + Cardinality(Holders)
                          + metrics.processed + failed
  /\ metrics.events = Cardinality(emitted) + suppressed
  /\ metrics.events <= metrics.processed

(* Two events of one rule and one flow are further apart than the rule's window,
   across rule reloads and engine restarts: the cache outlives both. *)
EmissionsSpaced ==
  \A d, e \in emitted :
    (/\ d # e
     /\ d.by = e.by
     /\ d.by \in Rules
     /\ FlowOf[d.pkt] = FlowOf[e.pkt]
     /\ Window[d.by] > 0)
    => d.at - e.at > Window[d.by] \/ e.at - d.at > Window[d.by]

(* While the engine runs, none of its worker_count workers has died or is about
   to: neither an exception in the analysis nor a cancel() from an earlier stop
   reaches the tasks of this start, and a metrics task is alive. *)
CrewComplete ==
  running => /\ Cardinality(workers) = WorkerCount
             /\ \A t \in workers : task[t] \notin {"unborn", "finished"} /\ t \notin cancelled
             /\ tickers > 0

(* A packet in the queue is taken by a worker, or the engine is stopped. *)
QueueServed == \A p \in Packets : p \in Waiting ~> (p \notin Waiting \/ ~running)

(* After stop, every worker task ends, also one that swallowed its cancel(), and
   so do the metrics tasks, unless the engine is started again. *)
StopCompletes ==
  ~running ~> (running \/ (tickers = 0 /\ \A t \in Tasks : task[t] \in {"unborn", "finished"}))

(* The engine keeps the promise of PacketFate. *)
Promise == INSTANCE PacketFate WITH waiting <- queue
FateRefined == Promise!FateSpec
============================================================================
