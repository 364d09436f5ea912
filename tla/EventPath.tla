----------------------------- MODULE EventPath -----------------------------
(***************************************************************************)
(* From the detection engine to the database: api/main.py's lifespan,      *)
(* on_event_detected and _on_broker_event, composed with the broker.       *)
(*                                                                         *)
(* In direct mode a worker of the engine calls on_event_detected, which    *)
(* runs up to its first await, the database work included, within the      *)
(* worker's step.  In broker mode lifespan takes that callback away: the   *)
(* worker publishes, the consumer thread schedules on_event_detected on    *)
(* the event loop, and acknowledges the message before it has run.         *)
(***************************************************************************)
EXTENDS MessageBroker, FiniteSets

CONSTANTS MaxFaults,    (* bound on broken connections, crashes and the like *)
          MaxStarts     (* bound on the number of processes                  *)

ASSUME EventPathAssumption ==
  /\ NoMessage \notin Messages
  /\ MaxFaults \in Nat
  /\ MaxStarts \in Nat

VARIABLES
  mode,         (* settings.broker.enabled: "broker" or "direct"             *)
  phase,        (* of the API process                                        *)
  starts,       (* how often lifespan has started                            *)
  scheduled,    (* on_event_detected coroutines the loop has yet to run      *)
  table,        (* intrusion_events: the rows, in the order of their ids     *)
  playbooks,    (* history: the rows whose playbooks were queued             *)
  emitted,      (* history: the events the engine emitted, in order          *)
  lost,         (* history: the ways in which each event was lost            *)
  redelivered,  (* history: some message was delivered a second time         *)
  overtaken,    (* history: stop_consumer left a consumer behind             *)
  faults        (* counts faults, for the bound                              *)

pathVars == <<mode, phase, starts, scheduled, table, playbooks, emitted, lost,
              redelivered, overtaken, faults>>
eventVars == <<brokerVars, pathVars>>

Phases == {"down", "up", "closing", "closed"}
Causes == {"publish", "vanished", "database", "loop", "crash", "nack"}
Elems(s) == {s[i] : i \in DOMAIN s}

EventInit ==
  /\ BrokerInit
  /\ mode \in {"direct", "broker"}
  /\ phase = "down"
  /\ starts = 0
  /\ scheduled = <<>>
  /\ table = <<>>
  /\ playbooks = {}
  /\ emitted = <<>>
  /\ lost = [m \in Messages |-> {}]
  /\ redelivered = FALSE
  /\ overtaken = FALSE
  /\ faults = 0

Lose(ms, cause) ==
  lost' = [m \in Messages |-> IF m \in ms THEN lost[m] \cup {cause} ELSE lost[m]]

Fault == faults < MaxFaults /\ faults' = faults + 1
----------------------------------------------------------------------------
(* The database part of on_event_detected, one try block: the row, the rule's last
   trigger, the queueing of playbooks.  Each of the first two may raise, and what
   comes after it is skipped; the coroutine goes on to broadcast either way. *)
StoresAndQueues(m) ==
  /\ table' = Append(table, m)
  /\ playbooks' = playbooks \cup {Len(table) + 1}
  /\ UNCHANGED <<lost, faults>>

StoresOnly(m) ==
  /\ Fault
  /\ table' = Append(table, m)
  /\ UNCHANGED <<playbooks, lost>>

StoresNothing(m) ==
  /\ Fault
  /\ Lose({m}, "database")
  /\ UNCHANGED <<table, playbooks>>

(* Mutant of OnEventDetected: playbooks are queued before the row is there. *)
QueuesFirst(m) ==
  \/ StoresAndQueues(m) \/ StoresOnly(m)
  \/ Fault /\ playbooks' = playbooks \cup {Len(table) + 1} /\ Lose({m}, "database")
           /\ UNCHANGED table

OnEventDetected(m) == StoresAndQueues(m) \/ StoresOnly(m) \/ StoresNothing(m)

(* The engine emits an event: the engine runs until lifespan stops it. *)
Emits(m) ==
  /\ phase \in {"up", "closing"}
  /\ m \notin Elems(emitted)
  /\ emitted' = Append(emitted, m)

EmitDirect(m) ==
  /\ mode = "direct"
  /\ Emits(m)
  /\ OnEventDetected(m)
  /\ UNCHANGED <<brokerVars, mode, phase, starts, scheduled, redelivered, overtaken>>

(* _emit_event hands the event to publish, logs what it raises, and finds no callback. *)
EmitPublished(m) ==
  /\ mode = "broker"
  /\ Emits(m)
  /\ \/ PublishStored(m) /\ UNCHANGED lost
     \/ PublishRaises    /\ Lose({m}, "publish")
     \/ PublishVanishes  /\ Lose({m}, "vanished")
  /\ UNCHANGED <<mode, phase, starts, scheduled, table, playbooks, redelivered, overtaken,
                 faults>>

(* Mutant of RunScheduled: the loop runs the newest coroutine first. *)
RunNewest ==
  /\ phase \in {"up", "closing"}
  /\ scheduled # <<>>
  /\ OnEventDetected(scheduled[Len(scheduled)])
  /\ scheduled' = SubSeq(scheduled, 1, Len(scheduled) - 1)
  /\ UNCHANGED <<brokerVars, mode, phase, starts, emitted, redelivered, overtaken>>

(* The loop runs the oldest scheduled on_event_detected. *)
RunScheduled ==
  /\ phase \in {"up", "closing"}
  /\ scheduled # <<>>
  /\ OnEventDetected(Head(scheduled))
  /\ scheduled' = Tail(scheduled)
  /\ UNCHANGED <<brokerVars, mode, phase, starts, emitted, redelivered, overtaken>>
----------------------------------------------------------------------------
(* Mutant of HandOver: the coroutine is made, and never scheduled on the loop. *)
HandOverForgets ==
  /\ phase \in {"up", "closing"}
  /\ OnMessageReturns
  /\ UNCHANGED pathVars

(* _on_broker_event: run_coroutine_threadsafe only schedules. *)
HandOver ==
  /\ phase \in {"up", "closing"}
  /\ OnMessageReturns
  /\ scheduled' = Append(scheduled, inHand)
  /\ UNCHANGED <<mode, phase, starts, table, playbooks, emitted, lost, redelivered, overtaken,
                 faults>>

Acknowledge == Ack /\ UNCHANGED pathVars

(* The loop is closed: run_coroutine_threadsafe raises, and the message is refused
   for good, unless its connection has gone and it is back in the queue. *)
Refuse ==
  /\ phase = "closed"
  /\ Nack
  /\ Lose(IF link THEN {inHand} ELSE {}, "nack")
  /\ UNCHANGED <<mode, phase, starts, scheduled, table, playbooks, emitted, redelivered,
                 overtaken, faults>>

ConsumerStep == (LoopTest \/ ConnectConsumer \/ ConnectFails \/ Deliver \/ NoticeLinkLost)
                /\ UNCHANGED pathVars

(* A message comes a second time when its acknowledgement did not get through. *)
MayRedeliver == redelivered' = (redelivered \/ (link /\ inHand # NoMessage))

ConnectionFault ==
  /\ mode = "broker"
  /\ Fault
  /\ \/ LinkLost \/ ConsumerChannelClosed \/ ConnectBreaks
     \/ ServerDown \/ ChannelClosed \/ PublisherIdles
  /\ IF link' THEN UNCHANGED redelivered ELSE MayRedeliver
  /\ UNCHANGED <<mode, phase, starts, scheduled, table, playbooks, emitted, lost, overtaken>>

ServerRestored == mode = "broker" /\ ServerBack /\ UNCHANGED pathVars
----------------------------------------------------------------------------
(* lifespan, up to the yield. *)
StartUp ==
  /\ phase = "down"
  /\ starts < MaxStarts
  /\ phase' = "up"
  /\ starts' = starts + 1
  /\ IF mode = "broker" THEN StartConsumer ELSE UNCHANGED brokerVars
  /\ UNCHANGED <<mode, scheduled, table, playbooks, emitted, lost, redelivered, overtaken,
                 faults>>

(* ... and after it: the consumer is stopped first, and the engine goes on emitting
   while lifespan waits for the simulator.  If stop_consumer raises, the rest of
   the shutdown is skipped, and the engine works until the loop is closed. *)
ShutDown ==
  /\ phase = "up"
  /\ phase' = "closing"
  /\ IF mode = "broker"
     THEN /\ MayRedeliver
          /\ \/ StopConsumer /\ overtaken' = (thread = "connecting")
             \/ StopConsumerRaises /\ overtaken' = TRUE
     ELSE UNCHANGED <<brokerVars, redelivered, overtaken>>
  /\ UNCHANGED <<mode, starts, scheduled, table, playbooks, emitted, lost, faults>>

(* The loop is closed; a coroutine that has not started is cancelled. *)
CloseLoop ==
  /\ phase = "closing"
  /\ phase' = "closed"
  /\ Lose(Elems(scheduled), "loop")
  /\ scheduled' = <<>>
  /\ UNCHANGED <<brokerVars, mode, starts, table, playbooks, emitted, redelivered, overtaken,
                 faults>>

Exit ==
  /\ phase = "closed"
  /\ phase' = "down"
  /\ ProcessGone
  /\ MayRedeliver
  /\ overtaken' = FALSE
  /\ UNCHANGED <<mode, starts, scheduled, table, playbooks, emitted, lost, faults>>

(* The process is killed; what it had acknowledged and not yet stored is gone. *)
Crash ==
  /\ phase # "down"
  /\ Fault
  /\ phase' = "down"
  /\ ProcessGone
  /\ MayRedeliver
  /\ overtaken' = FALSE
  /\ Lose(Elems(scheduled), "crash")
  /\ scheduled' = <<>>
  /\ UNCHANGED <<mode, starts, table, playbooks, emitted>>
----------------------------------------------------------------------------
EventNext ==
  \/ \E m \in Messages : EmitDirect(m) \/ EmitPublished(m)
  \/ RunScheduled
  \/ HandOver \/ Acknowledge \/ Refuse \/ ConsumerStep
  \/ ConnectionFault \/ ServerRestored
  \/ StartUp \/ ShutDown \/ CloseLoop \/ Exit \/ Crash

EventSpec == EventInit /\ [][EventNext]_eventVars

(* The consumer thread and the loop keep running, and a server that is down comes
   back.  Nobody has to emit anything or to restart the process. *)
EventFairness ==
  /\ WF_eventVars(ConsumerStep)
  /\ WF_eventVars(HandOver)
  /\ WF_eventVars(Acknowledge)
  /\ WF_eventVars(Refuse)
  /\ WF_eventVars(RunScheduled)
  /\ WF_eventVars(ServerRestored)

FairEventSpec == EventSpec /\ EventFairness
----------------------------------------------------------------------------
(* The values of the variables; playbooks are queued only with the id of a row that
   was committed. *)
EventPathTypeOK ==
  /\ BrokerTypeOK
  /\ mode \in {"direct", "broker"}
  /\ phase \in Phases
  /\ starts \in 0..MaxStarts
  /\ scheduled \in Seq(Messages)
  /\ table \in Seq(Messages)
  /\ playbooks \subseteq DOMAIN table
  /\ emitted \in Seq(Messages)
  /\ lost \in [Messages -> SUBSET Causes]
  /\ redelivered \in BOOLEAN
  /\ overtaken \in BOOLEAN
  /\ faults \in 0..MaxFaults

(* An emitted event is in the database, on its way there, or lost in one of the six
   ways the code has of losing it, through every order of connection failures,
   server restarts, shutdowns and crashes. *)
EventsAccounted ==
  \A m \in Elems(emitted) :
    \/ m \in Elems(table) \cup Elems(ready) \cup Elems(scheduled) \cup {inHand}
    \/ lost[m] # {}

(* Where event m stands in the order of emission. *)
Rank(m) == CHOOSE i \in DOMAIN emitted : emitted[i] = m

(* The row ids follow the order in which the engine emitted, and an event has one
   row, in either mode, until a redelivery breaks both: one engine, one durable
   queue, one consumer, one loop. *)
RowsFollowEmissions ==
  ~redelivered =>
    \A i, j \in DOMAIN table : i < j => Rank(table[i]) < Rank(table[j])

(* stop_consumer silences the consumer, and nothing is refused for good after the
   loop has closed, unless the thread was connecting or close raised. *)
StopSilencesConsumer ==
  phase \in {"closing", "closed"} /\ ~overtaken => ~link

(* What is in the durable queue reaches on_event_detected, while the process stays up:
   of all orders of connection failures, only one in which the finally clause's close
   raises, and ends the consumer thread, leaves the queue undrained. *)
QueueDrains ==
  \A m \in Messages :
    (m \in Elems(ready) /\ phase = "up")
      ~> (m \in Elems(table) \/ lost[m] # {} \/ phase # "up" \/ thread = "dead")
============================================================================
