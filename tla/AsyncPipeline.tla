---------------------------- MODULE AsyncPipeline ----------------------------
(***************************************************************************)
(* DetectionPipeline of config/async_pipeline.py: the queue, the producer, *)
(* the workers and their life cycle.  What a worker does with a packet is  *)
(* in Sensor.                                                              *)
(*                                                                         *)
(* Packets are told apart when they are analysed, so the queue is its      *)
(* depth.  A worker waits for the queue in asyncio.wait_for.  Between the  *)
(* get and the worker's return the packet is in its hand, and a            *)
(* cancellation that comes then is swallowed: wait_for returns the packet  *)
(* (Python 3.11, the version of the Dockerfile).  start and stop are       *)
(* coroutines of different callers; stop awaits its workers, and start may *)
(* run meanwhile.                                                          *)
(***************************************************************************)
EXTENDS Naturals, SequencesExt

CONSTANTS
  Tasks,        (* names of worker tasks                                     *)
  NumWorkers,   (* num_workers                                               *)
  MaxDepth      (* max_queue_depth                                           *)

ASSUME PipelineAssumption ==
  NumWorkers \in Nat \ {0} /\ MaxDepth \in Nat \ {0}

VARIABLES
  running,      (* _running                                                  *)
  depth,        (* packets in _queue                                         *)
  crew,         (* _workers                                                  *)
  worker,       (* where each task is                                        *)
  hand,         (* tasks that have taken a packet                            *)
  producing,    (* a loop of start_producer runs: two do as one does         *)
  stoppers,     (* the calls of stop: the tasks that each one waits for      *)
  metrics,      (* packets received, processed and dropped                   *)
  drained,      (* history: packets stop has thrown away                     *)
  arrived,      (* history: packets the network has brought                  *)
  unserved      (* history: start_producer came before start                 *)

pipelineVars == <<running, depth, crew, worker, hand, producing, stoppers, metrics,
                  drained, arrived, unserved>>

PipelineInit ==
  /\ running = FALSE /\ depth = 0 /\ crew = {}
  /\ worker = [t \in Tasks |-> "none"]
  /\ hand = {}
  /\ producing = FALSE
  /\ stoppers = <<>>
  /\ metrics = [received |-> 0, processed |-> 0, dropped |-> 0]
  /\ drained = 0 /\ arrived = 0 /\ unserved = FALSE

Live == {t \in Tasks : worker[t] \in {"waiting", "cancelled"}}
----------------------------------------------------------------------------
(* Packets.                                                                *)

(* Mutant of Offer: a packet is counted as received before it is put. *)
CountFirst ==
  /\ arrived' = arrived + 1
  /\ metrics' = [metrics EXCEPT !.received = @ + 1,
                                !.dropped = IF depth < MaxDepth THEN @ ELSE @ + 1]
  /\ depth' = IF depth < MaxDepth THEN depth + 1 ELSE depth

(* put_nowait, and a full queue. *)
Offer ==
  /\ arrived' = arrived + 1
  /\ IF depth < MaxDepth
     THEN /\ depth' = depth + 1
          /\ metrics' = [metrics EXCEPT !.received = @ + 1]
     ELSE /\ metrics' = [metrics EXCEPT !.dropped = @ + 1]
          /\ UNCHANGED depth

PacketsOnly == UNCHANGED <<running, crew, worker, hand, producing, stoppers, drained,
                           unserved>>

(* A packet in the loop of start_producer, and in a callback, which asks nothing. *)
Produce       == producing /\ running /\ Offer /\ PacketsOnly
EnqueuePacket == Offer /\ PacketsOnly

StartProducer ==
  /\ producing' = TRUE /\ running' = TRUE
  /\ unserved' = (unserved \/ ~running)
  /\ UNCHANGED <<depth, crew, worker, hand, stoppers, metrics, drained, arrived>>

ProducerStops ==
  /\ producing /\ ~running
  /\ producing' = FALSE
  /\ UNCHANGED <<running, depth, crew, worker, hand, stoppers, metrics, drained,
                 arrived, unserved>>
----------------------------------------------------------------------------
(* Workers.                                                                *)

Take(t) ==
  /\ worker[t] = "waiting" /\ t \notin hand /\ depth > 0
  /\ hand' = hand \cup {t}
  /\ depth' = depth - 1
  /\ UNCHANGED <<running, crew, worker, producing, stoppers, metrics, drained,
                 arrived, unserved>>

(* The packet is counted, whether its analysis raised or not, and the loop goes on as long
   as the pipeline runs: also a worker whose cancellation was swallowed. *)
Processed(t) ==
  /\ t \in hand
  /\ hand' = hand \ {t}
  /\ metrics' = [metrics EXCEPT !.processed = @ + 1]
  /\ worker' = [worker EXCEPT ![t] = IF running THEN "waiting" ELSE "done"]
  /\ UNCHANGED <<running, depth, crew, producing, stoppers, drained, arrived, unserved>>

(* A cancelled wait, or one that ran into its timeout when the pipeline had stopped. *)
WorkerEnds(t) ==
  /\ t \notin hand
  /\ worker[t] = "cancelled" \/ (worker[t] = "waiting" /\ ~running)
  /\ worker' = [worker EXCEPT ![t] = "done"]
  /\ UNCHANGED <<running, depth, crew, hand, producing, stoppers, metrics, drained,
                 arrived, unserved>>
----------------------------------------------------------------------------
(* The life cycle.                                                         *)

Spare == {t \in Tasks : worker[t] = "none"}

Start ==
  /\ ~running
  /\ \E new \in kSubset(NumWorkers, Spare) :
       /\ crew' = new
       /\ worker' = [t \in Tasks |-> IF t \in new THEN "waiting" ELSE worker[t]]
  /\ running' = TRUE /\ unserved' = FALSE
  /\ UNCHANGED <<depth, hand, producing, stoppers, metrics, drained, arrived>>

(* stop, up to its await: the workers it knows are cancelled, once more if another call of
   stop waits for them. *)
Stop ==
  /\ running' = FALSE /\ unserved' = FALSE
  /\ stoppers' = Append(stoppers, crew)
  /\ worker' = [t \in Tasks |-> IF t \in crew /\ worker[t] = "waiting" THEN "cancelled"
                                                                      ELSE worker[t]]
  /\ UNCHANGED <<depth, crew, hand, producing, metrics, drained, arrived>>

(* ... and after it: the list is cleared, whoever is on it by now, and the queue emptied. *)
StopEnds ==
  /\ \E i \in DOMAIN stoppers : /\ \A t \in stoppers[i] : worker[t] = "done"
                             /\ stoppers' = RemoveAt(stoppers, i)
  /\ crew' = {}
  /\ drained' = drained + depth
  /\ depth' = 0
  /\ UNCHANGED <<running, worker, hand, producing, metrics, arrived, unserved>>

LifeStep == StartProducer \/ ProducerStops \/ Start \/ Stop \/ StopEnds
----------------------------------------------------------------------------
(* However start, stop and the producer overlap, a packet that was received is in the queue,
   in a worker's hand, processed or drained, and every other one was counted as dropped;
   and a running pipeline has a worker, unless start_producer has set it running, which
   makes start return at once: its queue fills and nobody takes anything. *)
PacketsAccounted ==
  /\ metrics.received = metrics.processed + drained + depth + Cardinality(hand)
  /\ metrics.received + metrics.dropped = arrived
  /\ depth <= MaxDepth
  /\ hand \subseteq Live
  /\ running /\ Live = {} => unserved
=============================================================================
