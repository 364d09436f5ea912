----------------------- MODULE DetectionEngineProofs -----------------------
(***************************************************************************)
(* Proofs about DetectionEngine, for every number of packets, tasks, rules *)
(* and workers and every window.                                           *)
(***************************************************************************)
EXTENDS DetectionEngine, FiniteSetTheorems, SequenceTheorems, TLAPS

(* The counters stay natural numbers under every update the code makes. *)
LEMMA MetricsFields ==
  ASSUME NEW m \in Metrics
  PROVE  /\ m.received \in Nat /\ m.dropped \in Nat /\ m.processed \in Nat
         /\ m.events \in Nat /\ m.depth \in Nat
BY DEF Metrics

LEMMA MetricsUpdate ==
  ASSUME NEW m \in Metrics, NEW a \in Nat, NEW b \in Nat, NEW c \in Nat
  PROVE  /\ [m EXCEPT !.received = a, !.depth = b] \in Metrics
         /\ [m EXCEPT !.received = a, !.depth = b, !.dropped = c] \in Metrics
         /\ [m EXCEPT !.processed = a, !.depth = b] \in Metrics
         /\ [m EXCEPT !.processed = a, !.depth = b, !.events = c] \in Metrics
BY DEF Metrics

LEMMA MetricsType ==
  ASSUME EngineTypeOK
  PROVE  /\ [metrics EXCEPT !.received = @ + 1, !.depth = QSize] \in Metrics
         /\ [metrics EXCEPT !.received = @ + 1, !.depth = QSize, !.dropped = @ + 1]
              \in Metrics
         /\ [metrics EXCEPT !.processed = @ + 1, !.depth = QSize] \in Metrics
         /\ [metrics EXCEPT !.processed = @ + 1, !.depth = QSize, !.events = @ + 1]
              \in Metrics
<1>1. metrics \in Metrics /\ QSize \in Nat
  BY LenProperties DEF EngineTypeOK, QSize
<1>2. /\ metrics.received + 1 \in Nat
      /\ metrics.dropped + 1 \in Nat
      /\ metrics.processed + 1 \in Nat
      /\ metrics.events + 1 \in Nat
  BY <1>1, MetricsFields
<1>3. QED
  BY <1>1, <1>2, MetricsUpdate

LEMMA BackToLoopType == BackToLoop \in Stages
BY DEF BackToLoop, Stages

(* A worker that resumes holds a packet when AcceptedInOnePlace does. *)
LEMMA ResumeType ==
  ASSUME EngineTypeOK, NEW t \in Tasks, NEW stage \in Stages, Resume(t, stage)
  PROVE  /\ fate' \in [Packets -> Fates]
         /\ task' \in [Tasks -> Stages]
         /\ hand' \in [Tasks -> Packets \cup {NoPacket}]
         /\ cancelled' \subseteq Tasks
         /\ UNCHANGED <<running, queue, workers, tickers, rules, clock>>
BY DEF EngineTypeOK, Resume, Fates

LEMMA SightingType ==
  ASSUME EngineTypeOK, NEW rule \in Rules, NEW key \in Keys
  PROVE  Sighting(rule, key) \in [Keys -> 0..MaxTime]
BY EngineAssumption DEF EngineTypeOK, Sighting

LEMMA KeyType ==
  ASSUME EngineTypeOK, NEW t \in Tasks, NEW rule \in Rules, hand[t] # NoPacket
  PROVE  KeyOf(t, rule) \in Keys
BY EngineAssumption DEF EngineTypeOK, KeyOf, Keys

LEMMA EventType ==
  ASSUME EngineTypeOK, NEW t \in Tasks, NEW by \in Rules \cup {ML}, hand[t] # NoPacket
  PROVE  EventOf(t, by) \in Events
BY DEF EngineTypeOK, EventOf, Events
----------------------------------------------------------------------------
(* Type correctness, with the fact that makes a resumed worker's packet a packet. *)
EngineTypes == EngineTypeOK /\ HandsMatch

LEMMA InitTypes == EngineInit => EngineTypes
<1>. SUFFICES ASSUME EngineInit
              PROVE  EngineTypes
  OBVIOUS
<1>1. queue \in Seq(Packets) /\ Len(queue) <= QueueCap
  BY EmptySeq, EngineAssumption DEF EngineInit
<1>2. metrics \in Metrics
  BY DEF EngineInit, Metrics
<1>3. clock \in 1..MaxTime /\ lastSeen \in [Keys -> 0..MaxTime]
  BY EngineAssumption DEF EngineInit
<1>4. HandsMatch
  BY DEF EngineInit, HandsMatch
<1>5. QED
  BY <1>1, <1>2, <1>3, <1>4 DEF EngineInit, EngineTypes, EngineTypeOK, Stages, Fates

LEMMA SubmitTypes ==
  ASSUME EngineTypes, NEW p \in Packets, Submit(p)
  PROVE  EngineTypes'
<1>1. queue' \in Seq(Packets) /\ Len(queue') <= QueueCap
  <2>1. /\ queue \in Seq(Packets) /\ Append(queue, p) \in Seq(Packets)
        /\ Len(queue) \in Nat /\ Len(queue) <= QueueCap /\ QueueCap \in Nat
        /\ Len(Append(queue, p)) = Len(queue) + 1
    BY AppendProperties, LenProperties, EngineAssumption DEF EngineTypes, EngineTypeOK
  <2>2. CASE QueueFull
    BY <2>1, <2>2 DEF Submit
  <2>3. CASE ~QueueFull
    BY <2>1, <2>3 DEF Submit, QueueFull, QSize
  <2>4. QED
    BY <2>2, <2>3
<1>2. metrics' \in Metrics
  BY MetricsType DEF EngineTypes, Submit
<1>3. fate' \in [Packets -> Fates]
  BY DEF EngineTypes, EngineTypeOK, Submit, Fates
<1>4. HandsMatch'
  BY DEF EngineTypes, HandsMatch, Submit
<1>5. QED
  BY <1>1, <1>2, <1>3, <1>4 DEF EngineTypes, EngineTypeOK, Submit

LEMMA DequeueTypes ==
  ASSUME EngineTypes, NEW t \in Tasks, Dequeue(t)
  PROVE  EngineTypes'
<1>1. /\ Head(queue) \in Packets /\ queue' \in Seq(Packets)
      /\ Len(queue') <= QueueCap
  BY HeadTailProperties, LenProperties, EngineAssumption DEF EngineTypes, EngineTypeOK, Dequeue
<1>2. task' \in [Tasks -> Stages] /\ hand' \in [Tasks -> Packets \cup {NoPacket}]
  BY <1>1 DEF EngineTypes, EngineTypeOK, Dequeue, Stages
<1>3. HandsMatch'
  BY <1>1, EngineAssumption DEF EngineTypes, EngineTypeOK, HandsMatch, Dequeue
<1>4. QED
  BY <1>1, <1>2, <1>3 DEF EngineTypes, EngineTypeOK, Dequeue

(* What Resume does to the two variables HandsMatch relates. *)
LEMMA ResumeHands ==
  ASSUME EngineTypes, NEW t \in Tasks, NEW stage \in Stages \ {"holding"}, Resume(t, stage)
  PROVE  HandsMatch' /\ hand[t] # NoPacket /\ hand[t] \in Packets
BY DEF EngineTypes, EngineTypeOK, HandsMatch, Resume

LEMMA AnalyseTypes ==
  ASSUME EngineTypes, NEW t \in Tasks, Analyse(t)
  PROVE  EngineTypes'
<1>0. BackToLoop \in Stages \ {"holding"} /\ "emitting" \in Stages \ {"holding"}
  BY DEF BackToLoop, Stages
<1>. DEFINE Settled ==
       /\ running' \in BOOLEAN /\ queue' \in Seq(Packets) /\ Len(queue') <= QueueCap
       /\ workers' \subseteq Tasks
       /\ task' \in [Tasks -> Stages] /\ hand' \in [Tasks -> Packets \cup {NoPacket}]
       /\ cancelled' \subseteq Tasks /\ tickers' \in Nat /\ rules' \subseteq Rules
       /\ clock' \in 1..MaxTime /\ fate' \in [Packets -> Fates] /\ HandsMatch'
       /\ hand[t] # NoPacket
<1>1. ASSUME NEW stage \in Stages \ {"holding"}, Resume(t, stage)
      PROVE  Settled
  BY <1>1, ResumeType, ResumeHands DEF EngineTypes, EngineTypeOK
<1>2. CASE AnalyseRaises(t)
  <2>1. Settled
    BY <1>0, <1>1, <1>2 DEF AnalyseRaises
  <2>2. QED
    BY <1>2, <2>1 DEF EngineTypes, EngineTypeOK, AnalyseRaises
<1>3. CASE AnalyseClean(t)
  <2>1. Settled
    BY <1>0, <1>1, <1>3 DEF AnalyseClean
  <2>2. metrics' \in Metrics
    BY <1>3, MetricsType DEF EngineTypes, AnalyseClean
  <2>3. QED
    BY <1>3, <2>1, <2>2 DEF EngineTypes, EngineTypeOK, AnalyseClean
<1>4. ASSUME NEW rule \in Rules, DetectSuppressed(t, rule)
      PROVE  EngineTypes'
  <2>1. Settled
    BY <1>0, <1>1, <1>4 DEF DetectSuppressed
  <2>2. metrics' \in Metrics
    BY <1>4, MetricsType DEF EngineTypes, DetectSuppressed, CountDetection
  <2>3. lastSeen' \in [Keys -> 0..MaxTime]
    BY <1>4, <2>1, KeyType, SightingType DEF EngineTypes, DetectSuppressed
  <2>4. QED
    BY <1>4, <2>1, <2>2, <2>3 DEF EngineTypes, EngineTypeOK, DetectSuppressed
<1>5. ASSUME NEW rule \in Rules, NEW stage \in Stages, DetectByRule(t, rule, stage)
      PROVE  EngineTypes'
  <2>1. Settled
    BY <1>0, <1>1, <1>5 DEF DetectByRule
  <2>2. metrics' \in Metrics
    BY <1>5, MetricsType DEF EngineTypes, DetectByRule, CountDetection
  <2>3. lastSeen' \in [Keys -> 0..MaxTime]
    BY <1>5, <2>1, KeyType, SightingType DEF EngineTypes, DetectByRule
  <2>4. emitted' \subseteq Events
    BY <1>5, <2>1, EventType DEF EngineTypes, EngineTypeOK, DetectByRule
  <2>5. QED
    BY <1>5, <2>1, <2>2, <2>3, <2>4 DEF EngineTypes, EngineTypeOK, DetectByRule
<1>6. ASSUME NEW stage \in Stages, DetectByScore(t, stage)
      PROVE  EngineTypes'
  <2>1. Settled
    BY <1>0, <1>1, <1>6 DEF DetectByScore
  <2>2. metrics' \in Metrics
    BY <1>6, MetricsType DEF EngineTypes, DetectByScore, CountDetection
  <2>3. emitted' \subseteq Events
    BY <1>6, <2>1, EventType DEF EngineTypes, EngineTypeOK, DetectByScore
  <2>4. QED
    BY <1>6, <2>1, <2>2, <2>3 DEF EngineTypes, EngineTypeOK, DetectByScore
<1>7. QED
  BY <1>2, <1>3, <1>4, <1>5, <1>6 DEF Analyse

LEMMA NextTypes == EngineTypes /\ [EngineNext]_engineVars => EngineTypes'
<1>. SUFFICES ASSUME EngineTypes, [EngineNext]_engineVars
              PROVE  EngineTypes'
  OBVIOUS
<1>1. CASE UNCHANGED engineVars
  BY <1>1 DEF EngineTypes, EngineTypeOK, HandsMatch, engineVars
<1>2. ASSUME NEW active \in SUBSET Rules, LoadRules(active)
      PROVE  EngineTypes'
  BY <1>2 DEF EngineTypes, EngineTypeOK, HandsMatch, LoadRules
<1>3. ASSUME NEW crew \in SUBSET Tasks, Start(crew)
      PROVE  EngineTypes'
  BY <1>3 DEF EngineTypes, EngineTypeOK, HandsMatch, Start, Stages
<1>4. CASE Stop
  BY <1>4 DEF EngineTypes, EngineTypeOK, HandsMatch, Stop
<1>5. ASSUME NEW t \in Tasks, Cancel(t) \/ TimeoutWhenStopped(t) \/ FinishEmit(t)
      PROVE  EngineTypes'
  BY <1>5 DEF EngineTypes, EngineTypeOK, HandsMatch, Cancel, TimeoutWhenStopped, FinishEmit,
              BackToLoop, Stages
<1>6. CASE TickerExit
  BY <1>6 DEF EngineTypes, EngineTypeOK, HandsMatch, TickerExit
<1>7. CASE Tick
  BY <1>7, EngineAssumption DEF EngineTypes, EngineTypeOK, HandsMatch, Tick
<1>8. QED
  BY <1>1, <1>2, <1>3, <1>4, <1>5, <1>6, <1>7, SubmitTypes, DequeueTypes, AnalyseTypes
     DEF EngineNext

(* Every variable of the engine keeps its type in every behaviour, and the packet queue
   never outgrows max_queue_size. *)
THEOREM EngineTypeCorrect == EngineSpec => []EngineTypeOK
<1>1. EngineTypes => EngineTypeOK
  BY DEF EngineTypes
<1>2. QED
  BY <1>1, InitTypes, NextTypes, PTL DEF EngineSpec
----------------------------------------------------------------------------
(* What putting and taking do to the elements of a queue without repetition. *)
Distinct(q) == \A i, j \in DOMAIN q : q[i] = q[j] => i = j
Elements(q) == {q[i] : i \in DOMAIN q}

LEMMA PutElements ==
  ASSUME NEW q \in Seq(Packets), NEW p \in Packets
  PROVE  /\ Elements(Append(q, p)) = Elements(q) \cup {p}
         /\ Distinct(q) /\ p \notin Elements(q) => Distinct(Append(q, p))
<1>1. /\ DOMAIN q = 1..Len(q)
      /\ Len(q) \in Nat
      /\ DOMAIN Append(q, p) = 1..(Len(q) + 1)
  BY LenProperties, AppendProperties
<1>2. /\ \A i \in 1..Len(q) : Append(q, p)[i] = q[i]
      /\ Append(q, p)[Len(q) + 1] = p
  BY AppendProperties
<1>3. Elements(Append(q, p)) = Elements(q) \cup {p}
  BY <1>1, <1>2 DEF Elements
<1>4. ASSUME Distinct(q), p \notin Elements(q)
      PROVE  Distinct(Append(q, p))
  BY <1>1, <1>2, <1>4 DEF Distinct, Elements
<1>5. QED
  BY <1>3, <1>4

LEMMA TakeElements ==
  ASSUME NEW q \in Seq(Packets), q # <<>>
  PROVE  /\ Elements(q) = Elements(Tail(q)) \cup {Head(q)}
         /\ Distinct(q) => Distinct(Tail(q)) /\ Head(q) \notin Elements(Tail(q))
<1>1. /\ Len(q) \in Nat \ {0}
      /\ DOMAIN q = 1..Len(q)
      /\ DOMAIN Tail(q) = 1..(Len(q) - 1)
      /\ Head(q) = q[1]
      /\ \A i \in 1..(Len(q) - 1) : Tail(q)[i] = q[i + 1]
  BY LenProperties, HeadTailProperties, EmptySeq
<1>2. Elements(q) \subseteq Elements(Tail(q)) \cup {Head(q)}
  <2>1. SUFFICES ASSUME NEW i \in 1..Len(q), i # 1
                 PROVE  q[i] \in Elements(Tail(q))
    BY <1>1 DEF Elements
  <2>2. i - 1 \in 1..(Len(q) - 1) /\ Tail(q)[i - 1] = q[i]
    BY <1>1, <2>1
  <2>3. QED
    BY <1>1, <2>2 DEF Elements
<1>3. Elements(Tail(q)) \cup {Head(q)} \subseteq Elements(q)
  BY <1>1 DEF Elements
<1>4. ASSUME Distinct(q)
      PROVE  Distinct(Tail(q)) /\ Head(q) \notin Elements(Tail(q))
  BY <1>1, <1>4 DEF Distinct, Elements
<1>5. QED
  BY <1>2, <1>3, <1>4
----------------------------------------------------------------------------
(* AcceptedInOnePlace is inductive once the types are known. *)
LEMMA PlacesRephrased ==
  AcceptedInOnePlace <=>
    /\ \A p \in Packets : fate[p] = "accepted" <=>
                            (p \in Elements(queue) \/ \E t \in Tasks : hand[t] = p)
    /\ Distinct(queue)
    /\ \A t, u \in Tasks : hand[t] = hand[u] /\ hand[t] # NoPacket => t = u
    /\ \A t \in Tasks : hand[t] \notin Elements(queue)
    /\ HandsMatch
BY DEF AcceptedInOnePlace, Waiting, Elements, Distinct

LEMMA PlacesRephrasedNext ==
  AcceptedInOnePlace' <=>
    /\ \A p \in Packets : fate'[p] = "accepted" <=>
                            (p \in Elements(queue') \/ \E t \in Tasks : hand'[t] = p)
    /\ Distinct(queue')
    /\ \A t, u \in Tasks : hand'[t] = hand'[u] /\ hand'[t] # NoPacket => t = u
    /\ \A t \in Tasks : hand'[t] \notin Elements(queue')
    /\ HandsMatch'
BY DEF AcceptedInOnePlace, Waiting, Elements, Distinct

LEMMA SubmitPlaces ==
  ASSUME EngineTypes, AcceptedInOnePlace, NEW p \in Packets, Submit(p)
  PROVE  AcceptedInOnePlace'
<1>1. HandsMatch' /\ hand' = hand
  BY SubmitTypes DEF EngineTypes, Submit
<1>2. CASE QueueFull
  BY <1>1, <1>2, PlacesRephrased, PlacesRephrasedNext
     DEF EngineTypes, EngineTypeOK, Submit
<1>3. CASE ~QueueFull
  <2>1. /\ Elements(queue') = Elements(queue) \cup {p}
        /\ Distinct(queue) /\ p \notin Elements(queue) => Distinct(queue')
    BY <1>3, PutElements DEF EngineTypes, EngineTypeOK, Submit
  <2>2. fate[p] = "unsent" /\ fate' = [fate EXCEPT ![p] = "accepted"]
    BY <1>3 DEF Submit
  <2>3. p \notin Elements(queue) /\ \A t \in Tasks : hand[t] # p
    BY <2>2, PlacesRephrased
  <2>4. QED
    BY <1>1, <2>1, <2>2, <2>3, PlacesRephrased, PlacesRephrasedNext
       DEF EngineTypes, EngineTypeOK
<1>4. QED
  BY <1>2, <1>3

LEMMA DequeuePlaces ==
  ASSUME EngineTypes, AcceptedInOnePlace, NEW t \in Tasks, Dequeue(t)
  PROVE  AcceptedInOnePlace'
<1>1. HandsMatch' /\ fate' = fate
  BY DequeueTypes DEF EngineTypes, Dequeue
<1>2. /\ hand[t] = NoPacket
      /\ hand' = [hand EXCEPT ![t] = Head(queue)]
      /\ Head(queue) \in Packets
  BY HeadTailProperties DEF EngineTypes, EngineTypeOK, HandsMatch, Dequeue
<1>3. /\ Elements(queue) = Elements(queue') \cup {Head(queue)}
      /\ Distinct(queue) => Distinct(queue') /\ Head(queue) \notin Elements(queue')
  BY TakeElements DEF EngineTypes, EngineTypeOK, Dequeue
<1>4. \A u \in Tasks : hand'[u] = IF u = t THEN Head(queue) ELSE hand[u]
  BY <1>2 DEF EngineTypes, EngineTypeOK
<1>5. Head(queue) # NoPacket /\ \A u \in Tasks : hand[u] # Head(queue)
  BY <1>2, <1>3, PlacesRephrased, EngineAssumption
<1>6. \A p \in Packets : (\E u \in Tasks : hand'[u] = p) <=>
                           (p = Head(queue) \/ \E u \in Tasks : hand[u] = p)
  BY <1>2, <1>4, EngineAssumption
<1>7. QED
  BY <1>1, <1>3, <1>4, <1>5, <1>6, PlacesRephrased, PlacesRephrasedNext

LEMMA ResumePlaces ==
  ASSUME EngineTypes, AcceptedInOnePlace, NEW t \in Tasks,
         NEW stage \in Stages \ {"holding"}, Resume(t, stage)
  PROVE  AcceptedInOnePlace'
<1>1. /\ HandsMatch'
      /\ queue' = queue
      /\ hand[t] \in Packets
      /\ hand[t] # NoPacket
  BY ResumeHands DEF Resume
<1>2. \A u \in Tasks : hand'[u] = IF u = t THEN NoPacket ELSE hand[u]
  BY DEF EngineTypes, EngineTypeOK, Resume
<1>3. \A p \in Packets : fate'[p] = IF p = hand[t] THEN "analysed" ELSE fate[p]
  BY <1>1 DEF EngineTypes, EngineTypeOK, Resume
<1>4. \A p \in Packets : p # hand[t] =>
        ((\E u \in Tasks : hand'[u] = p) <=> (\E u \in Tasks : hand[u] = p))
  BY <1>2, EngineAssumption
<1>5. hand[t] \notin Elements(queue) /\ \A u \in Tasks : hand'[u] # hand[t]
  BY <1>1, <1>2, PlacesRephrased
<1>6. \A u \in Tasks : hand'[u] \notin Elements(queue)
  BY <1>2, PlacesRephrased, EngineAssumption, LenProperties, ElementOfSeq
     DEF EngineTypes, EngineTypeOK, Elements
<1>7. QED
  BY <1>1, <1>2, <1>3, <1>4, <1>5, <1>6, PlacesRephrased, PlacesRephrasedNext

LEMMA AnalyseResumes ==
  ASSUME NEW t \in Tasks, Analyse(t)
  PROVE  \E stage \in Stages \ {"holding"} : Resume(t, stage)
BY DEF Analyse, AnalyseRaises, AnalyseClean, DetectSuppressed, DetectByRule, DetectByScore,
       BackToLoop, Stages

(* The steps that move no packet. *)
LEMMA OtherPlaces ==
  ASSUME AcceptedInOnePlace, HandsMatch', UNCHANGED <<queue, hand, fate>>
  PROVE  AcceptedInOnePlace'
BY PlacesRephrased, PlacesRephrasedNext

LEMMA NextPlaces ==
  EngineTypes /\ AcceptedInOnePlace /\ [EngineNext]_engineVars => AcceptedInOnePlace'
<1>. SUFFICES ASSUME EngineTypes, AcceptedInOnePlace, [EngineNext]_engineVars
              PROVE  AcceptedInOnePlace'
  OBVIOUS
<1>1. HandsMatch'
  BY NextTypes DEF EngineTypes
<1>2. ASSUME NEW p \in Packets, Submit(p)
      PROVE  AcceptedInOnePlace'
  BY <1>2, SubmitPlaces
<1>3. ASSUME NEW t \in Tasks, Dequeue(t)
      PROVE  AcceptedInOnePlace'
  BY <1>3, DequeuePlaces
<1>4. ASSUME NEW t \in Tasks, Analyse(t)
      PROVE  AcceptedInOnePlace'
  BY <1>4, AnalyseResumes, ResumePlaces
<1>5. CASE \/ \E active \in SUBSET Rules : LoadRules(active)
           \/ \E crew \in SUBSET Tasks : Start(crew)
           \/ Stop \/ TickerExit \/ Tick \/ UNCHANGED engineVars
           \/ \E t \in Tasks : Cancel(t) \/ TimeoutWhenStopped(t) \/ FinishEmit(t)
  <2>1. UNCHANGED <<queue, hand, fate>>
    BY <1>5 DEF LoadRules, Start, Stop, TickerExit, Tick, Cancel, TimeoutWhenStopped,
                FinishEmit, engineVars
  <2>2. QED
    BY <1>1, <2>1, OtherPlaces
<1>6. QED
  BY <1>2, <1>3, <1>4, <1>5 DEF EngineNext

LEMMA InitPlaces == EngineInit => AcceptedInOnePlace
<1>. SUFFICES ASSUME EngineInit
              PROVE  AcceptedInOnePlace
  OBVIOUS
<1>1. Elements(queue) = {} /\ Distinct(queue)
  BY EmptySeq DEF EngineInit, Elements, Distinct
<1>2. QED
  BY <1>1, InitTypes, PlacesRephrased, EngineAssumption DEF EngineTypes, EngineInit

(* No start, stop, timeout, cancellation or failing analysis ever loses a packet
   or lets two workers have it. *)
THEOREM NoPacketLost == EngineSpec => []AcceptedInOnePlace
BY InitTypes, InitPlaces, NextTypes, NextPlaces, PTL DEF EngineSpec
----------------------------------------------------------------------------
(* CrewComplete needs to know that stop leaves nobody listed and that no
   undelivered cancel() is aimed at a listed worker or at an unborn task. *)
CrewInv ==
  /\ CrewComplete
  /\ ~running => workers = {}
  /\ \A t \in cancelled : task[t] # "unborn" /\ t \notin workers

LEMMA InitCrew == EngineInit => CrewInv
BY DEF EngineInit, CrewInv, CrewComplete

LEMMA StartCrew ==
  ASSUME EngineTypes, CrewInv, NEW crew \in SUBSET Tasks, Start(crew)
  PROVE  CrewInv'
<1>1. workers' = crew /\ running' /\ Cardinality(crew) = WorkerCount /\ cancelled' = cancelled
  BY DEF CrewInv, Start
<1>2. \A t \in crew : task'[t] = "waiting" /\ task[t] = "unborn"
  BY DEF Start
<1>3. \A t \in crew : t \notin cancelled
  BY <1>2 DEF CrewInv
<1>4. \A t \in cancelled : task'[t] # "unborn" /\ t \notin crew
  BY <1>2, <1>3 DEF EngineTypes, EngineTypeOK, CrewInv, Start
<1>5. tickers' > 0
  BY DEF EngineTypes, EngineTypeOK, Start
<1>6. QED
  BY <1>1, <1>2, <1>3, <1>4, <1>5 DEF CrewInv, CrewComplete

LEMMA StopCrew ==
  ASSUME EngineTypes, CrewInv, Stop
  PROVE  CrewInv'
BY DEF EngineTypes, EngineTypeOK, CrewInv, CrewComplete, Stop

(* A step of one task: it stays out of "unborn", and a listed worker stays alive. *)
LEMMA TaskStepCrew ==
  ASSUME EngineTypes, CrewInv, NEW t \in Tasks, NEW stage \in Stages \ {"unborn"},
         UNCHANGED <<running, workers, tickers>>,
         task' = [task EXCEPT ![t] = stage],
         cancelled' \subseteq cancelled,
         running /\ t \notin cancelled => stage # "finished"
  PROVE  CrewInv'
BY DEF EngineTypes, EngineTypeOK, CrewInv, CrewComplete

LEMMA NextCrew == EngineTypes /\ CrewInv /\ [EngineNext]_engineVars => CrewInv'
<1>. SUFFICES ASSUME EngineTypes, CrewInv, [EngineNext]_engineVars
              PROVE  CrewInv'
  OBVIOUS
<1>1. CASE \/ \E active \in SUBSET Rules : LoadRules(active)
           \/ \E p \in Packets : Submit(p)
           \/ Tick \/ UNCHANGED engineVars
  <2>1. UNCHANGED <<running, workers, task, cancelled, tickers>>
    BY <1>1 DEF LoadRules, Submit, Tick, engineVars
  <2>2. QED
    BY <2>1 DEF CrewInv, CrewComplete
<1>2. CASE TickerExit
  BY <1>2 DEF CrewInv, CrewComplete, TickerExit
<1>3. ASSUME NEW t \in Tasks, Dequeue(t)
      PROVE  CrewInv'
  BY <1>3, TaskStepCrew DEF Dequeue, Stages
<1>4. ASSUME NEW t \in Tasks, Cancel(t)
      PROVE  CrewInv'
  BY <1>4, TaskStepCrew DEF Cancel, Stages
<1>5. ASSUME NEW t \in Tasks, TimeoutWhenStopped(t)
      PROVE  CrewInv'
  BY <1>5, TaskStepCrew DEF TimeoutWhenStopped, Stages
<1>6. ASSUME NEW t \in Tasks, FinishEmit(t)
      PROVE  CrewInv'
  BY <1>6, TaskStepCrew DEF FinishEmit, BackToLoop, Stages
<1>7. ASSUME NEW t \in Tasks, Analyse(t)
      PROVE  CrewInv'
  <2>1. PICK stage \in {"emitting", BackToLoop} : Resume(t, stage)
    BY <1>7 DEF Analyse, AnalyseRaises, AnalyseClean, DetectSuppressed, DetectByRule,
                DetectByScore
  <2>2. stage \in Stages \ {"unborn"} /\ (running => stage # "finished")
    BY <2>1 DEF BackToLoop, Stages
  <2>3. QED
    BY <2>1, <2>2, TaskStepCrew DEF Resume
<1>8. QED
  BY <1>1, <1>2, <1>3, <1>4, <1>5, <1>6, <1>7, StartCrew, StopCrew DEF EngineNext

(* A running engine keeps all its workers: what an analysis raises and what an
   earlier stop cancelled never reach them. *)
THEOREM CrewAlwaysComplete == EngineSpec => []CrewComplete
<1>1. CrewInv => CrewComplete
  BY DEF CrewInv
<1>2. QED
  BY <1>1, InitTypes, InitCrew, NextTypes, NextCrew, PTL DEF EngineSpec
----------------------------------------------------------------------------
(* EmissionsSpaced rests on the cache being at least as recent as every event. *)
SpacingInv ==
  /\ EmissionsSpaced
  /\ \A e \in emitted : e.at <= clock
  /\ \A e \in emitted : e.by \in Rules /\ Window[e.by] > 0
                          => lastSeen[<<e.by, FlowOf[e.pkt]>>] >= e.at
  /\ \A k \in Keys : lastSeen[k] <= clock

LEMMA InitSpacing == EngineInit => SpacingInv
BY DEF EngineInit, SpacingInv, EmissionsSpaced

(* Time passing, or a new sighting of a key, keeps all of it. *)
LEMMA QuietSpacing ==
  ASSUME EngineTypes, SpacingInv, emitted' = emitted, clock' >= clock, clock' \in Nat,
         \A k \in Keys : lastSeen'[k] = lastSeen[k] \/ lastSeen'[k] = clock'
  PROVE  SpacingInv'
<1>1. \A e \in emitted : /\ e.at \in Nat /\ e.pkt \in Packets
                         /\ e.by \in Rules => <<e.by, FlowOf[e.pkt]>> \in Keys
  BY EngineAssumption DEF EngineTypes, EngineTypeOK, Events, Keys
<1>2. clock \in Nat /\ \A k \in Keys : lastSeen[k] \in Nat
  BY EngineAssumption DEF EngineTypes, EngineTypeOK
<1>3. EmissionsSpaced'
  BY DEF SpacingInv, EmissionsSpaced
<1>4. ASSUME NEW e \in emitted'
      PROVE  e.at <= clock'
  <2>1. e \in emitted /\ e.at <= clock /\ e.at \in Nat
    BY <1>1 DEF SpacingInv
  <2>2. QED
    BY <1>2, <2>1
<1>5. \A k \in Keys : lastSeen'[k] <= clock'
  BY <1>2 DEF SpacingInv
<1>6. ASSUME NEW e \in emitted', e.by \in Rules, Window[e.by] > 0
      PROVE  lastSeen'[<<e.by, FlowOf[e.pkt]>>] >= e.at
  BY <1>1, <1>2, <1>4, <1>6 DEF SpacingInv
<1>7. QED
  BY <1>3, <1>4, <1>5, <1>6 DEF SpacingInv

(* A new event of a suppressed rule comes more than a window after the last sighting. *)
LEMMA RuleEventSpacing ==
  ASSUME EngineTypes, SpacingInv, NEW t \in Tasks, NEW rule \in Rules, NEW stage \in Stages,
         DetectByRule(t, rule, stage)
  PROVE  SpacingInv'
<1>1. hand[t] \in Packets /\ clock \in Nat /\ clock' = clock /\ clock # 0
  BY DEF EngineTypes, EngineTypeOK, HandsMatch, DetectByRule, Resume
<1>. DEFINE key == KeyOf(t, rule)
            new == EventOf(t, rule)
<1>2. key \in Keys /\ key = <<rule, FlowOf[hand[t]]>>
  BY <1>1, EngineAssumption DEF KeyOf, Keys
<1>3. new.pkt = hand[t] /\ new.by = rule /\ new.at = clock
  BY DEF EventOf
<1>4. emitted' = emitted \cup {new}
  BY DEF DetectByRule
<1>5. /\ \A e \in emitted : /\ e.at \in Nat /\ e.pkt \in Packets
                            /\ e.by \in Rules => <<e.by, FlowOf[e.pkt]>> \in Keys
      /\ \A k \in Keys : lastSeen[k] \in Nat
      /\ Window[rule] \in Nat
  BY EngineAssumption DEF EngineTypes, EngineTypeOK, Events, Keys
<1>6. \A k \in Keys : lastSeen'[k] = IF k = key /\ Window[rule] > 0 THEN clock ELSE lastSeen[k]
  BY <1>2 DEF EngineTypes, EngineTypeOK, DetectByRule, Sighting
<1>7. ASSUME Window[rule] > 0, NEW e \in emitted, e.by = rule, FlowOf[e.pkt] = FlowOf[hand[t]]
      PROVE  clock - e.at > Window[rule]
  <2>1. lastSeen[key] >= e.at
    BY <1>2, <1>7 DEF SpacingInv
  <2>2. e.at # 0 /\ e.at \in Nat /\ lastSeen[key] \in Nat /\ Window[rule] \in Nat
    BY <1>2, <1>5 DEF EngineTypes, EngineTypeOK, Events
  <2>3. lastSeen[key] # 0
    BY <2>1, <2>2
  <2>4. ~(clock - lastSeen[key] <= Window[rule])
    BY <1>7, <2>3 DEF DetectByRule, IsSuppressed
  <2>5. QED
    BY <1>1, <2>1, <2>2, <2>4
<1>8. EmissionsSpaced'
  <2>1. SUFFICES ASSUME NEW d \in emitted', NEW e \in emitted', d # e, d.by = e.by, d.by \in Rules,
                        FlowOf[d.pkt] = FlowOf[e.pkt], Window[d.by] > 0
                 PROVE  d.at - e.at > Window[d.by] \/ e.at - d.at > Window[d.by]
    BY DEF EmissionsSpaced
  <2>2. CASE d \in emitted /\ e \in emitted
    BY <2>1, <2>2 DEF SpacingInv, EmissionsSpaced
  <2>3. CASE d = new
    BY <1>3, <1>4, <1>7, <2>1, <2>3
  <2>4. CASE e = new
    BY <1>3, <1>4, <1>7, <2>1, <2>4
  <2>5. QED
    BY <1>4, <2>2, <2>3, <2>4
<1>9. \A e \in emitted' : e.at <= clock'
  BY <1>1, <1>3, <1>4 DEF SpacingInv
<1>10. ASSUME NEW e \in emitted', e.by \in Rules, Window[e.by] > 0
       PROVE  lastSeen'[<<e.by, FlowOf[e.pkt]>>] >= e.at
  BY <1>1, <1>2, <1>3, <1>4, <1>5, <1>6, <1>10 DEF SpacingInv
<1>11. \A k \in Keys : lastSeen'[k] <= clock'
  BY <1>1, <1>6 DEF SpacingInv
<1>12. QED
  BY <1>8, <1>9, <1>10, <1>11 DEF SpacingInv

LEMMA ScoreEventSpacing ==
  ASSUME EngineTypes, SpacingInv, NEW t \in Tasks, NEW stage \in Stages,
         DetectByScore(t, stage)
  PROVE  SpacingInv'
<1>1. clock \in Nat /\ clock' = clock /\ lastSeen' = lastSeen
  BY DEF EngineTypes, EngineTypeOK, DetectByScore, Resume
<1>2. EventOf(t, ML).by \notin Rules /\ EventOf(t, ML).at = clock
  BY EngineAssumption DEF EventOf
<1>3. emitted' = emitted \cup {EventOf(t, ML)}
  BY DEF DetectByScore
<1>4. EmissionsSpaced'
  BY <1>2, <1>3 DEF SpacingInv, EmissionsSpaced
<1>5. QED
  BY <1>1, <1>2, <1>3, <1>4 DEF SpacingInv

LEMMA NextSpacing == EngineTypes /\ SpacingInv /\ [EngineNext]_engineVars => SpacingInv'
<1>. SUFFICES ASSUME EngineTypes, SpacingInv, [EngineNext]_engineVars
              PROVE  SpacingInv'
  OBVIOUS
<1>1. clock \in Nat
  BY DEF EngineTypes, EngineTypeOK
<1>2. ASSUME NEW t \in Tasks, Analyse(t)
      PROVE  SpacingInv'
  <2>1. CASE AnalyseRaises(t) \/ AnalyseClean(t)
    BY <1>1, <2>1, QuietSpacing DEF AnalyseRaises, AnalyseClean, Resume
  <2>2. ASSUME NEW rule \in Rules, DetectSuppressed(t, rule)
        PROVE  SpacingInv'
    <3>1. emitted' = emitted /\ clock' = clock
      BY <2>2 DEF DetectSuppressed, Resume
    <3>2. \A k \in Keys : lastSeen'[k] = lastSeen[k] \/ lastSeen'[k] = clock'
      BY <2>2, <3>1 DEF EngineTypes, EngineTypeOK, DetectSuppressed, Sighting
    <3>3. QED
      BY <1>1, <3>1, <3>2, QuietSpacing
  <2>3. QED
    BY <1>2, <2>1, <2>2, RuleEventSpacing, ScoreEventSpacing DEF Analyse
<1>3. CASE Tick
  BY <1>1, <1>3, QuietSpacing DEF Tick
<1>4. CASE \/ \E active \in SUBSET Rules : LoadRules(active)
           \/ \E p \in Packets : Submit(p)
           \/ \E crew \in SUBSET Tasks : Start(crew)
           \/ Stop \/ TickerExit \/ UNCHANGED engineVars
           \/ \E t \in Tasks : Dequeue(t) \/ Cancel(t) \/ TimeoutWhenStopped(t) \/ FinishEmit(t)
  <2>1. UNCHANGED <<emitted, clock, lastSeen>>
    BY <1>4 DEF LoadRules, Submit, Start, Stop, TickerExit, Dequeue, Cancel,
                TimeoutWhenStopped, FinishEmit, engineVars
  <2>2. QED
    BY <1>1, <2>1, QuietSpacing
<1>5. QED
  BY <1>2, <1>3, <1>4 DEF EngineNext

(* Suppression works: no two events of a rule and a flow within the rule's window,
   across reloads of the rules and restarts of the engine. *)
THEOREM SuppressionHolds == EngineSpec => []EmissionsSpaced
<1>1. SpacingInv => EmissionsSpaced
  BY DEF SpacingInv
<1>2. QED
  BY <1>1, InitTypes, InitSpacing, NextTypes, NextSpacing, PTL DEF EngineSpec
----------------------------------------------------------------------------
(* The books balance because an event is about a packet that is out of every hand:
   a step that emits makes the set of emissions one larger. *)
BalanceInv ==
  /\ CountersBalance
  /\ IsFiniteSet(emitted)
  /\ \A e \in emitted : fate[e.pkt] = "analysed"

LEMMA HoldersCount ==
  ASSUME NEW S \in SUBSET Tasks
  PROVE  /\ IsFiniteSet(S)
         /\ Cardinality(S) \in Nat
         /\ \A t \in Tasks \ S : Cardinality(S \cup {t}) = Cardinality(S) + 1
         /\ \A t \in S : Cardinality(S \ {t}) = Cardinality(S) - 1
<1>1. IsFiniteSet(S)
  BY EngineAssumption, FS_Subset
<1>2. Cardinality(S) \in Nat
  BY <1>1, FS_CardinalityType
<1>3. \A t \in Tasks \ S : Cardinality(S \cup {t}) = Cardinality(S) + 1
  BY <1>1, FS_AddElement
<1>4. \A t \in S : Cardinality(S \ {t}) = Cardinality(S) - 1
  BY <1>1, FS_RemoveElement
<1>5. QED
  BY <1>1, <1>2, <1>3, <1>4

LEMMA InitBalance == EngineInit => BalanceInv
<1>. SUFFICES ASSUME EngineInit
              PROVE  BalanceInv
  OBVIOUS
<1>1. Holders = {} /\ emitted = {} /\ QSize = 0
  BY DEF EngineInit, Holders, QSize
<1>2. IsFiniteSet({}) /\ Cardinality({}) = 0
  BY FS_EmptySet
<1>3. /\ metrics.received = 0 /\ metrics.dropped = 0 /\ metrics.processed = 0
      /\ metrics.events = 0 /\ failed = 0 /\ suppressed = 0
  BY DEF EngineInit
<1>4. QED
  BY <1>1, <1>2, <1>3 DEF BalanceInv, CountersBalance

(* The balance, with what arithmetic needs to know of its terms. *)
Books ==
  /\ metrics.received \in Nat /\ metrics.dropped \in Nat /\ metrics.processed \in Nat
  /\ metrics.events \in Nat /\ failed \in Nat /\ suppressed \in Nat
  /\ QSize \in Nat /\ Cardinality(Holders) \in Nat /\ Cardinality(emitted) \in Nat
  /\ metrics.received = metrics.dropped + QSize + Cardinality(Holders)
                          + metrics.processed + failed
  /\ metrics.events = Cardinality(emitted) + suppressed
  /\ metrics.events <= metrics.processed

LEMMA BooksHold ==
  ASSUME EngineTypes, BalanceInv
  PROVE  Books
<1>1. metrics \in Metrics /\ queue \in Seq(Packets) /\ Holders \in SUBSET Tasks
  BY DEF EngineTypes, EngineTypeOK, Holders
<1>2. Cardinality(Holders) \in Nat /\ Cardinality(emitted) \in Nat
  BY <1>1, HoldersCount, FS_CardinalityType DEF BalanceInv
<1>3. QED
  BY <1>1, <1>2, MetricsFields, LenProperties
     DEF Books, QSize, BalanceInv, CountersBalance, EngineTypes, EngineTypeOK

LEMMA SubmitBalance ==
  ASSUME EngineTypes, BalanceInv, NEW p \in Packets, Submit(p)
  PROVE  BalanceInv'
<1>1. Holders' = Holders /\ UNCHANGED <<emitted, failed, suppressed>>
  BY DEF Submit, Holders
<1>2. \A e \in emitted : e.pkt # p
  BY DEF BalanceInv, Submit
<1>3. \A e \in emitted' : fate'[e.pkt] = "analysed"
  BY <1>1, <1>2 DEF BalanceInv, EngineTypes, EngineTypeOK, Events, Submit
<1>4. /\ metrics'.received = metrics.received + 1
      /\ metrics'.processed = metrics.processed
      /\ metrics'.events = metrics.events
      /\ metrics'.dropped = IF QueueFull THEN metrics.dropped + 1 ELSE metrics.dropped
  BY DEF EngineTypes, EngineTypeOK, Metrics, Submit
<1>5. QSize' = IF QueueFull THEN QSize ELSE QSize + 1
  BY AppendProperties DEF EngineTypes, EngineTypeOK, Submit, QSize
<1>6. Books
  BY BooksHold
<1>7. CASE QueueFull
  <2>1. metrics'.dropped = metrics.dropped + 1 /\ QSize' = QSize
    BY <1>4, <1>5, <1>7
  <2>2. CountersBalance'
    BY <1>1, <1>4, <1>6, <2>1 DEF Books, CountersBalance
  <2>3. QED
    BY <1>1, <1>3, <2>2 DEF BalanceInv
<1>8. CASE ~QueueFull
  <2>1. metrics'.dropped = metrics.dropped /\ QSize' = QSize + 1
    BY <1>4, <1>5, <1>8
  <2>2. CountersBalance'
    BY <1>1, <1>4, <1>6, <2>1 DEF Books, CountersBalance
  <2>3. QED
    BY <1>1, <1>3, <2>2 DEF BalanceInv
<1>9. QED
  BY <1>7, <1>8

LEMMA DequeueBalance ==
  ASSUME EngineTypes, BalanceInv, NEW t \in Tasks, Dequeue(t)
  PROVE  BalanceInv'
<1>1. UNCHANGED <<emitted, failed, suppressed, metrics, fate>>
  BY DEF Dequeue
<1>2. Holders' = Holders \cup {t} /\ t \in Tasks \ Holders /\ Holders \in SUBSET Tasks
  BY DEF EngineTypes, EngineTypeOK, Dequeue, Holders
<1>3. Cardinality(Holders') = Cardinality(Holders) + 1
  BY <1>2, HoldersCount
<1>4. QSize' = QSize - 1
  BY HeadTailProperties DEF EngineTypes, EngineTypeOK, Dequeue, QSize
<1>5. Books
  BY BooksHold
<1>6. CountersBalance'
  BY <1>1, <1>3, <1>4, <1>5 DEF Books, CountersBalance
<1>7. QED
  BY <1>1, <1>6 DEF BalanceInv

(* A resumed worker frees one hand, and its packet becomes one that events may be about. *)
LEMMA ResumeBalance ==
  ASSUME EngineTypes, BalanceInv, AcceptedInOnePlace, NEW t \in Tasks,
         NEW stage \in Stages \ {"holding"}, Resume(t, stage)
  PROVE  /\ Cardinality(Holders') = Cardinality(Holders) - 1
         /\ QSize' = QSize
         /\ hand[t] \in Packets
         /\ fate'[hand[t]] = "analysed"
         /\ \A e \in emitted : fate'[e.pkt] = "analysed" /\ e.pkt # hand[t]
<1>1. Holders' = Holders \ {t} /\ t \in Holders /\ Holders \in SUBSET Tasks
  BY DEF EngineTypes, EngineTypeOK, Resume, Holders
<1>2. Cardinality(Holders') = Cardinality(Holders) - 1
  BY <1>1, HoldersCount
<1>3. hand[t] \in Packets /\ fate[hand[t]] = "accepted"
  BY ResumeHands DEF AcceptedInOnePlace
<1>4. fate' = [fate EXCEPT ![hand[t]] = "analysed"] /\ QSize' = QSize
  BY DEF Resume, QSize
<1>5. \A e \in emitted : e.pkt \in Packets /\ e.pkt # hand[t]
  BY <1>3 DEF BalanceInv, EngineTypes, EngineTypeOK, Events
<1>6. QED
  BY <1>2, <1>3, <1>4, <1>5 DEF BalanceInv, EngineTypes, EngineTypeOK

LEMMA DetectionMetrics ==
  ASSUME EngineTypes, CountDetection
  PROVE  /\ metrics'.received = metrics.received
         /\ metrics'.dropped = metrics.dropped
         /\ metrics'.processed = metrics.processed + 1
         /\ metrics'.events = metrics.events + 1
BY DEF EngineTypes, EngineTypeOK, Metrics, CountDetection

(* Emitting makes the set of emissions one larger. *)
LEMMA EmitBalance ==
  ASSUME EngineTypes, BalanceInv, AcceptedInOnePlace, NEW t \in Tasks, NEW by,
         NEW stage \in Stages \ {"holding"}, Resume(t, stage), CountDetection,
         emitted' = emitted \cup {EventOf(t, by)}, UNCHANGED <<failed, suppressed>>
  PROVE  BalanceInv'
<1>1. EventOf(t, by).pkt = hand[t]
  BY DEF EventOf
<1>2. EventOf(t, by) \notin emitted
  BY <1>1, ResumeBalance
<1>3. IsFiniteSet(emitted') /\ Cardinality(emitted') = Cardinality(emitted) + 1
  BY <1>2, FS_AddElement DEF BalanceInv
<1>4. \A e \in emitted' : fate'[e.pkt] = "analysed"
  BY <1>1, ResumeBalance
<1>5. Books /\ Cardinality(Holders') = Cardinality(Holders) - 1 /\ QSize' = QSize
  BY BooksHold, ResumeBalance
<1>6. CountersBalance'
  BY <1>3, <1>5, DetectionMetrics DEF Books, CountersBalance
<1>7. QED
  BY <1>3, <1>4, <1>6 DEF BalanceInv

LEMMA AnalyseBalance ==
  ASSUME EngineTypes, BalanceInv, AcceptedInOnePlace, NEW t \in Tasks, Analyse(t)
  PROVE  BalanceInv'
<1>0. BackToLoop \in Stages \ {"holding"} /\ "emitting" \in Stages \ {"holding"}
  BY DEF BackToLoop, Stages
<1>1. ASSUME NEW stage \in Stages \ {"holding"}, Resume(t, stage)
      PROVE  Books /\ Cardinality(Holders') = Cardinality(Holders) - 1 /\ QSize' = QSize
  BY <1>1, BooksHold, ResumeBalance
<1>2. CASE AnalyseRaises(t)
  <2>1. Resume(t, BackToLoop) /\ UNCHANGED <<metrics, emitted, suppressed>> /\ failed' = failed + 1
    BY <1>2 DEF AnalyseRaises
  <2>2. CountersBalance'
    BY <1>0, <1>1, <2>1 DEF Books, CountersBalance
  <2>3. QED
    BY <1>0, <2>1, <2>2, ResumeBalance DEF BalanceInv
<1>3. CASE AnalyseClean(t)
  <2>1. Resume(t, BackToLoop) /\ UNCHANGED <<emitted, failed, suppressed>>
    BY <1>3 DEF AnalyseClean
  <2>2. /\ metrics'.received = metrics.received /\ metrics'.dropped = metrics.dropped
        /\ metrics'.processed = metrics.processed + 1 /\ metrics'.events = metrics.events
    BY <1>3 DEF EngineTypes, EngineTypeOK, Metrics, AnalyseClean
  <2>3. CountersBalance'
    BY <1>0, <1>1, <2>1, <2>2 DEF Books, CountersBalance
  <2>4. QED
    BY <1>0, <2>1, <2>3, ResumeBalance DEF BalanceInv
<1>4. ASSUME NEW rule \in Rules, DetectSuppressed(t, rule)
      PROVE  BalanceInv'
  <2>1. /\ Resume(t, BackToLoop) /\ CountDetection
        /\ UNCHANGED <<emitted, failed>> /\ suppressed' = suppressed + 1
    BY <1>4 DEF DetectSuppressed
  <2>2. CountersBalance'
    BY <1>0, <1>1, <2>1, DetectionMetrics DEF Books, CountersBalance
  <2>3. QED
    BY <1>0, <2>1, <2>2, ResumeBalance DEF BalanceInv
<1>5. ASSUME NEW rule \in Rules, NEW stage \in Stages, DetectByRule(t, rule, stage)
      PROVE  BalanceInv'
  BY <1>0, <1>5, EmitBalance DEF DetectByRule
<1>6. ASSUME NEW stage \in Stages, DetectByScore(t, stage)
      PROVE  BalanceInv'
  BY <1>0, <1>6, EmitBalance DEF DetectByScore
<1>7. QED
  BY <1>2, <1>3, <1>4, <1>5, <1>6 DEF Analyse

LEMMA NextBalance ==
  EngineTypes /\ AcceptedInOnePlace /\ BalanceInv /\ [EngineNext]_engineVars => BalanceInv'
<1>. SUFFICES ASSUME EngineTypes, AcceptedInOnePlace, BalanceInv, [EngineNext]_engineVars
              PROVE  BalanceInv'
  OBVIOUS
<1>1. CASE \/ \E active \in SUBSET Rules : LoadRules(active)
           \/ \E crew \in SUBSET Tasks : Start(crew)
           \/ Stop \/ TickerExit \/ Tick \/ UNCHANGED engineVars
           \/ \E t \in Tasks : Cancel(t) \/ TimeoutWhenStopped(t) \/ FinishEmit(t)
  <2>1. UNCHANGED <<queue, metrics, fate, emitted, failed, suppressed>>
    BY <1>1 DEF LoadRules, Start, Stop, TickerExit, Tick, Cancel, TimeoutWhenStopped,
                FinishEmit, engineVars
  <2>2. Holders' = Holders
    BY <1>1 DEF EngineTypes, EngineTypeOK, Holders, LoadRules, Start, Stop, TickerExit, Tick,
                Cancel, TimeoutWhenStopped, FinishEmit, BackToLoop, engineVars
  <2>3. QED
    BY <2>1, <2>2 DEF BalanceInv, CountersBalance, QSize
<1>2. QED
  BY <1>1, SubmitBalance, DequeueBalance, AnalyseBalance DEF EngineNext

(* The counters add up at every moment, whatever is dropped, raised or suppressed. *)
THEOREM BooksBalance == EngineSpec => []CountersBalance
<1>1. BalanceInv => CountersBalance
  BY DEF BalanceInv
<1>2. QED
  BY <1>1, InitTypes, InitPlaces, InitBalance, NextTypes, NextPlaces, NextBalance, PTL
     DEF EngineSpec
----------------------------------------------------------------------------
(* Every step of the engine is a step of PacketFate or leaves its state alone. *)
LEMMA StepKeepsPromise ==
  EngineTypes /\ AcceptedInOnePlace /\ [EngineNext]_engineVars
    => [Promise!FateNext]_(Promise!fateVars)
<1>. SUFFICES ASSUME EngineTypes, AcceptedInOnePlace, [EngineNext]_engineVars
              PROVE  [Promise!FateNext]_(Promise!fateVars)
  OBVIOUS
<1>1. ASSUME NEW p \in Packets, Submit(p)
      PROVE  Promise!Accept(p) \/ Promise!Reject(p)
  <2>1. Len(queue) \in Nat /\ QueueCap \in Nat
    BY LenProperties, EngineAssumption DEF EngineTypes, EngineTypeOK
  <2>2. QED
    BY <1>1, <2>1 DEF Submit, QueueFull, QSize, Promise!Accept, Promise!Reject
<1>2. ASSUME NEW t \in Tasks, Dequeue(t)
      PROVE  Promise!Take
  BY <1>2 DEF Dequeue, Promise!Take
<1>3. ASSUME NEW t \in Tasks, Analyse(t)
      PROVE  \E p \in Packets : Promise!Finish(p)
  <2>1. PICK stage \in Stages \ {"holding"} : Resume(t, stage)
    BY <1>3, AnalyseResumes
  <2>2. hand[t] \in Packets /\ fate[hand[t]] = "accepted" /\ hand[t] \notin Elements(queue)
    BY <2>1, ResumeHands, PlacesRephrased
  <2>3. Promise!Finish(hand[t])
    BY <2>1, <2>2 DEF Resume, Promise!Finish, Elements
  <2>4. QED
    BY <2>2, <2>3
<1>4. CASE \/ \E active \in SUBSET Rules : LoadRules(active)
           \/ \E crew \in SUBSET Tasks : Start(crew)
           \/ Stop \/ TickerExit \/ Tick \/ UNCHANGED engineVars
           \/ \E t \in Tasks : Cancel(t) \/ TimeoutWhenStopped(t) \/ FinishEmit(t)
  BY <1>4 DEF LoadRules, Start, Stop, TickerExit, Tick, Cancel, TimeoutWhenStopped,
              FinishEmit, engineVars, Promise!fateVars
<1>5. QED
  BY <1>1, <1>2, <1>3, <1>4 DEF EngineNext, Promise!FateNext

(* The engine implements PacketFate: refused only by a full queue, taken in order,
   analysed at most once and only after leaving the queue, never forgotten. *)
THEOREM EngineKeepsPromise == EngineSpec => FateRefined
<1>1. EngineInit => Promise!FateInit
  BY DEF EngineInit, Promise!FateInit
<1>2. QED
  BY <1>1, InitTypes, InitPlaces, NextTypes, NextPlaces, StepKeepsPromise, PTL
     DEF EngineSpec, FateRefined, Promise!FateSpec
============================================================================
