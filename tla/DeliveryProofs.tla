--------------------------- MODULE DeliveryProofs ---------------------------
(***************************************************************************)
(* Proofs about what carries an event and an alert away: EventPath, for    *)
(* any set of messages, any number of faults and any number of processes;  *)
(* and NotificationWorker, for any alerts, channels and worker threads,    *)
(* any bound of the queue, any retry budget and any window.                *)
(*                                                                         *)
(* The two components share nothing; each part stands alone.               *)
(***************************************************************************)
EXTENDS EventPath, NotificationWorker, FiniteSetTheorems, SequenceTheorems, TLAPS

-----------------------------------------------------------------------------
(* EventPath.                                                              *)

(* Where the consumer thread can be: a message is in hand, and a connection is open, only
   while it consumes; there is no thread without a process, nor in direct mode. *)
ThreadPlaced ==
  /\ link => thread = "consuming"
  /\ inHand # NoMessage => thread = "consuming"
  /\ handedOver => inHand # NoMessage
  /\ mode = "direct" \/ phase = "down" => thread = "none" /\ ~keepOn

(* A thread that stop_consumer caught outside _connect_consumer never gets back to it. *)
Silenced ==
  phase \in {"closing", "closed"} /\ ~overtaken => ~keepOn /\ thread # "connecting" /\ ~link

(* What has been handed over is scheduled, stored or lost; what is in hand without a
   connection is also back in the queue. *)
Settled(m) == m \in Elems(table) \cup Elems(scheduled) \/ lost[m] # {}

HandAccounted ==
  /\ handedOver => Settled(inHand)
  /\ inHand # NoMessage /\ ~link => inHand \in Elems(ready)

PathTypes == EventPathTypeOK /\ ThreadPlaced
PathInv == PathTypes /\ Silenced /\ HandAccounted /\ EventsAccounted

(* The message that has yet to be handed over. *)
Offered == IF handedOver \/ inHand = NoMessage THEN {} ELSE {inHand}

Known ==
  Elems(table) \cup Elems(scheduled) \cup ({inHand} \ {NoMessage}) \cup Elems(ready)
    \subseteq Elems(emitted)

Ascending(rank, s) == \A i, j \in DOMAIN s : i < j => rank[s[i]] < rank[s[j]]
Ahead(rank, S, T)  == \A m \in S, n \in T : rank[m] < rank[n]

(* Rows, scheduled coroutines, the message to be handed over and the queue are in line. *)
InLine(rank, rows, tasks, offer, waiting) ==
  /\ Ascending(rank, rows) /\ Ascending(rank, tasks) /\ Ascending(rank, waiting)
  /\ Ahead(rank, Elems(rows), Elems(tasks) \cup offer \cup Elems(waiting))
  /\ Ahead(rank, Elems(tasks), offer \cup Elems(waiting))
  /\ Ahead(rank, offer, Elems(waiting))

Ranks == [m \in Messages |-> Rank(m)]

(* They are, in the order of emission, until a redelivery. *)
OrderInv ==
  /\ \A i, j \in DOMAIN emitted : emitted[i] = emitted[j] => i = j
  /\ Known
  /\ mode = "direct" => ready = <<>> /\ scheduled = <<>>
  /\ ~redelivered => /\ inHand # NoMessage => link
                     /\ InLine(Ranks, table, scheduled, Offered, ready)
----------------------------------------------------------------------------
(* The elements of a sequence under the operations of the queues. *)
LEMMA ElemsOfAppend ==
  ASSUME NEW S, NEW s \in Seq(S), NEW e \in S
  PROVE  /\ Append(s, e) \in Seq(S)
         /\ Elems(Append(s, e)) = Elems(s) \cup {e}
<1>1. /\ Append(s, e) \in Seq(S)
      /\ DOMAIN Append(s, e) = 1..(Len(s) + 1) /\ DOMAIN s = 1..Len(s) /\ Len(s) \in Nat
      /\ \A i \in DOMAIN s : Append(s, e)[i] = s[i]
      /\ Append(s, e)[Len(s) + 1] = e
  BY AppendProperties, LenProperties
<1>2. QED
  BY <1>1 DEF Elems

LEMMA ElemsOfHeadTail ==
  ASSUME NEW S, NEW s \in Seq(S), s # <<>>
  PROVE  /\ Head(s) \in S /\ Tail(s) \in Seq(S)
         /\ Elems(s) = {Head(s)} \cup Elems(Tail(s))
<1>1. /\ Head(s) \in S /\ Tail(s) \in Seq(S)
      /\ DOMAIN s = 1..Len(s) /\ Len(s) \in Nat \ {0} /\ Head(s) = s[1]
      /\ DOMAIN Tail(s) = 1..(Len(s) - 1)
      /\ \A i \in DOMAIN Tail(s) : Tail(s)[i] = s[i + 1]
  BY HeadTailProperties, LenProperties, EmptySeq
<1>2. \A i \in DOMAIN s : i = 1 \/ (i - 1 \in DOMAIN Tail(s) /\ Tail(s)[i - 1] = s[i])
  BY <1>1
<1>3. ASSUME NEW e \in Elems(s)
      PROVE  e \in {Head(s)} \cup Elems(Tail(s))
  <2>1. PICK i \in DOMAIN s : e = s[i]
    BY <1>3 DEF Elems
  <2>2. i = 1 \/ \E j \in DOMAIN Tail(s) : e = Tail(s)[j]
    BY <1>2, <2>1
  <2>3. QED
    BY <1>1, <2>1, <2>2 DEF Elems
<1>4. ASSUME NEW e \in {Head(s)} \cup Elems(Tail(s))
      PROVE  e \in Elems(s)
  <2>1. \A i \in DOMAIN Tail(s) : i + 1 \in DOMAIN s
    BY <1>1
  <2>2. QED
    BY <1>1, <2>1 DEF Elems
<1>5. QED
  BY <1>1, <1>3, <1>4

LEMMA ElemsOfCons ==
  ASSUME NEW S, NEW s \in Seq(S), NEW e \in S
  PROVE  /\ <<e>> \o s \in Seq(S)
         /\ Elems(<<e>> \o s) = {e} \cup Elems(s)
<1>1. <<e>> \in Seq(S) /\ Len(<<e>>) = 1 /\ <<e>>[1] = e
  OBVIOUS
<1>2. /\ <<e>> \o s \in Seq(S)
      /\ DOMAIN (<<e>> \o s) = 1..(Len(s) + 1) /\ DOMAIN s = 1..Len(s) /\ Len(s) \in Nat
      /\ (<<e>> \o s)[1] = e
      /\ \A i \in DOMAIN s : (<<e>> \o s)[i + 1] = s[i]
  BY <1>1, ConcatProperties, LenProperties
<1>3. \A i \in 1..(Len(s) + 1) : i = 1 \/ (i - 1 \in DOMAIN s /\ (<<e>> \o s)[i] = s[i - 1])
  BY <1>2
<1>4. ASSUME NEW x \in Elems(<<e>> \o s)
      PROVE  x \in {e} \cup Elems(s)
  BY <1>2, <1>3 DEF Elems
<1>5. ASSUME NEW x \in {e} \cup Elems(s)
      PROVE  x \in Elems(<<e>> \o s)
  <2>1. \A i \in DOMAIN s : i + 1 \in DOMAIN (<<e>> \o s)
    BY <1>2
  <2>2. 1 \in DOMAIN (<<e>> \o s)
    BY <1>2
  <2>3. QED
    BY <1>2, <2>1, <2>2 DEF Elems
<1>6. QED
  BY <1>2, <1>4, <1>5

LEMMA ElemsOfEmpty == Elems(<<>>) = {}
BY DEF Elems
----------------------------------------------------------------------------
(* What the server puts back is in the queue. *)
LEMMA RequeuedType ==
  ASSUME BrokerTypeOK
  PROVE  /\ Requeued \in Seq(Messages)
         /\ Elems(Requeued) = Elems(ready) \cup (IF link /\ inHand # NoMessage THEN {inHand} ELSE {})
<1>1. CASE link /\ inHand # NoMessage
  BY <1>1, ElemsOfCons DEF Requeued, BrokerTypeOK
<1>2. CASE ~(link /\ inHand # NoMessage)
  BY <1>2 DEF Requeued, BrokerTypeOK
<1>3. QED
  BY <1>1, <1>2

LEMMA PublisherTypes ==
  ASSUME BrokerTypeOK,
         \/ \E m \in Messages : PublishStored(m)
         \/ PublishRaises \/ PublishVanishes \/ ChannelClosed \/ PublisherIdles \/ ServerBack
  PROVE  BrokerTypeOK'
<1>1. ASSUME NEW m \in Messages, PublishStored(m)
      PROVE  BrokerTypeOK'
  BY <1>1, ElemsOfAppend DEF BrokerTypeOK, PublishStored, PublisherStates
<1>2. QED
  BY <1>1 DEF BrokerTypeOK, PublishRaises, PublishVanishes, ChannelClosed, PublisherIdles,
              ServerBack, PublisherStates, brokerVars

LEMMA ConsumerTypes ==
  ASSUME BrokerTypeOK,
         \/ StartConsumer \/ LoopTest \/ ConnectConsumer \/ ConnectFails \/ Deliver
         \/ OnMessageReturns \/ Ack \/ Nack \/ NoticeLinkLost
  PROVE  BrokerTypeOK'
<1>1. CASE Deliver
  BY <1>1, ElemsOfHeadTail DEF BrokerTypeOK, Deliver
<1>2. CASE Ack \/ Nack
  BY <1>2 DEF BrokerTypeOK, Ack, Nack, LeaveCallback, FinallyClause, ThreadStates
<1>3. CASE ~(Deliver \/ Ack \/ Nack)
  BY <1>3 DEF BrokerTypeOK, StartConsumer, LoopTest, ConnectConsumer, ConnectFails,
              OnMessageReturns, NoticeLinkLost, FinallyClause, ThreadStates
<1>4. QED
  BY <1>1, <1>2, <1>3

LEMMA EndTypes ==
  ASSUME BrokerTypeOK,
         \/ LinkLost \/ ServerDown \/ ConsumerChannelClosed \/ ConnectBreaks
         \/ StopConsumer \/ StopConsumerRaises \/ ProcessGone
  PROVE  BrokerTypeOK'
<1>1. CASE LinkLost \/ ServerDown \/ ConsumerChannelClosed \/ ConnectBreaks
  BY <1>1, RequeuedType DEF BrokerTypeOK, LinkLost, ServerDown, ConsumerChannelClosed,
                            ConnectBreaks, PublisherStates, ThreadStates
<1>2. CASE StopConsumer \/ StopConsumerRaises \/ ProcessGone
  BY <1>2, RequeuedType DEF BrokerTypeOK, StopConsumer, StopConsumerRaises, ProcessGone,
                            PublisherStates, ThreadStates
<1> QED
  BY <1>1, <1>2

LEMMA LoseType ==
  ASSUME lost \in [Messages -> SUBSET Causes], NEW ms, NEW cause \in Causes, Lose(ms, cause)
  PROVE  /\ lost' \in [Messages -> SUBSET Causes]
         /\ \A m \in Messages : lost[m] \subseteq lost'[m] /\ (m \in ms => lost'[m] # {})
BY DEF Lose

LEMMA FaultType ==
  ASSUME faults \in 0..MaxFaults, Fault
  PROVE  faults' \in 0..MaxFaults
BY EventPathAssumption DEF Fault

(* What on_event_detected does to the table, to the playbooks and to the losses. *)
LEMMA DetectedTypes ==
  ASSUME table \in Seq(Messages), playbooks \subseteq DOMAIN table,
         lost \in [Messages -> SUBSET Causes], faults \in 0..MaxFaults,
         NEW m \in Messages, OnEventDetected(m)
  PROVE  /\ table' \in Seq(Messages) /\ playbooks' \subseteq DOMAIN table'
         /\ lost' \in [Messages -> SUBSET Causes] /\ faults' \in 0..MaxFaults
         /\ \A n \in Messages : lost[n] \subseteq lost'[n]
         /\ Elems(table) \subseteq Elems(table')
         /\ \/ table' = Append(table, m) /\ m \in Elems(table')
            \/ table' = table /\ lost'[m] # {}
<1>1. CASE StoresAndQueues(m) \/ StoresOnly(m)
  <2>1. /\ table' = Append(table, m)
        /\ playbooks' \subseteq playbooks \cup {Len(table) + 1}
        /\ lost' = lost
        /\ faults' \in 0..MaxFaults
    BY <1>1, FaultType DEF StoresAndQueues, StoresOnly
  <2>2. DOMAIN table' = 1..(Len(table) + 1) /\ DOMAIN table = 1..Len(table) /\ Len(table) \in Nat
    BY <2>1, AppendProperties, LenProperties
  <2>3. playbooks' \subseteq DOMAIN table'
    BY <2>1, <2>2
  <2>4. QED
    BY <2>1, <2>3, ElemsOfAppend
<1>2. CASE StoresNothing(m)
  <2>1. Lose({m}, "database") /\ Fault /\ table' = table /\ playbooks' = playbooks
    BY <1>2 DEF StoresNothing
  <2>2. QED
    BY <2>1, LoseType, FaultType DEF Causes
<1>3. QED
  BY <1>1, <1>2 DEF OnEventDetected
----------------------------------------------------------------------------
(* Types and the thread's place, step by step. *)
LEMMA EmitTypes ==
  ASSUME PathTypes, NEW m \in Messages, EmitDirect(m) \/ EmitPublished(m)
  PROVE  PathTypes'
<1>1. emitted' \in Seq(Messages)
  <2>1. emitted \in Seq(Messages) /\ emitted' = Append(emitted, m)
    BY DEF PathTypes, EventPathTypeOK, EmitDirect, EmitPublished, Emits
  <2>2. QED
    BY <2>1, ElemsOfAppend
<1>2. CASE EmitDirect(m)
  <2>1. /\ table' \in Seq(Messages) /\ playbooks' \subseteq DOMAIN table'
        /\ lost' \in [Messages -> SUBSET Causes] /\ faults' \in 0..MaxFaults
    BY <1>2, DetectedTypes DEF EmitDirect, PathTypes, EventPathTypeOK
  <2>2. UNCHANGED <<brokerVars, mode, phase, starts, scheduled, redelivered, overtaken>>
    BY <1>2 DEF EmitDirect
  <2>3. QED
    BY <1>1, <2>1, <2>2 DEF PathTypes, EventPathTypeOK, ThreadPlaced, BrokerTypeOK, brokerVars
<1>3. CASE EmitPublished(m)
  <2>1. BrokerTypeOK' /\ UNCHANGED <<thread, keepOn, link, inHand, handedOver>>
    BY <1>3, PublisherTypes
       DEF EmitPublished, PathTypes, EventPathTypeOK, PublishStored, PublishRaises,
           PublishVanishes, brokerVars
  <2>2. lost' \in [Messages -> SUBSET Causes]
    BY <1>3, LoseType DEF EmitPublished, PathTypes, EventPathTypeOK, Causes
  <2>3. UNCHANGED <<mode, phase, starts, scheduled, table, playbooks, redelivered, overtaken,
                    faults>>
    BY <1>3 DEF EmitPublished
  <2>4. QED
    BY <1>1, <2>1, <2>2, <2>3 DEF PathTypes, EventPathTypeOK, ThreadPlaced
<1>4. QED
  BY <1>2, <1>3

LEMMA RunTypes ==
  ASSUME PathTypes, RunScheduled
  PROVE  PathTypes'
<1>1. Head(scheduled) \in Messages /\ scheduled' \in Seq(Messages)
  BY ElemsOfHeadTail DEF PathTypes, EventPathTypeOK, RunScheduled
<1>2. /\ table' \in Seq(Messages) /\ playbooks' \subseteq DOMAIN table'
      /\ lost' \in [Messages -> SUBSET Causes] /\ faults' \in 0..MaxFaults
  BY <1>1, DetectedTypes DEF RunScheduled, PathTypes, EventPathTypeOK
<1>3. UNCHANGED <<brokerVars, mode, phase, starts, emitted, redelivered, overtaken>>
  BY DEF RunScheduled
<1>4. QED
  BY <1>1, <1>2, <1>3 DEF PathTypes, EventPathTypeOK, ThreadPlaced, BrokerTypeOK, brokerVars

LEMMA HandOverTypes ==
  ASSUME PathTypes, HandOver
  PROVE  PathTypes'
<1>1. inHand \in Messages /\ scheduled' \in Seq(Messages)
  BY AppendProperties
     DEF PathTypes, EventPathTypeOK, BrokerTypeOK, HandOver, OnMessageReturns
<1>2. BrokerTypeOK'
  BY ConsumerTypes DEF PathTypes, EventPathTypeOK, HandOver
<1>3. QED
  BY <1>1, <1>2 DEF PathTypes, EventPathTypeOK, ThreadPlaced, HandOver, OnMessageReturns

LEMMA AnswerTypes ==
  ASSUME PathTypes, Acknowledge \/ Refuse
  PROVE  PathTypes'
<1>1. BrokerTypeOK' /\ LeaveCallback /\ inHand # NoMessage
  BY ConsumerTypes DEF PathTypes, EventPathTypeOK, Acknowledge, Refuse, Ack, Nack
<1>2. lost' \in [Messages -> SUBSET Causes]
  BY LoseType DEF PathTypes, EventPathTypeOK, Acknowledge, Refuse, pathVars, Causes
<1>3. UNCHANGED <<mode, phase, starts, scheduled, table, playbooks, emitted, redelivered,
                  overtaken, faults>>
  BY DEF Acknowledge, Refuse, pathVars
<1>4. ThreadPlaced'
  BY <1>1, <1>3 DEF PathTypes, EventPathTypeOK, BrokerTypeOK, ThreadPlaced, LeaveCallback,
                    FinallyClause
<1>5. QED
  BY <1>1, <1>2, <1>3, <1>4 DEF PathTypes, EventPathTypeOK

LEMMA ConsumerStepTypes ==
  ASSUME PathTypes, ConsumerStep
  PROVE  PathTypes'
<1>1. BrokerTypeOK' /\ UNCHANGED pathVars
  BY ConsumerTypes DEF ConsumerStep, PathTypes, EventPathTypeOK
<1>2. ThreadPlaced'
  BY DEF PathTypes, ThreadPlaced, ConsumerStep, LoopTest, ConnectConsumer, ConnectFails, Deliver,
         NoticeLinkLost, FinallyClause, pathVars, EventPathTypeOK, BrokerTypeOK
<1>3. QED
  BY <1>1, <1>2 DEF PathTypes, EventPathTypeOK, pathVars

LEMMA FaultTypes ==
  ASSUME PathTypes, ConnectionFault \/ ServerRestored
  PROVE  PathTypes'
<1>1. BrokerTypeOK'
  BY PublisherTypes, EndTypes
     DEF ConnectionFault, ServerRestored, PathTypes, EventPathTypeOK
<1>2. /\ UNCHANGED <<keepOn, inHand, handedOver>> /\ (link' => link)
      /\ thread' = thread \/ thread = "connecting"
  BY DEF ConnectionFault, ServerRestored, LinkLost, ServerDown, ChannelClosed, PublisherIdles,
         ConsumerChannelClosed, ConnectBreaks, ServerBack
<1>3. /\ UNCHANGED <<mode, phase, starts, scheduled, table, playbooks, emitted, lost, overtaken>>
      /\ redelivered' \in BOOLEAN /\ faults' \in 0..MaxFaults
  BY FaultType DEF ConnectionFault, ServerRestored, MayRedeliver, pathVars, PathTypes,
                   EventPathTypeOK
<1>4. QED
  BY <1>1, <1>2, <1>3 DEF PathTypes, EventPathTypeOK, ThreadPlaced

LEMMA LifespanTypes ==
  ASSUME PathTypes, StartUp \/ ShutDown \/ CloseLoop \/ Exit \/ Crash
  PROVE  PathTypes'
<1>1. CASE StartUp
  <2>1. BrokerTypeOK'
    BY <1>1, ConsumerTypes
       DEF StartUp, PathTypes, EventPathTypeOK, BrokerTypeOK, brokerVars
  <2>2. starts' \in 0..MaxStarts /\ phase' \in Phases
    BY <1>1, EventPathAssumption DEF StartUp, PathTypes, EventPathTypeOK, Phases
  <2>3. ThreadPlaced'
    BY <1>1 DEF PathTypes, EventPathTypeOK, ThreadPlaced, StartUp, StartConsumer, brokerVars
  <2>4. QED
    BY <1>1, <2>1, <2>2, <2>3 DEF PathTypes, EventPathTypeOK, StartUp
<1>2. CASE ShutDown
  <2>1. BrokerTypeOK'
    BY <1>2, EndTypes DEF ShutDown, PathTypes, EventPathTypeOK, BrokerTypeOK, brokerVars
  <2>2. redelivered' \in BOOLEAN /\ overtaken' \in BOOLEAN /\ phase' \in Phases
    BY <1>2 DEF ShutDown, MayRedeliver, PathTypes, EventPathTypeOK, Phases
  <2>3. ThreadPlaced'
    BY <1>2 DEF PathTypes, EventPathTypeOK, ThreadPlaced, ShutDown, StopConsumer,
                StopConsumerRaises, brokerVars
  <2>4. QED
    BY <1>2, <2>1, <2>2, <2>3 DEF PathTypes, EventPathTypeOK, ShutDown
<1>3. CASE CloseLoop
  <2>1. lost' \in [Messages -> SUBSET Causes]
    BY <1>3, LoseType DEF CloseLoop, PathTypes, EventPathTypeOK, Causes
  <2>2. scheduled' \in Seq(Messages)
    BY <1>3, EmptySeq DEF CloseLoop
  <2>3. QED
    BY <1>3, <2>1, <2>2 DEF PathTypes, EventPathTypeOK, ThreadPlaced, BrokerTypeOK, CloseLoop,
                            Phases, brokerVars
<1>4. CASE Exit \/ Crash
  <2>1. BrokerTypeOK' /\ ThreadPlaced'
    BY <1>4, EndTypes DEF Exit, Crash, ProcessGone, PathTypes, EventPathTypeOK, ThreadPlaced
  <2>2. lost' \in [Messages -> SUBSET Causes]
    BY <1>4, LoseType DEF Exit, Crash, PathTypes, EventPathTypeOK, Causes
  <2>3. scheduled' \in Seq(Messages) /\ faults' \in 0..MaxFaults
    BY <1>4, EmptySeq, FaultType DEF Exit, Crash, PathTypes, EventPathTypeOK
  <2>4. /\ redelivered' \in BOOLEAN /\ overtaken' = FALSE /\ phase' = "down"
        /\ UNCHANGED <<mode, starts, table, playbooks, emitted>>
    BY <1>4 DEF Exit, Crash, MayRedeliver, PathTypes, EventPathTypeOK
  <2>5. QED
    BY <2>1, <2>2, <2>3, <2>4 DEF PathTypes, EventPathTypeOK, Phases
<1>5. QED
  BY <1>1, <1>2, <1>3, <1>4

LEMMA InitPathTypes == EventInit => PathTypes
<1>. SUFFICES ASSUME EventInit
              PROVE  PathTypes
  OBVIOUS
<1>1. BrokerTypeOK /\ ThreadPlaced
  BY EmptySeq DEF EventInit, BrokerInit, BrokerTypeOK, PublisherStates, ThreadStates, ThreadPlaced
<1>2. starts \in 0..MaxStarts /\ faults \in 0..MaxFaults
  BY EventPathAssumption DEF EventInit
<1>3. scheduled \in Seq(Messages) /\ table \in Seq(Messages) /\ emitted \in Seq(Messages)
  BY EmptySeq DEF EventInit
<1>4. /\ mode \in {"direct", "broker"} /\ phase \in Phases /\ playbooks \subseteq DOMAIN table
      /\ lost \in [Messages -> SUBSET Causes]
      /\ redelivered \in BOOLEAN /\ overtaken \in BOOLEAN
  BY DEF EventInit, Phases
<1>5. QED
  BY <1>1, <1>2, <1>3, <1>4 DEF PathTypes, EventPathTypeOK

LEMMA NextPathTypes == PathTypes /\ [EventNext]_eventVars => PathTypes'
<1>. SUFFICES ASSUME PathTypes, [EventNext]_eventVars
              PROVE  PathTypes'
  OBVIOUS
<1>1. CASE UNCHANGED eventVars
  BY <1>1 DEF eventVars, brokerVars, pathVars, PathTypes, EventPathTypeOK, BrokerTypeOK,
              ThreadPlaced
<1>2. QED
  BY <1>1, EmitTypes, RunTypes, HandOverTypes, AnswerTypes, ConsumerStepTypes, FaultTypes,
     LifespanTypes DEF EventNext
----------------------------------------------------------------------------
LEMMA NextSilenced ==
  ASSUME PathTypes, Silenced, [EventNext]_eventVars
  PROVE  Silenced'
<1>1. ASSUME NEW m \in Messages, EmitDirect(m) \/ EmitPublished(m)
      PROVE  Silenced'
  BY <1>1 DEF Silenced, EmitDirect, EmitPublished, PublishStored, PublishRaises,
              PublishVanishes, brokerVars
<1>2. CASE RunScheduled \/ HandOver \/ Acknowledge \/ Refuse
  BY <1>2 DEF Silenced, RunScheduled, HandOver, OnMessageReturns, Acknowledge, Refuse, Ack, Nack,
              LeaveCallback, FinallyClause, brokerVars, pathVars
<1>3. CASE ConsumerStep
  BY <1>3 DEF Silenced, ConsumerStep, LoopTest, ConnectConsumer, ConnectFails, Deliver,
              NoticeLinkLost, FinallyClause, pathVars
<1>4. CASE ConnectionFault \/ ServerRestored
  BY <1>4 DEF Silenced, ConnectionFault, ServerRestored, LinkLost, ServerDown, ChannelClosed,
              ConsumerChannelClosed, ConnectBreaks, PublisherIdles, ServerBack, pathVars
<1>5. CASE StartUp \/ CloseLoop \/ Exit \/ Crash
  BY <1>5 DEF Silenced, StartUp, CloseLoop, Exit, Crash, brokerVars
<1>6. CASE ShutDown
  <2>1. CASE mode = "broker"
    BY <1>6, <2>1 DEF Silenced, ShutDown, StopConsumer, StopConsumerRaises
  <2>2. CASE mode # "broker"
    BY <1>6, <2>2 DEF Silenced, ShutDown, PathTypes, EventPathTypeOK, ThreadPlaced, brokerVars
  <2>3. QED
    BY <2>1, <2>2
<1>7. CASE UNCHANGED eventVars
  BY <1>7 DEF Silenced, eventVars, brokerVars, pathVars
<1>8. QED
  BY <1>1, <1>2, <1>3, <1>4, <1>5, <1>6, <1>7 DEF EventNext
----------------------------------------------------------------------------
Accounted == HandAccounted /\ EventsAccounted

(* Where a message may be, so that it is accounted for. *)
Held(m) == m \in Elems(table) \cup Elems(ready) \cup Elems(scheduled) \cup {inHand} \/ lost[m] # {}

(* A step that settles what it hands over and keeps hold of everything else. *)
LEMMA KeepsAccounts ==
  ASSUME PathInv, PathTypes', emitted' = emitted,
         \A m \in Messages : Held(m) => Held(m)',
         \A m \in Messages : Settled(m) => Settled(m)',
         /\ handedOver' => Settled(inHand)' \/ (handedOver /\ inHand' = inHand)
         /\ inHand' # NoMessage /\ ~link' => inHand' \in Elems(ready')
  PROVE  Accounted'
<1>1. Elems(emitted) \subseteq Messages
  BY LenProperties, ElementOfSeq DEF PathInv, PathTypes, EventPathTypeOK, Elems
<1>2. EventsAccounted'
  BY <1>1 DEF PathInv, EventsAccounted, Held, Elems
<1>3. HandAccounted'
  BY DEF PathInv, PathTypes, EventPathTypeOK, BrokerTypeOK, ThreadPlaced, HandAccounted
<1>4. QED
  BY <1>2, <1>3 DEF Accounted

LEMMA EmitAccounts ==
  ASSUME PathInv, PathTypes', NEW m \in Messages, EmitDirect(m) \/ EmitPublished(m)
  PROVE  Accounted'
<1>1. /\ emitted \in Seq(Messages) /\ emitted' = Append(emitted, m)
      /\ table \in Seq(Messages) /\ ready \in Seq(Messages)
  BY DEF PathInv, PathTypes, EventPathTypeOK, BrokerTypeOK, EmitDirect, EmitPublished, Emits
<1>2. Elems(emitted') = Elems(emitted) \cup {m} /\ Elems(emitted) \subseteq Messages
  <2>1. Elems(emitted) \subseteq Messages
    BY <1>1, LenProperties, ElementOfSeq DEF Elems
  <2>2. QED
    BY <1>1, <2>1, ElemsOfAppend
<1>3. /\ \A n \in Messages : lost[n] \subseteq lost'[n]
      /\ Elems(table) \subseteq Elems(table') /\ Elems(ready) \subseteq Elems(ready')
      /\ m \in Elems(table') \cup Elems(ready') \/ lost'[m] # {}
      /\ UNCHANGED <<scheduled, link, inHand, handedOver>>
  <2>1. CASE EmitDirect(m)
    <3>1. UNCHANGED <<ready, scheduled, link, inHand, handedOver>>
      BY <2>1 DEF EmitDirect, brokerVars
    <3>2. QED
      BY <2>1, <3>1, DetectedTypes DEF EmitDirect, PathInv, PathTypes, EventPathTypeOK
  <2>2. CASE EmitPublished(m)
    <3>1. UNCHANGED <<table, scheduled, link, inHand, handedOver>>
      BY <2>2 DEF EmitPublished, PublishStored, PublishRaises, PublishVanishes, brokerVars
    <3>2. CASE PublishStored(m) /\ UNCHANGED lost
      BY <1>1, <3>1, <3>2, ElemsOfAppend DEF PublishStored
    <3>3. ASSUME NEW cause \in Causes, Lose({m}, cause), ready' = ready
          PROVE  /\ \A n \in Messages : lost[n] \subseteq lost'[n]
                 /\ Elems(ready) \subseteq Elems(ready') /\ lost'[m] # {}
      BY <3>3, LoseType DEF PathInv, PathTypes, EventPathTypeOK
    <3>4. QED
      BY <2>2, <3>1, <3>2, <3>3
         DEF EmitPublished, PublishRaises, PublishVanishes, brokerVars, Causes
  <2>3. QED
    BY <2>1, <2>2
<1>4. EventsAccounted'
  BY <1>2, <1>3 DEF PathInv, EventsAccounted
<1>5. HandAccounted'
  BY <1>3 DEF PathInv, PathTypes, EventPathTypeOK, BrokerTypeOK, ThreadPlaced, HandAccounted,
              Settled
<1>6. QED
  BY <1>4, <1>5 DEF Accounted

LEMMA RunAccounts ==
  ASSUME PathInv, PathTypes', RunScheduled
  PROVE  Accounted'
<1>1. /\ Head(scheduled) \in Messages
      /\ Elems(scheduled) = {Head(scheduled)} \cup Elems(scheduled')
  BY ElemsOfHeadTail DEF PathInv, PathTypes, EventPathTypeOK, RunScheduled
<1>2. /\ \A n \in Messages : lost[n] \subseteq lost'[n]
      /\ Elems(table) \subseteq Elems(table')
      /\ Head(scheduled) \in Elems(table') \/ lost'[Head(scheduled)] # {}
  BY <1>1, DetectedTypes DEF PathInv, PathTypes, EventPathTypeOK, RunScheduled
<1>3. UNCHANGED <<ready, link, inHand, handedOver, emitted>>
  BY DEF RunScheduled, brokerVars
<1>4. \A m \in Messages : (Held(m) => Held(m)') /\ (Settled(m) => Settled(m)')
  BY <1>1, <1>2, <1>3 DEF Held, Settled
<1>5. QED
  BY <1>3, <1>4, KeepsAccounts DEF PathInv, HandAccounted

LEMMA HandOverAccounts ==
  ASSUME PathInv, PathTypes', HandOver
  PROVE  Accounted'
<1>1. /\ inHand \in Messages
      /\ Elems(scheduled') = Elems(scheduled) \cup {inHand}
  <2>1. inHand \in Messages /\ scheduled \in Seq(Messages)
    BY DEF PathInv, PathTypes, EventPathTypeOK, BrokerTypeOK, HandOver, OnMessageReturns
  <2>2. QED
    BY <2>1, ElemsOfAppend DEF HandOver
<1>2. UNCHANGED <<table, lost, ready, link, inHand, emitted>>
  BY DEF HandOver, OnMessageReturns
<1>3. \A m \in Messages : (Held(m) => Held(m)') /\ (Settled(m) => Settled(m)')
  BY <1>1, <1>2 DEF Held, Settled
<1>4. Settled(inHand)'
  BY <1>1, <1>2 DEF Settled
<1>5. QED
  BY <1>2, <1>3, <1>4, KeepsAccounts DEF PathInv, HandAccounted

LEMMA AnswerAccounts ==
  ASSUME PathInv, PathTypes', Acknowledge \/ Refuse
  PROVE  Accounted'
<1>1. /\ inHand # NoMessage /\ inHand \in Messages /\ inHand' = NoMessage /\ handedOver' = FALSE
      /\ UNCHANGED <<table, scheduled, ready, emitted>>
  BY DEF PathInv, PathTypes, EventPathTypeOK, BrokerTypeOK, Acknowledge, Refuse, Ack, Nack,
         LeaveCallback, pathVars
<1>2. \A n \in Messages : lost[n] \subseteq lost'[n]
  BY LoseType DEF Acknowledge, Refuse, pathVars, PathInv, PathTypes, EventPathTypeOK, Causes
<1>3. ASSUME NEW m \in Messages, m = inHand
      PROVE  Settled(m)' \/ m \in Elems(ready')
  <2>1. CASE Acknowledge
    <3>1. UNCHANGED <<table, scheduled, lost>> /\ handedOver
      BY <2>1 DEF Acknowledge, Ack, pathVars
    <3>2. Settled(m)
      BY <1>3, <3>1 DEF PathInv, HandAccounted
    <3>3. QED
      BY <3>1, <3>2 DEF Settled
  <2>2. CASE Refuse /\ ~link
    BY <1>1, <1>3, <2>2 DEF PathInv, HandAccounted
  <2>3. CASE Refuse /\ link
    <3>1. Lose({m}, "nack")
      BY <1>3, <2>3 DEF Refuse
    <3>2. lost'[m] # {}
      BY <3>1, LoseType DEF PathInv, PathTypes, EventPathTypeOK, Causes
    <3>3. QED
      BY <3>2 DEF Settled
  <2>4. QED
    BY <2>1, <2>2, <2>3
<1>4. \A m \in Messages : (Held(m) => Held(m)') /\ (Settled(m) => Settled(m)')
  <2>1. \A m \in Messages : Settled(m) => Settled(m)'
    BY <1>1, <1>2 DEF Settled
  <2>2. \A m \in Messages : Held(m) => Settled(m) \/ m \in Elems(ready) \/ m = inHand
    BY DEF Held, Settled
  <2>3. \A m \in Messages : Settled(m)' \/ m \in Elems(ready') => Held(m)'
    BY DEF Held, Settled
  <2>4. QED
    BY <1>1, <1>3, <2>1, <2>2, <2>3
<1>5. QED
  BY <1>1, <1>4, KeepsAccounts

LEMMA ConsumerAccounts ==
  ASSUME PathInv, PathTypes', ConsumerStep
  PROVE  Accounted'
<1>1. UNCHANGED <<table, scheduled, lost, emitted>> /\ handedOver' = handedOver
  BY DEF ConsumerStep, pathVars, LoopTest, ConnectConsumer, ConnectFails, Deliver, NoticeLinkLost
<1>2. CASE Deliver
  <2>1. /\ Elems(ready) = {inHand'} \cup Elems(ready') /\ inHand = NoMessage /\ link'
        /\ inHand' # NoMessage
    BY <1>2, ElemsOfHeadTail, EventPathAssumption
       DEF Deliver, PathInv, PathTypes, EventPathTypeOK, BrokerTypeOK
  <2>2. ~handedOver
    BY <2>1 DEF PathInv, PathTypes, ThreadPlaced
  <2>3. \A m \in Messages : (Held(m) => Held(m)') /\ (Settled(m) => Settled(m)')
    BY <1>1, <2>1, EventPathAssumption DEF Held, Settled
  <2>4. QED
    BY <1>1, <2>1, <2>2, <2>3, KeepsAccounts
<1>3. CASE ~Deliver
  <2>1. UNCHANGED <<ready, inHand>> /\ (link => link') /\ (inHand # NoMessage => link' = link)
    BY <1>3 DEF ConsumerStep, LoopTest, ConnectConsumer, ConnectFails, NoticeLinkLost, PathInv,
                PathTypes, EventPathTypeOK, BrokerTypeOK, ThreadPlaced
  <2>2. \A m \in Messages : (Held(m) => Held(m)') /\ (Settled(m) => Settled(m)')
    BY <1>1, <2>1 DEF Held, Settled
  <2>3. QED
    BY <1>1, <2>1, <2>2, KeepsAccounts DEF PathInv, HandAccounted
<1>4. QED
  BY <1>2, <1>3

(* When a connection or the process ends, what is in hand goes back to the queue, or is
   there already, or is settled; what is scheduled is written off. *)
LEMMA EndAccounts ==
  ASSUME PathInv, PathTypes',
         UNCHANGED <<table, emitted>>,
         \A n \in Messages : lost[n] \subseteq lost'[n],
         \A n \in Elems(scheduled) : n \in Elems(scheduled') \/ lost'[n] # {},
         ready' \in {ready, Requeued},
         \/ inHand' = inHand /\ handedOver' = handedOver
         \/ inHand' = NoMessage /\ handedOver' = FALSE /\ ready' = Requeued,
         link' = link \/ (~link' /\ ready' = Requeued)
  PROVE  Accounted'
<1>1. /\ Elems(ready) \subseteq Elems(ready')
      /\ ready' = Requeued =>
           Elems(ready') = Elems(ready) \cup (IF link /\ inHand # NoMessage THEN {inHand} ELSE {})
  BY RequeuedType DEF PathInv, PathTypes, EventPathTypeOK
<1>2. inHand' = NoMessage /\ inHand # NoMessage => inHand \in Elems(ready')
  BY <1>1 DEF PathInv, HandAccounted, PathTypes, EventPathTypeOK, BrokerTypeOK
<1>3. inHand' # NoMessage /\ ~link' => inHand' \in Elems(ready')
  BY <1>1 DEF PathInv, HandAccounted, PathTypes, EventPathTypeOK, BrokerTypeOK
<1>4. \A m \in Messages : Settled(m) => Settled(m)'
  BY DEF Settled
<1>5. \A m \in Messages : Held(m) => Held(m)'
  BY <1>1, <1>2, EventPathAssumption DEF Held
<1>6. QED
  BY <1>3, <1>4, <1>5, KeepsAccounts

LEMMA NextAccounted == PathInv /\ PathTypes' /\ [EventNext]_eventVars => Accounted'
<1>. SUFFICES ASSUME PathInv, PathTypes', [EventNext]_eventVars
              PROVE  Accounted'
  OBVIOUS
<1>1. CASE ConnectionFault \/ ServerRestored
  <2>1. /\ UNCHANGED <<table, emitted, lost, scheduled, inHand, handedOver>>
        /\ ready' \in {ready, Requeued}
        /\ link' = link \/ (~link' /\ ready' = Requeued)
    BY <1>1 DEF ConnectionFault, ServerRestored, LinkLost, ServerDown, ChannelClosed,
                ConsumerChannelClosed, ConnectBreaks, PublisherIdles, ServerBack, pathVars
  <2>2. QED
    BY <2>1, EndAccounts
<1>2. CASE StartUp \/ ShutDown
  <2>1. /\ UNCHANGED <<table, emitted, lost, scheduled, inHand, handedOver>>
        /\ ready' \in {ready, Requeued}
        /\ link' = link \/ (~link' /\ ready' = Requeued)
    BY <1>2 DEF StartUp, ShutDown, StartConsumer, StopConsumer, StopConsumerRaises, brokerVars
  <2>2. QED
    BY <2>1, EndAccounts
<1>3. CASE CloseLoop \/ Crash \/ Exit
  <2>1. /\ \A n \in Messages : lost[n] \subseteq lost'[n]
        /\ \A n \in Elems(scheduled) : n \in Elems(scheduled') \/ lost'[n] # {}
    <3>1. Elems(scheduled) \subseteq Messages
      BY LenProperties, ElementOfSeq DEF PathInv, PathTypes, EventPathTypeOK, Elems
    <3>2. QED
      BY <1>3, <3>1, LoseType
         DEF CloseLoop, Crash, Exit, PathInv, PathTypes, EventPathTypeOK, Causes
  <2>2. /\ UNCHANGED <<table, emitted>>
        /\ ready' \in {ready, Requeued}
        /\ \/ inHand' = inHand /\ handedOver' = handedOver
           \/ inHand' = NoMessage /\ handedOver' = FALSE /\ ready' = Requeued
        /\ link' = link \/ (~link' /\ ready' = Requeued)
    BY <1>3 DEF CloseLoop, Crash, Exit, ProcessGone, brokerVars
  <2>3. QED
    BY <2>1, <2>2, EndAccounts
<1>4. CASE UNCHANGED eventVars
  BY <1>4, EndAccounts DEF eventVars, pathVars, brokerVars
<1>5. QED
  BY <1>1, <1>2, <1>3, <1>4, EmitAccounts, RunAccounts, HandOverAccounts, AnswerAccounts,
     ConsumerAccounts DEF EventNext

LEMMA InitPathInv == EventInit => PathInv
<1>1. EventInit => Silenced /\ HandAccounted /\ EventsAccounted
  BY ElemsOfEmpty DEF EventInit, BrokerInit, Silenced, HandAccounted, EventsAccounted
<1>2. QED
  BY <1>1, InitPathTypes DEF PathInv

LEMMA NextPathInv == PathInv /\ [EventNext]_eventVars => PathInv'
BY NextPathTypes, NextSilenced, NextAccounted DEF PathInv, Accounted

(* The variables of the event path and of the broker keep their types, and playbooks are
   queued only for rows that were committed. *)
THEOREM EventTypeCorrect == EventSpec => []EventPathTypeOK
<1>1. PathInv => EventPathTypeOK
  BY DEF PathInv, PathTypes
<1>2. QED
  BY <1>1, InitPathInv, NextPathInv, PTL DEF EventSpec

(* Every event the engine emitted is a row, on its way to one, or lost in a way the code has
   of losing it: publish raised or wrote to a dead server, on_message raised and the message
   was refused, the loop closed or the process died before the coroutine ran, or the
   database call failed. *)
THEOREM EventsKept == EventSpec => []EventsAccounted
<1>1. PathInv => EventsAccounted
  BY DEF PathInv
<1>2. QED
  BY <1>1, InitPathInv, NextPathInv, PTL DEF EventSpec

(* Once lifespan has stopped the consumer, nothing is consumed any more, unless
   stop_consumer found the thread connecting or raised. *)
THEOREM ConsumerSilenced == EventSpec => []StopSilencesConsumer
<1>1. PathInv => StopSilencesConsumer
  BY DEF PathInv, Silenced, StopSilencesConsumer
<1>2. QED
  BY <1>1, InitPathInv, NextPathInv, PTL DEF EventSpec
----------------------------------------------------------------------------
(* The order of the rows.  The line keeps its order when its parts are handed on, and when
   parts of it are dropped; what is emitted joins it at its end. *)
LEMMA AscendingAppend ==
  ASSUME NEW rank, NEW s \in Seq(Messages), NEW m \in Messages,
         Ascending(rank, s), Ahead(rank, Elems(s), {m})
  PROVE  Ascending(rank, Append(s, m))
<1>1. /\ DOMAIN Append(s, m) = 1..(Len(s) + 1) /\ DOMAIN s = 1..Len(s) /\ Len(s) \in Nat
      /\ \A i \in DOMAIN s : Append(s, m)[i] = s[i]
      /\ Append(s, m)[Len(s) + 1] = m
  BY AppendProperties, LenProperties
<1>2. SUFFICES ASSUME NEW i \in DOMAIN Append(s, m), NEW j \in DOMAIN Append(s, m), i < j
               PROVE  rank[Append(s, m)[i]] < rank[Append(s, m)[j]]
  BY DEF Ascending
<1>3. i \in DOMAIN s
  BY <1>1, <1>2
<1>4. CASE j \in DOMAIN s
  BY <1>1, <1>2, <1>3, <1>4 DEF Ascending
<1>5. CASE j = Len(s) + 1
  BY <1>1, <1>3, <1>5 DEF Ahead, Elems
<1>6. QED
  BY <1>1, <1>4, <1>5

LEMMA AscendingTail ==
  ASSUME NEW rank, NEW s \in Seq(Messages), s # <<>>, Ascending(rank, s)
  PROVE  /\ Ascending(rank, Tail(s))
         /\ Ahead(rank, {Head(s)}, Elems(Tail(s)))
<1>1. /\ DOMAIN s = 1..Len(s) /\ Len(s) \in Nat \ {0} /\ Head(s) = s[1]
      /\ DOMAIN Tail(s) = 1..(Len(s) - 1)
      /\ \A i \in DOMAIN Tail(s) : Tail(s)[i] = s[i + 1]
  BY HeadTailProperties, LenProperties, EmptySeq
<1>2. \A i \in DOMAIN Tail(s) : i + 1 \in DOMAIN s /\ 1 < i + 1 /\ i \in Int
  BY <1>1
<1>3. Ascending(rank, Tail(s))
  BY <1>1, <1>2 DEF Ascending
<1>4. \A i \in DOMAIN Tail(s) : rank[s[1]] < rank[s[i + 1]]
  BY <1>1, <1>2 DEF Ascending
<1>5. QED
  BY <1>1, <1>3, <1>4 DEF Ahead, Elems

(* RunScheduled: the head of the tasks becomes a row, or is dropped. *)
LEMMA RunInLine ==
  ASSUME NEW rank, NEW rows \in Seq(Messages), NEW tasks \in Seq(Messages), NEW offer,
         NEW waiting, tasks # <<>>, InLine(rank, rows, tasks, offer, waiting)
  PROVE  /\ InLine(rank, rows, Tail(tasks), offer, waiting)
         /\ InLine(rank, Append(rows, Head(tasks)), Tail(tasks), offer, waiting)
<1>. DEFINE m == Head(tasks)
<1>1. /\ m \in Messages /\ Elems(tasks) = {m} \cup Elems(Tail(tasks))
      /\ Elems(Append(rows, m)) = Elems(rows) \cup {m}
  BY ElemsOfHeadTail, ElemsOfAppend
<1>2. /\ Ascending(rank, Tail(tasks)) /\ Ahead(rank, {m}, Elems(Tail(tasks)))
  BY AscendingTail DEF InLine
<1>3. Ahead(rank, Elems(rows), {m}) /\ Ascending(rank, rows)
  BY <1>1 DEF InLine, Ahead
<1>4. Ascending(rank, Append(rows, m))
  BY <1>1, <1>3, AscendingAppend
<1>5. Ahead(rank, Elems(Append(rows, m)), Elems(Tail(tasks)) \cup offer \cup Elems(waiting))
  BY <1>1, <1>2 DEF InLine, Ahead
<1>6. InLine(rank, rows, Tail(tasks), offer, waiting)
  BY <1>1, <1>2 DEF InLine, Ahead
<1>7. QED
  BY <1>4, <1>5, <1>6 DEF InLine

(* HandOver: the message becomes the last of the tasks. *)
LEMMA HandOverInLine ==
  ASSUME NEW rank, NEW rows, NEW tasks \in Seq(Messages), NEW m \in Messages, NEW waiting,
         InLine(rank, rows, tasks, {m}, waiting)
  PROVE  InLine(rank, rows, Append(tasks, m), {}, waiting)
<1>1. Elems(Append(tasks, m)) = Elems(tasks) \cup {m}
  BY ElemsOfAppend
<1>2. Ascending(rank, Append(tasks, m))
  BY AscendingAppend DEF InLine, Ahead
<1>3. QED
  BY <1>1, <1>2 DEF InLine, Ahead

(* Deliver: the head of the queue is the message to be handed over. *)
LEMMA DeliverInLine ==
  ASSUME NEW rank, NEW rows, NEW tasks, NEW waiting \in Seq(Messages), waiting # <<>>,
         InLine(rank, rows, tasks, {}, waiting)
  PROVE  InLine(rank, rows, tasks, {Head(waiting)}, Tail(waiting))
<1>1. Elems(waiting) = {Head(waiting)} \cup Elems(Tail(waiting))
  BY ElemsOfHeadTail
<1>2. Ascending(rank, Tail(waiting)) /\ Ahead(rank, {Head(waiting)}, Elems(Tail(waiting)))
  BY AscendingTail DEF InLine
<1>3. QED
  BY <1>1, <1>2 DEF InLine, Ahead

(* A crash, a refusal or a closed loop drops parts of the line. *)
LEMMA DropInLine ==
  ASSUME NEW rank, NEW rows, NEW tasks, NEW offer, NEW waiting, NEW less \in SUBSET offer,
         InLine(rank, rows, tasks, offer, waiting)
  PROVE  /\ InLine(rank, rows, tasks, less, waiting)
         /\ InLine(rank, rows, <<>>, less, waiting)
BY ElemsOfEmpty DEF InLine, Ahead, Ascending

(* EmitPublished and EmitDirect: what comes after all the others joins at the end. *)
LEMMA EmitInLine ==
  ASSUME NEW rank, NEW rows \in Seq(Messages), NEW tasks, NEW offer, NEW waiting \in Seq(Messages),
         NEW m \in Messages, InLine(rank, rows, tasks, offer, waiting),
         Ahead(rank, Elems(rows) \cup Elems(tasks) \cup offer \cup Elems(waiting), {m})
  PROVE  /\ InLine(rank, rows, tasks, offer, Append(waiting, m))
         /\ tasks = <<>> /\ offer = {} /\ waiting = <<>> =>
              InLine(rank, Append(rows, m), tasks, offer, waiting)
<1>1. /\ Elems(Append(rows, m)) = Elems(rows) \cup {m}
      /\ Elems(Append(waiting, m)) = Elems(waiting) \cup {m}
  BY ElemsOfAppend
<1>2. Ascending(rank, Append(rows, m)) /\ Ascending(rank, Append(waiting, m))
  BY AscendingAppend DEF InLine, Ahead
<1>3. QED
  BY <1>1, <1>2, ElemsOfEmpty DEF InLine, Ahead

(* Only the ranks of what is in the line matter. *)
LEMMA SameRanksInLine ==
  ASSUME NEW rank, NEW rank2, NEW rows, NEW tasks, NEW offer, NEW waiting,
         InLine(rank, rows, tasks, offer, waiting),
         \A n \in Elems(rows) \cup Elems(tasks) \cup offer \cup Elems(waiting) :
           rank2[n] = rank[n]
  PROVE  InLine(rank2, rows, tasks, offer, waiting)
BY DEF InLine, Ahead, Ascending, Elems

(* The ranks of what has been emitted stay when one more event is; it comes last. *)
LEMMA RankGrows ==
  ASSUME emitted \in Seq(Messages), \A i, j \in DOMAIN emitted : emitted[i] = emitted[j] => i = j,
         NEW m \in Messages, Emits(m)
  PROVE  /\ \A i, j \in DOMAIN emitted' : emitted'[i] = emitted'[j] => i = j
         /\ Elems(emitted') = Elems(emitted) \cup {m}
         /\ \A n \in Elems(emitted) : Ranks'[n] = Ranks[n] /\ Ranks'[n] < Ranks'[m]
<1>1. emitted' = Append(emitted, m) /\ m \notin Elems(emitted)
  BY DEF Emits
<1>2. /\ DOMAIN emitted' = 1..(Len(emitted) + 1) /\ DOMAIN emitted = 1..Len(emitted)
      /\ Len(emitted) \in Nat
      /\ \A i \in DOMAIN emitted : emitted'[i] = emitted[i] /\ emitted[i] # m
                                   /\ emitted[i] \in Messages
      /\ emitted'[Len(emitted) + 1] = m
  BY <1>1, AppendProperties, LenProperties, ElementOfSeq DEF Elems
<1>3. \A i, j \in DOMAIN emitted' : emitted'[i] = emitted'[j] => i = j
  BY <1>2
<1>4. Ranks'[m] = Len(emitted) + 1
  <2>1. \A i \in DOMAIN emitted' : emitted'[i] = m <=> i = Len(emitted) + 1
    BY <1>2
  <2>2. Len(emitted) + 1 \in DOMAIN emitted'
    BY <1>2
  <2>3. Rank(m)' = Len(emitted) + 1
    BY <2>1, <2>2 DEF Rank
  <2>4. QED
    BY <2>3 DEF Ranks
<1>5. ASSUME NEW n \in Elems(emitted)
      PROVE  Ranks'[n] = Ranks[n] /\ Ranks'[n] < Ranks'[m]
  <2>1. PICK k \in DOMAIN emitted : emitted[k] = n
    BY DEF Elems
  <2>2. \A i \in DOMAIN emitted : emitted[i] = n <=> i = k
    BY <2>1
  <2>3. \A i \in DOMAIN emitted' : emitted'[i] = n <=> i = k
    BY <1>2, <1>3, <2>1
  <2>4. k \in DOMAIN emitted' /\ k < Len(emitted) + 1
    BY <1>2
  <2>5. Rank(n) = k
    BY <2>2 DEF Rank
  <2>6. Rank(n)' = k
    BY <2>3, <2>4 DEF Rank
  <2>7. Ranks[n] = k /\ Ranks'[n] = k
    BY <1>2, <2>1, <2>5, <2>6 DEF Ranks
  <2>8. QED
    BY <1>4, <2>4, <2>7
<1>6. QED
  BY <1>1, <1>3, <1>5, ElemsOfAppend

LEMMA SameRanks == emitted' = emitted => Ranks' = Ranks
BY DEF Ranks, Rank

LEMMA EmitOrder ==
  ASSUME PathTypes, OrderInv, NEW m \in Messages, EmitDirect(m) \/ EmitPublished(m)
  PROVE  OrderInv'
<1>1. /\ emitted \in Seq(Messages) /\ table \in Seq(Messages) /\ ready \in Seq(Messages)
      /\ Emits(m)
  BY DEF PathTypes, EventPathTypeOK, BrokerTypeOK, EmitDirect, EmitPublished
<1>2. /\ \A i, j \in DOMAIN emitted' : emitted'[i] = emitted'[j] => i = j
      /\ Elems(emitted') = Elems(emitted) \cup {m}
      /\ \A n \in Elems(emitted) : Ranks'[n] = Ranks[n] /\ Ranks'[n] < Ranks'[m]
  BY <1>1, RankGrows DEF OrderInv
<1>3. /\ UNCHANGED <<mode, scheduled, inHand, handedOver, link, redelivered>>
      /\ Offered' = Offered
  <2>1. CASE EmitDirect(m)
    BY <2>1 DEF EmitDirect, brokerVars, Offered
  <2>2. CASE EmitPublished(m)
    <3>1. UNCHANGED <<inHand, handedOver, link>>
      BY <2>2 DEF EmitPublished, PublishStored, PublishRaises, PublishVanishes, brokerVars
    <3>2. UNCHANGED <<mode, scheduled, redelivered>>
      BY <2>2 DEF EmitPublished
    <3>3. QED
      BY <3>1, <3>2 DEF Offered
  <2>3. QED
    BY <2>1, <2>2
<1>4. CASE redelivered \/ InLine(Ranks', table, scheduled, Offered, ready)
  <2>1. CASE EmitDirect(m)
    <3>1. ready' = ready /\ mode = "direct" /\ ready = <<>> /\ scheduled = <<>>
      BY <2>1 DEF EmitDirect, brokerVars, OrderInv
    <3>2. Offered = {}
      BY <3>1 DEF Offered, PathTypes, ThreadPlaced
    <3>3. table' = table \/ table' = Append(table, m)
      BY <2>1, DetectedTypes DEF EmitDirect, PathTypes, EventPathTypeOK
    <3>4. Elems(table') \subseteq Elems(table) \cup {m}
      BY <1>1, <3>3, ElemsOfAppend
    <3>5. Known'
      BY <1>2, <1>3, <3>1, <3>4 DEF OrderInv, Known
    <3>6. ~redelivered => InLine(Ranks', table', scheduled, Offered, ready)
      <4>1. Ahead(Ranks', Elems(table) \cup Elems(scheduled) \cup Offered \cup Elems(ready), {m})
        BY <1>2 DEF OrderInv, Known, Offered, Ahead
      <4>2. QED
        BY <1>1, <1>4, <3>1, <3>2, <3>3, <4>1, EmitInLine
    <3>7. QED
      BY <1>2, <1>3, <3>1, <3>5, <3>6 DEF OrderInv
  <2>2. CASE EmitPublished(m)
    <3>1. table' = table /\ mode # "direct"
      BY <2>2 DEF EmitPublished
    <3>2. ready' = ready \/ ready' = Append(ready, m)
      BY <2>2 DEF EmitPublished, PublishStored, PublishRaises, PublishVanishes, brokerVars
    <3>3. Elems(ready') \subseteq Elems(ready) \cup {m}
      BY <1>1, <3>2, ElemsOfAppend
    <3>4. Known'
      BY <1>2, <1>3, <3>1, <3>3 DEF OrderInv, Known
    <3>5. ~redelivered => InLine(Ranks', table, scheduled, Offered, ready')
      <4>1. Ahead(Ranks', Elems(table) \cup Elems(scheduled) \cup Offered \cup Elems(ready), {m})
        BY <1>2 DEF OrderInv, Known, Offered, Ahead
      <4>2. QED
        BY <1>1, <1>4, <3>2, <4>1, EmitInLine
    <3>6. QED
      BY <1>2, <1>3, <3>1, <3>4, <3>5 DEF OrderInv
  <2>3. QED
    BY <2>1, <2>2
<1>5. ~redelivered => InLine(Ranks', table, scheduled, Offered, ready)
  BY <1>2, SameRanksInLine DEF OrderInv, Known, Offered
<1>6. QED
  BY <1>4, <1>5

LEMMA RunOrder ==
  ASSUME PathTypes, OrderInv, RunScheduled
  PROVE  OrderInv'
<1>. DEFINE m == Head(scheduled)
<1>1. /\ scheduled \in Seq(Messages) /\ table \in Seq(Messages) /\ scheduled # <<>>
      /\ m \in Messages /\ Elems(scheduled) = {m} \cup Elems(Tail(scheduled))
      /\ scheduled' = Tail(scheduled) /\ mode # "direct"
  BY ElemsOfHeadTail DEF PathTypes, EventPathTypeOK, RunScheduled, OrderInv
<1>2. /\ UNCHANGED <<mode, ready, link, inHand, handedOver, emitted, redelivered>>
      /\ Ranks' = Ranks /\ Offered' = Offered
  BY SameRanks DEF RunScheduled, brokerVars, Offered
<1>3. table' = table \/ table' = Append(table, m)
  BY <1>1, DetectedTypes DEF RunScheduled, PathTypes, EventPathTypeOK
<1>4. Known'
  <2>1. Elems(table') \subseteq Elems(table) \cup {m}
    <3>1. Elems(Append(table, m)) = Elems(table) \cup {m}
      BY <1>1, ElemsOfAppend
    <3>2. QED
      BY <1>3, <3>1
  <2>2. QED
    BY <1>1, <1>2, <2>1 DEF OrderInv, Known
<1>5. ~redelivered => InLine(Ranks, table', Tail(scheduled), Offered, ready)
  BY <1>1, <1>3, RunInLine DEF OrderInv
<1>6. QED
  BY <1>1, <1>2, <1>4, <1>5 DEF OrderInv

LEMMA HandOverOrder ==
  ASSUME PathTypes, OrderInv, HandOver
  PROVE  OrderInv'
<1>1. /\ scheduled \in Seq(Messages) /\ inHand \in Messages /\ inHand # NoMessage /\ ~handedOver
      /\ scheduled' = Append(scheduled, inHand)
      /\ Offered = {inHand} /\ Offered' = {}
  BY DEF PathTypes, EventPathTypeOK, BrokerTypeOK, HandOver, OnMessageReturns, Offered
<1>2. mode # "direct"
  BY <1>1 DEF PathTypes, ThreadPlaced
<1>3. /\ UNCHANGED <<mode, table, ready, link, inHand, emitted, redelivered>>
      /\ Ranks' = Ranks
  BY SameRanks DEF HandOver, OnMessageReturns
<1>4. Known'
  BY <1>1, <1>3, ElemsOfAppend DEF OrderInv, Known
<1>5. ~redelivered => InLine(Ranks, table, scheduled', {}, ready)
  BY <1>1, HandOverInLine DEF OrderInv
<1>6. QED
  BY <1>1, <1>2, <1>3, <1>4, <1>5 DEF OrderInv

LEMMA ConsumerOrder ==
  ASSUME PathTypes, OrderInv, ConsumerStep
  PROVE  OrderInv'
<1>1. /\ UNCHANGED <<mode, table, scheduled, emitted, redelivered, handedOver>>
      /\ Ranks' = Ranks
  BY SameRanks
     DEF ConsumerStep, pathVars, LoopTest, ConnectConsumer, ConnectFails, Deliver, NoticeLinkLost
<1>2. CASE Deliver
  <2>1. /\ ready \in Seq(Messages) /\ ready # <<>> /\ inHand' = Head(ready) /\ ready' = Tail(ready)
        /\ link' = link /\ link /\ inHand = NoMessage
    BY <1>2 DEF Deliver, PathTypes, EventPathTypeOK, BrokerTypeOK
  <2>2. /\ Head(ready) \in Messages /\ Elems(ready) = {Head(ready)} \cup Elems(Tail(ready))
    BY <2>1, ElemsOfHeadTail
  <2>3. Offered = {} /\ Offered' = {Head(ready)}
    BY <1>1, <2>1, <2>2, EventPathAssumption DEF Offered, PathTypes, ThreadPlaced
  <2>4. Known'
    BY <1>1, <2>1, <2>2, <2>3 DEF OrderInv, Known
  <2>5. ~redelivered => InLine(Ranks, table, scheduled, Offered', ready')
    BY <2>1, <2>3, DeliverInLine DEF OrderInv
  <2>6. QED
    BY <1>1, <2>1, <2>4, <2>5 DEF OrderInv
<1>3. CASE ~Deliver
  <2>1. /\ UNCHANGED <<ready, inHand>> /\ Offered' = Offered
        /\ inHand # NoMessage /\ link => link'
    BY <1>1, <1>3
       DEF ConsumerStep, LoopTest, ConnectConsumer, ConnectFails, NoticeLinkLost, Offered
  <2>2. QED
    BY <1>1, <2>1 DEF OrderInv, Known
<1>4. QED
  BY <1>2, <1>3

(* The steps that answer a message or end something drop parts of the line, unless they
   put the message in hand back: then it will come a second time. *)
LEMMA EndOrder ==
  ASSUME PathTypes, OrderInv,
         UNCHANGED <<mode, table, emitted>>,
         scheduled' \in {scheduled, <<>>},
         \/ inHand' = inHand /\ handedOver' = handedOver
         \/ inHand' = NoMessage /\ handedOver' = FALSE,
         \/ /\ ready' = ready /\ (redelivered' <=> redelivered)
            /\ inHand' = NoMessage \/ link' = link
         \/ /\ ready' \in {ready, Requeued}
            /\ redelivered' <=> redelivered \/ (link /\ inHand # NoMessage)
  PROVE  OrderInv'
<1>1. Offered' \in SUBSET Offered /\ Ranks' = Ranks
  BY SameRanks DEF Offered
<1>2. /\ ready' \in {ready, Requeued}
      /\ ~redelivered' => ready' = ready /\ ~redelivered
  BY DEF Requeued
<1>3. ~redelivered' /\ inHand' # NoMessage => link'
  BY DEF OrderInv
<1>4. Known'
  <2>1. Elems(ready') \subseteq Elems(ready) \cup ({inHand} \ {NoMessage})
    BY <1>2, RequeuedType DEF PathTypes, EventPathTypeOK
  <2>2. Elems(scheduled') \subseteq Elems(scheduled)
    BY ElemsOfEmpty
  <2>3. QED
    BY <2>1, <2>2 DEF OrderInv, Known
<1>5. mode' = "direct" => ready' = <<>> /\ scheduled' = <<>>
  BY <1>2 DEF OrderInv, PathTypes, ThreadPlaced, Requeued
<1>6. ~redelivered' => InLine(Ranks, table, scheduled', Offered', ready)
  BY <1>1, <1>2, DropInLine DEF OrderInv
<1>7. QED
  BY <1>1, <1>2, <1>3, <1>4, <1>5, <1>6 DEF OrderInv

LEMMA AnswerOrder ==
  ASSUME PathTypes, OrderInv, Acknowledge \/ Refuse
  PROVE  OrderInv'
<1>1. /\ UNCHANGED <<mode, table, emitted, scheduled, redelivered>>
      /\ inHand' = NoMessage /\ handedOver' = FALSE /\ ready' = ready
  BY DEF Acknowledge, Refuse, Ack, Nack, LeaveCallback, pathVars
<1>2. QED
  BY <1>1, EndOrder

LEMMA FaultOrder ==
  ASSUME PathTypes, OrderInv, ConnectionFault \/ ServerRestored
  PROVE  OrderInv'
<1>1. CASE ConnectionFault
  <2>1. /\ UNCHANGED <<mode, table, emitted, scheduled, inHand, handedOver>>
        /\ ready' \in {ready, Requeued} /\ (link' => link' = link /\ ready' = ready)
    <3>1. UNCHANGED <<mode, table, emitted, scheduled>>
      BY <1>1 DEF ConnectionFault
    <3>2. /\ UNCHANGED <<inHand, handedOver>>
          /\ ready' \in {ready, Requeued} /\ (link' => link' = link /\ ready' = ready)
      BY <1>1 DEF ConnectionFault, LinkLost, ServerDown, ChannelClosed, PublisherIdles,
                  ConsumerChannelClosed, ConnectBreaks
    <3>3. QED
      BY <3>1, <3>2
  <2>2. CASE link'
    <3>1. redelivered' <=> redelivered
      BY <1>1, <2>2 DEF ConnectionFault
    <3>2. QED
      BY <2>1, <2>2, <3>1, EndOrder
  <2>3. CASE ~link'
    <3>1. redelivered' <=> redelivered \/ (link /\ inHand # NoMessage)
      BY <1>1, <2>3 DEF ConnectionFault, MayRedeliver
    <3>2. QED
      BY <2>1, <3>1, EndOrder
  <2>4. QED
    BY <2>2, <2>3
<1>2. CASE ServerRestored
  BY <1>2, EndOrder DEF ServerRestored, ServerBack, pathVars
<1>3. QED
  BY <1>1, <1>2

LEMMA LifespanOrder ==
  ASSUME PathTypes, OrderInv, StartUp \/ ShutDown \/ CloseLoop \/ Exit \/ Crash
  PROVE  OrderInv'
<1>1. CASE StartUp
  <2>1. /\ UNCHANGED <<mode, table, emitted, scheduled, redelivered>>
        /\ UNCHANGED <<inHand, handedOver, ready, link>>
    BY <1>1 DEF StartUp, StartConsumer, brokerVars
  <2>2. QED
    BY <2>1, EndOrder
<1>2. CASE ShutDown /\ mode = "broker"
  <2>1. /\ UNCHANGED <<mode, table, emitted, scheduled, inHand, handedOver>>
        /\ ready' \in {ready, Requeued}
    BY <1>2 DEF ShutDown, StopConsumer, StopConsumerRaises
  <2>2. redelivered' <=> redelivered \/ (link /\ inHand # NoMessage)
    BY <1>2 DEF ShutDown, MayRedeliver
  <2>3. QED
    BY <2>1, <2>2, EndOrder
<1>3. CASE ShutDown /\ mode # "broker"
  <2>1. /\ UNCHANGED <<mode, table, emitted, scheduled, redelivered>>
        /\ UNCHANGED <<inHand, handedOver, ready, link>>
    BY <1>3 DEF ShutDown, brokerVars
  <2>2. QED
    BY <2>1, EndOrder
<1>4. CASE CloseLoop
  <2>1. /\ UNCHANGED <<mode, table, emitted, redelivered>> /\ scheduled' = <<>>
        /\ UNCHANGED <<inHand, handedOver, ready, link>>
    BY <1>4 DEF CloseLoop, brokerVars
  <2>2. QED
    BY <2>1, EndOrder
<1>5. CASE Exit \/ Crash
  <2>1. /\ UNCHANGED <<mode, table, emitted>> /\ scheduled' \in {scheduled, <<>>}
        /\ inHand' = NoMessage /\ handedOver' = FALSE /\ ready' = Requeued
    BY <1>5 DEF Exit, Crash, ProcessGone
  <2>2. redelivered' <=> redelivered \/ (link /\ inHand # NoMessage)
    BY <1>5 DEF Exit, Crash, MayRedeliver
  <2>3. QED
    BY <2>1, <2>2, EndOrder
<1>6. QED
  BY <1>1, <1>2, <1>3, <1>4, <1>5

LEMMA InitOrder == EventInit => OrderInv
<1>. SUFFICES ASSUME EventInit
              PROVE  OrderInv
  OBVIOUS
<1>1. /\ table = <<>> /\ scheduled = <<>> /\ ready = <<>> /\ emitted = <<>>
      /\ inHand = NoMessage
  BY DEF EventInit, BrokerInit
<1>2. Offered = {} /\ Elems(<<>>) = {}
  BY <1>1, ElemsOfEmpty DEF Offered
<1>3. InLine(Ranks, table, scheduled, Offered, ready) /\ Known
  BY <1>1, <1>2 DEF InLine, Ahead, Ascending, Known
<1>4. QED
  BY <1>1, <1>3 DEF OrderInv

LEMMA NextOrder == PathTypes /\ OrderInv /\ [EventNext]_eventVars => OrderInv'
<1>. SUFFICES ASSUME PathTypes, OrderInv, [EventNext]_eventVars
              PROVE  OrderInv'
  OBVIOUS
<1>1. CASE UNCHANGED eventVars
  BY <1>1, EndOrder DEF eventVars, pathVars, brokerVars
<1>2. QED
  BY <1>1, EmitOrder, RunOrder, HandOverOrder, AnswerOrder, ConsumerOrder, FaultOrder,
     LifespanOrder DEF EventNext

(* Until a message is delivered a second time, the rows of intrusion_events stand in the
   order in which the engine emitted their events, one row for an event, whatever fails on
   the way and however often the process is restarted. *)
THEOREM RowsInOrder == EventSpec => []RowsFollowEmissions
<1>1. PathTypes /\ OrderInv => RowsFollowEmissions
  <2>1. ASSUME OrderInv, PathTypes, ~redelivered, NEW i \in DOMAIN table, NEW j \in DOMAIN table, i < j
        PROVE  Rank(table[i]) < Rank(table[j])
    <3>1. table[i] \in Messages /\ table[j] \in Messages
      BY <2>1, LenProperties, ElementOfSeq DEF PathTypes, EventPathTypeOK
    <3>2. Ranks[table[i]] < Ranks[table[j]]
      BY <2>1 DEF OrderInv, InLine, Ascending
    <3>3. QED
      BY <3>1, <3>2 DEF Ranks
  <2>2. QED
    BY <2>1 DEF RowsFollowEmissions
<1>2. QED
  BY <1>1, InitPathTypes, NextPathTypes, InitOrder, NextOrder, PTL DEF EventSpec
-----------------------------------------------------------------------------
(* NotificationWorker.                                                     *)

Busy(w) == worker[w] \in {"sending", "backoff"}

(* The types, with what makes the next channel and the task in a hand defined. *)
NotifyTypes ==
  /\ NotifyTypeOK
  /\ hand \in [Threads -> Seq(Tasks)]
  /\ \A w \in Threads : Len(hand[w]) = IF Busy(w) THEN 1 ELSE 0
  /\ \A a \in Alerts : call[a] # "returned" => putting[a] < Len(Channels)

LEMMA ChannelsType == Len(Channels) \in Nat \ {0} /\ DOMAIN Channels = 1..Len(Channels)
BY NotificationAssumption, EmptySeq, LenProperties

LEMMA InitTypes == NotifyInit => NotifyTypes
<1>. SUFFICES ASSUME NotifyInit
              PROVE  NotifyTypes
  OBVIOUS
<1>1. queue \in Seq(Tasks) /\ Len(queue) <= QueueCap
  BY EmptySeq, NotificationAssumption DEF NotifyInit
<1>2. hand \in [Threads -> Seq(Tasks)] /\ \A w \in Threads : Len(hand[w]) = 0
  BY EmptySeq DEF NotifyInit
<1>3. \A w \in Threads : ~Busy(w)
  BY DEF NotifyInit, Busy
<1>4. /\ clock \in 1..MaxTime
      /\ seen \in [Keys -> 0..MaxTime]
      /\ acceptedAt \in [Alerts -> 0..MaxTime]
  BY NotificationAssumption DEF NotifyInit
<1>5. \A w \in Threads : \A i \in DOMAIN hand[w] : hand[w][i] \in Tasks
  BY <1>2, ElementOfSeq, LenProperties
<1>6. putting \in [Alerts -> 0..Len(Channels)] /\ \A a \in Alerts : putting[a] < Len(Channels)
  BY ChannelsType DEF NotifyInit
<1>7. /\ call \in [Alerts -> CallStages]
      /\ worker \in [Threads -> WorkStages]
      /\ current \in Threads \cup {NoThread}
      /\ shutdown \in BOOLEAN
      /\ attempts \in [Notices -> Nat]
      /\ fate \in [Notices -> Fates]
  BY DEF NotifyInit, CallStages, WorkStages, Fates
<1>8. QED
  BY <1>1, <1>2, <1>3, <1>4, <1>5, <1>6, <1>7 DEF NotifyTypes, NotifyTypeOK

(* The hands and the queue after a step that changes them for one worker. *)
LEMMA HandTypes ==
  ASSUME NotifyTypes, NEW w \in Threads, NEW tasks \in Seq(Tasks), NEW stage \in WorkStages,
         worker' = [worker EXCEPT ![w] = stage], hand' = [hand EXCEPT ![w] = tasks],
         Len(tasks) = IF stage \in {"sending", "backoff"} THEN 1 ELSE 0
  PROVE  /\ worker' \in [Threads -> WorkStages]
         /\ hand' \in [Threads -> Seq(Tasks)]
         /\ \A v \in Threads : Len(hand'[v]) = IF Busy(v)' THEN 1 ELSE 0
         /\ \A v \in Threads : Len(hand'[v]) <= 1
                               /\ \A i \in DOMAIN hand'[v] : hand'[v][i] \in Tasks
<1>1. worker' \in [Threads -> WorkStages] /\ hand' \in [Threads -> Seq(Tasks)]
  BY DEF NotifyTypes, NotifyTypeOK
<1>2. \A v \in Threads : Len(hand'[v]) = IF Busy(v)' THEN 1 ELSE 0
  BY DEF NotifyTypes, NotifyTypeOK, Busy
<1>3. \A v \in Threads : \A i \in DOMAIN hand'[v] : hand'[v][i] \in Tasks
  BY <1>1, ElementOfSeq, LenProperties
<1>4. QED
  BY <1>1, <1>2, <1>3

(* The task of a worker that has one. *)
LEMMA TaskType ==
  ASSUME NotifyTypes, NEW w \in Threads, Busy(w)
  PROVE  /\ TaskOf(w) \in Tasks
         /\ TaskOf(w).notice \in Notices /\ TaskOf(w).retries \in 0..MaxRetries
         /\ Len(hand[w]) = 1 /\ DOMAIN hand[w] = {1}
<1>1. Len(hand[w]) = 1 /\ hand[w] \in Seq(Tasks)
  BY DEF NotifyTypes
<1>2. TaskOf(w) \in Tasks /\ DOMAIN hand[w] = 1..1
  BY <1>1, ElementOfSeq, LenProperties DEF TaskOf
<1>3. QED
  BY <1>1, <1>2 DEF Tasks

LEMMA CheckTypes ==
  ASSUME NotifyTypes, NEW a \in Alerts, Check(a)
  PROVE  NotifyTypes'
<1>0. /\ seen \in [Keys -> 0..MaxTime] /\ acceptedAt \in [Alerts -> 0..MaxTime]
      /\ clock \in 0..MaxTime
      /\ KeyOf[a] # NoKey => KeyOf[a] \in Keys
  BY NotificationAssumption DEF NotifyTypes, NotifyTypeOK
<1>1. seen' \in [Keys -> 0..MaxTime]
  BY <1>0 DEF Check
<1>2. acceptedAt' \in [Alerts -> 0..MaxTime]
  BY <1>0 DEF Check
<1>3. call' \in [Alerts -> CallStages]
      /\ \A b \in Alerts : call'[b] # "returned" => putting[b] < Len(Channels)
  BY DEF NotifyTypes, NotifyTypeOK, Check, CallStages
<1>4. QED
  BY <1>1, <1>2, <1>3 DEF NotifyTypes, NotifyTypeOK, Check, Busy

LEMMA StartTypes ==
  ASSUME NotifyTypes, NEW a \in Alerts,
         LookForWorker(a) \/ StartWorker(a) \/ \E w \in Threads : CreateWorker(a, w)
  PROVE  NotifyTypes'
<1>1. CASE LookForWorker(a)
  BY <1>1 DEF NotifyTypes, NotifyTypeOK, LookForWorker, CallStages, Busy
<1>2. ASSUME NEW w \in Threads, CreateWorker(a, w)
      PROVE  NotifyTypes'
  BY <1>2 DEF NotifyTypes, NotifyTypeOK, CreateWorker, CallStages, WorkStages, Busy
<1>3. CASE StartWorker(a) /\ worker[current] = "created"
  <2>1. /\ worker' = [worker EXCEPT ![current] = "idle"]
        /\ call' = [call EXCEPT ![a] = "putting"] /\ call[a] = "starting"
        /\ UNCHANGED <<putting, seen, queue, hand, current, shutdown, clock, acceptedAt,
                       attempts, fate>>
    BY <1>3 DEF StartWorker
  <2>2. worker' \in [Threads -> WorkStages] /\ call' \in [Alerts -> CallStages]
    BY <2>1 DEF NotifyTypes, NotifyTypeOK, CallStages, WorkStages
  <2>3. \A v \in Threads : Busy(v)' <=> Busy(v)
    BY <1>3, <2>1 DEF NotifyTypes, NotifyTypeOK, Busy
  <2>4. \A b \in Alerts : call'[b] # "returned" => call[b] # "returned"
    BY <2>1 DEF NotifyTypes, NotifyTypeOK
  <2> QED
    BY <2>1, <2>2, <2>3, <2>4 DEF NotifyTypes, NotifyTypeOK
<1>4. CASE StartWorker(a) /\ worker[current] # "created"
  BY <1>4 DEF NotifyTypes, NotifyTypeOK, StartWorker, CallStages, Busy
<1>5. QED
  BY <1>1, <1>2, <1>3, <1>4

(* The notice Put is about. *)
NextNotice(a) == <<a, Channels[putting[a] + 1]>>

LEMMA NextNoticeType ==
  ASSUME NotifyTypes, NEW a \in Alerts, call[a] = "putting"
  PROVE  /\ NextNotice(a) \in Notices
         /\ [notice |-> NextNotice(a), retries |-> 0] \in Tasks
         /\ putting[a] + 1 \in DOMAIN Channels
<1>1. putting[a] + 1 \in DOMAIN Channels
  <2>1. putting \in [Alerts -> 0..Len(Channels)]
    BY DEF NotifyTypes, NotifyTypeOK
  <2>2. putting[a] < Len(Channels)
    BY DEF NotifyTypes
  <2> QED
    BY <2>1, <2>2, ChannelsType
<1>2. NextNotice(a) \in Notices
  BY <1>1 DEF NextNotice, Notices, ChannelSet
<1>3. QED
  BY <1>1, <1>2, NotificationAssumption DEF Tasks

LEMMA PutTypes ==
  ASSUME NotifyTypes, NEW a \in Alerts, Put(a)
  PROVE  NotifyTypes'
<1>1. CASE QueueFull
  BY <1>1 DEF NotifyTypes, NotifyTypeOK, Put, CallStages, Busy
<1>2. CASE ~QueueFull
  <2>1. queue' \in Seq(Tasks) /\ Len(queue') <= QueueCap
    <3>1. /\ queue \in Seq(Tasks) /\ Len(queue) \in Nat /\ Len(queue) < QueueCap
          /\ [notice |-> NextNotice(a), retries |-> 0] \in Tasks
          /\ QueueCap \in Nat
      BY <1>2, NextNoticeType, LenProperties, NotificationAssumption
         DEF NotifyTypes, NotifyTypeOK, Put, QueueFull
    <3>2. queue' = Append(queue, [notice |-> NextNotice(a), retries |-> 0])
      BY <1>2 DEF Put, NextNotice
    <3>3. QED
      BY <3>1, <3>2, AppendProperties
  <2>2. fate' \in [Notices -> Fates]
    BY <1>2, NextNoticeType DEF NotifyTypes, NotifyTypeOK, Put, NextNotice, Fates
  <2>3. /\ putting' \in [Alerts -> 0..Len(Channels)]
        /\ call' \in [Alerts -> CallStages]
        /\ \A b \in Alerts : call'[b] # "returned" => putting'[b] < Len(Channels)
    <3>1. /\ putting \in [Alerts -> 0..Len(Channels)] /\ putting[a] < Len(Channels)
          /\ Len(Channels) \in Nat
          /\ call \in [Alerts -> CallStages]
          /\ \A b \in Alerts : call[b] # "returned" => putting[b] < Len(Channels)
      BY ChannelsType DEF NotifyTypes, NotifyTypeOK, Put
    <3>2. putting' = [putting EXCEPT ![a] = @ + 1]
      BY <1>2 DEF Put
    <3>3. call' = [call EXCEPT ![a] =
                     IF putting[a] + 1 = Len(Channels) THEN "returned" ELSE "putting"]
      BY <1>2 DEF Put
    <3>4. QED
      BY <3>1, <3>2, <3>3 DEF CallStages
  <2>4. QED
    BY <1>2, <2>1, <2>2, <2>3 DEF NotifyTypes, NotifyTypeOK, Put, Busy
<1>3. QED
  BY <1>1, <1>2

LEMMA TakeTypes ==
  ASSUME NotifyTypes, NEW w \in Threads, Take(w)
  PROVE  NotifyTypes'
<1>1. /\ Head(queue) \in Tasks /\ Tail(queue) \in Seq(Tasks)
      /\ Len(Tail(queue)) <= QueueCap
  BY HeadTailProperties, LenProperties, NotificationAssumption
     DEF NotifyTypes, NotifyTypeOK, Take
<1>2. <<Head(queue)>> \in Seq(Tasks) /\ Len(<<Head(queue)>>) = 1
  BY <1>1
<1>3. /\ worker' \in [Threads -> WorkStages]
      /\ hand' \in [Threads -> Seq(Tasks)]
      /\ \A v \in Threads : Len(hand'[v]) = IF Busy(v)' THEN 1 ELSE 0
      /\ \A v \in Threads : Len(hand'[v]) <= 1
                            /\ \A i \in DOMAIN hand'[v] : hand'[v][i] \in Tasks
  BY <1>2, HandTypes DEF Take, WorkStages
<1>4. QED
  BY <1>1, <1>3 DEF NotifyTypes, NotifyTypeOK, Take

LEMMA SendTypes ==
  ASSUME NotifyTypes, NEW w \in Threads, SendStep(w)
  PROVE  NotifyTypes'
<1>1. TaskOf(w).notice \in Notices /\ Len(hand[w]) = 1 /\ hand[w] \in Seq(Tasks)
  BY TaskType DEF SendStep, SendSucceeds, SendFails, Trial, Busy, NotifyTypes
<1>2. attempts' \in [Notices -> Nat] /\ fate' \in [Notices -> Fates]
  <2>1. attempts \in [Notices -> Nat] /\ fate \in [Notices -> Fates]
    BY DEF NotifyTypes, NotifyTypeOK
  <2>2. attempts' = [attempts EXCEPT ![TaskOf(w).notice] = @ + 1]
    BY DEF SendStep, SendSucceeds, SendFails, Trial
  <2>3. \/ fate' = fate
        \/ fate' = [fate EXCEPT ![TaskOf(w).notice] = "sent"]
        \/ fate' = [fate EXCEPT ![TaskOf(w).notice] = "failed"]
    BY DEF SendStep, SendSucceeds, SendFails
  <2>4. attempts' \in [Notices -> Nat]
    BY <1>1, <2>1, <2>2
  <2>5. fate' \in [Notices -> Fates]
    BY <1>1, <2>1, <2>3 DEF Fates
  <2>6. QED
    BY <2>4, <2>5
<1>3. \/ /\ worker' = [worker EXCEPT ![w] = "idle"]
         /\ hand' = [hand EXCEPT ![w] = <<>>]
      \/ /\ worker' = [worker EXCEPT ![w] = "backoff"]
         /\ hand' = [hand EXCEPT ![w] = hand[w]]
  <2>1. hand = [hand EXCEPT ![w] = hand[w]]
    BY DEF NotifyTypes
  <2>2. QED
    BY <2>1 DEF SendStep, SendSucceeds, SendFails
<1>4. /\ worker' \in [Threads -> WorkStages]
      /\ hand' \in [Threads -> Seq(Tasks)]
      /\ \A v \in Threads : Len(hand'[v]) = IF Busy(v)' THEN 1 ELSE 0
      /\ \A v \in Threads : Len(hand'[v]) <= 1
                            /\ \A i \in DOMAIN hand'[v] : hand'[v][i] \in Tasks
  BY <1>1, <1>3, HandTypes, EmptySeq DEF WorkStages
<1>5. UNCHANGED <<call, putting, seen, queue, current, shutdown, clock, acceptedAt>>
  BY DEF SendStep, SendSucceeds, SendFails, Trial
<1>6. QED
  BY <1>2, <1>4, <1>5 DEF NotifyTypes, NotifyTypeOK

(* The task a worker puts back. *)
Retried(w) == [TaskOf(w) EXCEPT !.retries = @ + 1]

(* Nothing in the queue or in a hand has used more than its retries, so that a worker in
   its backoff may use one more. *)
BackoffHasRetry == \A w \in Threads : worker[w] = "backoff" => HasRetry(w)

LEMMA RetriedType ==
  ASSUME NotifyTypes, BackoffHasRetry, NEW w \in Threads, worker[w] = "backoff"
  PROVE  /\ Retried(w) \in Tasks
         /\ Retried(w).notice = TaskOf(w).notice
         /\ Retried(w).retries = TaskOf(w).retries + 1
BY TaskType, NotificationAssumption DEF BackoffHasRetry, HasRetry, Retried, Tasks, Busy

LEMMA RequeueTypes ==
  ASSUME NotifyTypes, BackoffHasRetry, NEW w \in Threads, Requeue(w)
  PROVE  NotifyTypes'
<1>1. /\ Retried(w) \in Tasks /\ queue' = Append(queue, Retried(w))
      /\ queue \in Seq(Tasks) /\ Len(queue) \in Nat /\ Len(queue) < QueueCap
      /\ QueueCap \in Nat
  BY RetriedType, LenProperties, NotificationAssumption
     DEF Requeue, Retried, QueueFull, NotifyTypes, NotifyTypeOK
<1>2. queue' \in Seq(Tasks) /\ Len(queue') <= QueueCap
  BY <1>1, AppendProperties
<1>3. /\ worker' \in [Threads -> WorkStages]
      /\ hand' \in [Threads -> Seq(Tasks)]
      /\ \A v \in Threads : Len(hand'[v]) = IF Busy(v)' THEN 1 ELSE 0
      /\ \A v \in Threads : Len(hand'[v]) <= 1
                            /\ \A i \in DOMAIN hand'[v] : hand'[v][i] \in Tasks
  BY HandTypes, EmptySeq DEF Requeue, WorkStages
<1>4. QED
  BY <1>2, <1>3 DEF NotifyTypes, NotifyTypeOK, Requeue

(* The two ways in which a worker dies with its task. *)
DropStep(w) == ConfigRaises(w) \/ RequeueRaises(w)

LEMMA DropIs ==
  ASSUME NEW w \in Threads, DropStep(w)
  PROVE  /\ Busy(w)
         /\ worker' = [worker EXCEPT ![w] = "dead"]
         /\ hand' = [hand EXCEPT ![w] = <<>>]
         /\ fate' = [fate EXCEPT ![TaskOf(w).notice] = "dropped"]
         /\ UNCHANGED <<call, putting, seen, queue, current, shutdown, clock, acceptedAt,
                        attempts>>
BY DEF DropStep, ConfigRaises, RequeueRaises, Busy

LEMMA DropTypes ==
  ASSUME NotifyTypes, NEW w \in Threads, DropStep(w)
  PROVE  NotifyTypes'
<1>1. fate' \in [Notices -> Fates]
  BY TaskType, DropIs DEF NotifyTypes, NotifyTypeOK, Fates
<1>2. /\ worker' \in [Threads -> WorkStages]
      /\ hand' \in [Threads -> Seq(Tasks)]
      /\ \A v \in Threads : Len(hand'[v]) = IF Busy(v)' THEN 1 ELSE 0
      /\ \A v \in Threads : Len(hand'[v]) <= 1
                            /\ \A i \in DOMAIN hand'[v] : hand'[v][i] \in Tasks
  BY HandTypes, DropIs, EmptySeq DEF WorkStages
<1>3. QED
  BY <1>1, <1>2, DropIs DEF NotifyTypes, NotifyTypeOK

LEMMA NextTypes ==
  NotifyTypes /\ BackoffHasRetry /\ [NotifyNext]_notifyVars => NotifyTypes'
<1>. SUFFICES ASSUME NotifyTypes, BackoffHasRetry, [NotifyNext]_notifyVars
              PROVE  NotifyTypes'
  OBVIOUS
<1>1. ASSUME NEW w \in Threads, LeaveLoop(w)
      PROVE  NotifyTypes'
  BY <1>1 DEF NotifyTypes, NotifyTypeOK, LeaveLoop, WorkStages, Busy
<1>2. CASE Shutdown
  BY <1>2 DEF NotifyTypes, NotifyTypeOK, Shutdown, Busy
<1>3. CASE Tick
  BY <1>3, NotificationAssumption DEF NotifyTypes, NotifyTypeOK, Tick, Busy
<1>4. CASE UNCHANGED notifyVars
  BY <1>4 DEF NotifyTypes, NotifyTypeOK, notifyVars, Busy
<1>5. ASSUME NEW a \in Alerts, CallStep(a)
      PROVE  NotifyTypes'
  BY <1>5, CheckTypes, StartTypes, PutTypes DEF CallStep
<1>6. ASSUME NEW w \in Threads, WorkStep(w)
      PROVE  NotifyTypes'
  BY <1>1, <1>6, TakeTypes, SendTypes, RequeueTypes, DropTypes DEF WorkStep, DropStep
<1>7. QED
  BY <1>2, <1>3, <1>4, <1>5, <1>6 DEF NotifyNext
----------------------------------------------------------------------------
(* Where the open notices are, and what their attempts add up to.  The task of a worker
   in its backoff has been tried once more than its retries say. *)
Tried(w) == IF worker[w] = "backoff" THEN TaskOf(w).retries + 1 ELSE TaskOf(w).retries

Apart ==
  /\ \A i, j \in DOMAIN queue : queue[i].notice = queue[j].notice => i = j
  /\ \A v, w \in Threads : Busy(v) /\ Busy(w) /\ TaskOf(v).notice = TaskOf(w).notice => v = w
  /\ \A i \in DOMAIN queue, w \in Threads : Busy(w) => queue[i].notice # TaskOf(w).notice

Placed ==
  /\ \A i \in DOMAIN queue : fate[queue[i].notice] = "open"
  /\ \A w \in Threads : Busy(w) => fate[TaskOf(w).notice] = "open"
  /\ \A n \in Notices : fate[n] = "open" =>
       \/ \E i \in DOMAIN queue : queue[i].notice = n
       \/ \E w \in Threads : Busy(w) /\ TaskOf(w).notice = n

Counted ==
  /\ \A i \in DOMAIN queue : attempts[queue[i].notice] = queue[i].retries
  /\ \A w \in Threads : Busy(w) => attempts[TaskOf(w).notice] = Tried(w)
  /\ BackoffHasRetry
  /\ \A n \in Notices :
       /\ attempts[n] <= MaxRetries + 1
       /\ fate[n] = "none" => attempts[n] = 0
       /\ fate[n] = "failed" => attempts[n] = MaxRetries + 1

(* The channels a call has not come to have no notice yet. *)
Unput ==
  \A a \in Alerts, i \in DOMAIN Channels : i > putting[a] => fate[<<a, Channels[i]>>] = "none"

Accounts == Apart /\ Placed /\ Counted /\ Unput
NotifyInv == NotifyTypes /\ Accounts

LEMMA InitAccounts == NotifyInit => Accounts
BY EmptySeq, NotificationAssumption, NextNoticeType
   DEF NotifyInit, Accounts, Apart, Placed, Counted, Unput, Busy, BackoffHasRetry, Notices,
       ChannelSet

LEMMA QueueType ==
  ASSUME NotifyTypes
  PROVE  /\ DOMAIN queue = 1..Len(queue) /\ Len(queue) \in Nat
         /\ \A i \in DOMAIN queue : /\ queue[i] \in Tasks
                                    /\ queue[i].notice \in Notices
                                    /\ queue[i].retries \in 0..MaxRetries
<1>1. queue \in Seq(Tasks)
  BY DEF NotifyTypes, NotifyTypeOK
<1>2. DOMAIN queue = 1..Len(queue) /\ Len(queue) \in Nat
  BY <1>1, LenProperties
<1>3. \A i \in DOMAIN queue : queue[i] \in Tasks
  BY <1>1, <1>2, ElementOfSeq
<1>4. QED
  BY <1>2, <1>3 DEF Tasks

(* Steps that leave every task where it is. *)
LEMMA SameTasks ==
  ASSUME Accounts, UNCHANGED <<queue, hand, fate, attempts, putting>>,
         \A w \in Threads : (Busy(w) \/ Busy(w)') => worker'[w] = worker[w]
  PROVE  Accounts'
<1>1. \A w \in Threads : /\ Busy(w)' <=> Busy(w)
                         /\ Busy(w) => Tried(w)' = Tried(w)
                         /\ TaskOf(w)' = TaskOf(w)
                         /\ HasRetry(w)' <=> HasRetry(w)
                         /\ worker'[w] = "backoff" <=> worker[w] = "backoff"
  BY DEF Busy, Tried, TaskOf, HasRetry
<1>2. Apart' /\ Placed'
  BY <1>1 DEF Accounts, Apart, Placed
<1>3. Counted' /\ Unput'
  BY <1>1 DEF Accounts, Counted, Unput, BackoffHasRetry
<1>4. QED
  BY <1>2, <1>3 DEF Accounts

(* Putting a new task: the notice was nowhere, and is now at the end of the queue. *)
LEMMA PutAccounts ==
  ASSUME NotifyInv, NEW a \in Alerts, Put(a)
  PROVE  Accounts'
<1>1. CASE QueueFull
  BY <1>1, SameTasks DEF Put, NotifyInv
<1>2. CASE ~QueueFull
  <2>. DEFINE n == NextNotice(a)
              t == [notice |-> n, retries |-> 0]
  <2>1. /\ n \in Notices /\ t \in Tasks /\ putting[a] + 1 \in DOMAIN Channels
        /\ call[a] = "putting" /\ queue \in Seq(Tasks)
        /\ putting \in [Alerts -> 0..Len(Channels)] /\ Len(Channels) \in Nat
        /\ fate \in [Notices -> Fates]
    BY NextNoticeType, ChannelsType DEF NotifyInv, NotifyTypes, NotifyTypeOK, Put
  <2>2. /\ queue' = Append(queue, t)
        /\ fate' = [fate EXCEPT ![n] = "open"]
        /\ putting' = [putting EXCEPT ![a] = @ + 1]
        /\ UNCHANGED <<worker, hand, attempts>>
    BY <1>2 DEF Put, NextNotice
  <2>3. /\ DOMAIN queue = 1..Len(queue) /\ Len(queue) \in Nat
        /\ DOMAIN queue' = 1..(Len(queue) + 1)
        /\ \A i \in DOMAIN queue : queue'[i] = queue[i]
        /\ queue'[Len(queue) + 1] = t
    BY <2>1, <2>2, QueueType, AppendProperties, LenProperties DEF NotifyInv
  <2>4. fate[n] = "none" /\ attempts[n] = 0
    BY <2>1, ChannelsType DEF NotifyInv, Accounts, Unput, Counted, NextNotice
  <2>5. /\ \A i \in DOMAIN queue : queue[i].notice # n
        /\ \A w \in Threads : Busy(w) => TaskOf(w).notice # n
    BY <2>4 DEF NotifyInv, Accounts, Placed
  <2>6. \A w \in Threads : /\ Busy(w)' <=> Busy(w)
                           /\ TaskOf(w)' = TaskOf(w)
                           /\ Tried(w)' = Tried(w)
                           /\ HasRetry(w)' <=> HasRetry(w)
    BY <2>2 DEF Busy, Tried, TaskOf, HasRetry
  <2>7. \A m \in Notices : fate'[m] = IF m = n THEN "open" ELSE fate[m]
    BY <2>1, <2>2
  <2>8. Apart'
    BY <2>3, <2>5, <2>6 DEF NotifyInv, Accounts, Apart
  <2>9. Placed'
    <3>1. \A i \in DOMAIN queue' : fate'[queue'[i].notice] = "open"
      BY <2>1, <2>3, <2>7, QueueType DEF NotifyInv, Accounts, Placed
    <3>2. \A w \in Threads : Busy(w)' => fate'[TaskOf(w)'.notice] = "open"
      BY <2>6, <2>7, TaskType DEF NotifyInv, Accounts, Placed
    <3>3. ASSUME NEW m \in Notices, fate'[m] = "open"
          PROVE  \/ \E i \in DOMAIN queue' : queue'[i].notice = m
                 \/ \E w \in Threads : Busy(w)' /\ TaskOf(w)'.notice = m
      <4>1. CASE m = n
        BY <2>3, <4>1
      <4>2. CASE m # n
        BY <2>3, <2>6, <2>7, <3>3, <4>2 DEF NotifyInv, Accounts, Placed
      <4>3. QED
        BY <4>1, <4>2
    <3>4. QED
      BY <3>1, <3>2, <3>3 DEF Placed
  <2>10. Counted'
    <3>1. \A i \in DOMAIN queue' : attempts'[queue'[i].notice] = queue'[i].retries
      BY <2>2, <2>3, <2>4 DEF NotifyInv, Accounts, Counted
    <3>2. \A m \in Notices : /\ attempts'[m] <= MaxRetries + 1
                             /\ fate'[m] = "none" => attempts'[m] = 0
                             /\ fate'[m] = "failed" => attempts'[m] = MaxRetries + 1
      BY <2>2, <2>7 DEF NotifyInv, Accounts, Counted
    <3>3. \A w \in Threads : Busy(w)' => attempts'[TaskOf(w)'.notice] = Tried(w)'
      BY <2>2, <2>6 DEF NotifyInv, Accounts, Counted
    <3>4. BackoffHasRetry'
      BY <2>2, <2>6 DEF NotifyInv, Accounts, Counted, BackoffHasRetry
    <3>5. QED
      BY <3>1, <3>2, <3>3, <3>4 DEF Counted
  <2>11. Unput'
    <3>1. SUFFICES ASSUME NEW b \in Alerts, NEW i \in DOMAIN Channels, i > putting'[b]
                   PROVE  fate'[<<b, Channels[i]>>] = "none"
      BY DEF Unput
    <3>2. i > putting[b] /\ <<b, Channels[i]>> \in Notices
      BY <2>1, <2>2, <3>1, ChannelsType DEF Notices, ChannelSet
    <3>3. <<b, Channels[i]>> # n
      <4>1. CASE b = a
        <5>1. i # putting[a] + 1
          BY <2>1, <2>2, <3>1, <4>1, ChannelsType
        <5>2. Channels[i] # Channels[putting[a] + 1]
          BY <2>1, <5>1, NotificationAssumption
        <5>3. QED
          BY <5>2 DEF NextNotice
      <4>2. QED
        BY <4>1 DEF NextNotice
    <3>4. QED
      BY <2>7, <3>2, <3>3 DEF NotifyInv, Accounts, Unput
  <2>12. QED
    BY <2>8, <2>9, <2>10, <2>11 DEF Accounts
<1>3. QED
  BY <1>1, <1>2

(* A worker takes the head of the queue: the other tasks stay, one place further on. *)
LEMMA TakeAccounts ==
  ASSUME NotifyInv, NEW w \in Threads, Take(w)
  PROVE  Accounts'
<1>. DEFINE t == Head(queue)
<1>1. /\ DOMAIN queue = 1..Len(queue) /\ Len(queue) \in Nat \ {0}
      /\ DOMAIN queue' = 1..(Len(queue) - 1)
      /\ \A i \in DOMAIN queue' : i + 1 \in DOMAIN queue /\ queue'[i] = queue[i + 1]
      /\ 1 \in DOMAIN queue /\ t = queue[1]
  BY QueueType, HeadTailProperties, LenProperties, EmptySeq
     DEF NotifyInv, NotifyTypes, NotifyTypeOK, Take
<1>2. \A i \in DOMAIN queue : i = 1 \/ (i - 1 \in DOMAIN queue' /\ queue'[i - 1] = queue[i])
  BY <1>1
<1>3. /\ ~Busy(w) /\ worker' = [worker EXCEPT ![w] = "sending"]
      /\ hand' = [hand EXCEPT ![w] = <<t>>]
      /\ UNCHANGED <<fate, attempts, putting>>
  BY DEF Take, Busy
<1>4. /\ Busy(w)' /\ TaskOf(w)' = t /\ Tried(w)' = t.retries
      /\ worker'[w] = "sending"
  BY <1>3 DEF NotifyInv, NotifyTypes, NotifyTypeOK, Busy, TaskOf, Tried
<1>5. \A v \in Threads \ {w} : /\ worker'[v] = worker[v]
                               /\ Busy(v)' <=> Busy(v)
                               /\ TaskOf(v)' = TaskOf(v)
                               /\ Tried(v)' = Tried(v)
                               /\ HasRetry(v)' <=> HasRetry(v)
  BY <1>3 DEF NotifyInv, NotifyTypes, NotifyTypeOK, Busy, TaskOf, Tried, HasRetry
<1>6. Apart'
  <2>1. \A i, j \in DOMAIN queue' : queue'[i].notice = queue'[j].notice => i = j
    BY <1>1 DEF NotifyInv, Accounts, Apart
  <2>2. \A u, v \in Threads :
          Busy(u)' /\ Busy(v)' /\ TaskOf(u)'.notice = TaskOf(v)'.notice => u = v
    BY <1>1, <1>4, <1>5 DEF NotifyInv, Accounts, Apart
  <2>3. \A i \in DOMAIN queue', v \in Threads :
          Busy(v)' => queue'[i].notice # TaskOf(v)'.notice
    BY <1>1, <1>4, <1>5 DEF NotifyInv, Accounts, Apart
  <2>4. QED
    BY <2>1, <2>2, <2>3 DEF Apart
<1>7. Placed'
  <2>1. \A i \in DOMAIN queue' : fate'[queue'[i].notice] = "open"
    BY <1>1, <1>3 DEF NotifyInv, Accounts, Placed
  <2>2. \A v \in Threads : Busy(v)' => fate'[TaskOf(v)'.notice] = "open"
    BY <1>1, <1>3, <1>4, <1>5 DEF NotifyInv, Accounts, Placed
  <2>3. ASSUME NEW m \in Notices, fate'[m] = "open"
        PROVE  \/ \E i \in DOMAIN queue' : queue'[i].notice = m
               \/ \E v \in Threads : Busy(v)' /\ TaskOf(v)'.notice = m
    <3>1. CASE \E i \in DOMAIN queue : queue[i].notice = m
      BY <1>1, <1>2, <1>4, <3>1
    <3>2. CASE \E v \in Threads : Busy(v) /\ TaskOf(v).notice = m
      BY <1>3, <1>5, <3>2
    <3>3. QED
      BY <1>3, <2>3, <3>1, <3>2 DEF NotifyInv, Accounts, Placed
  <2>4. QED
    BY <2>1, <2>2, <2>3 DEF Placed
<1>8. Counted'
  <2>1. \A i \in DOMAIN queue' : attempts'[queue'[i].notice] = queue'[i].retries
    BY <1>1, <1>3 DEF NotifyInv, Accounts, Counted
  <2>2. \A v \in Threads : Busy(v)' => attempts'[TaskOf(v)'.notice] = Tried(v)'
    BY <1>1, <1>3, <1>4, <1>5 DEF NotifyInv, Accounts, Counted
  <2>3. BackoffHasRetry'
    BY <1>4, <1>5 DEF NotifyInv, Accounts, Counted, BackoffHasRetry
  <2>4. \A m \in Notices : /\ attempts'[m] <= MaxRetries + 1
                           /\ fate'[m] = "none" => attempts'[m] = 0
                           /\ fate'[m] = "failed" => attempts'[m] = MaxRetries + 1
    BY <1>3 DEF NotifyInv, Accounts, Counted
  <2>5. QED
    BY <2>1, <2>2, <2>3, <2>4 DEF Counted
<1>9. Unput'
  BY <1>3 DEF NotifyInv, Accounts, Unput
<1>10. QED
  BY <1>6, <1>7, <1>8, <1>9 DEF Accounts

(* A worker is done with its task, which is nowhere then: it was sent, given up or
   dropped, and if it was tried once more it had retries left for that. *)
LEMMA SettleAccounts ==
  ASSUME NotifyInv, NEW w \in Threads, Busy(w), NEW settled \in {"sent", "failed", "dropped"},
         NEW more \in {0, 1}, NEW stage \in {"idle", "dead"},
         worker' = [worker EXCEPT ![w] = stage], hand' = [hand EXCEPT ![w] = <<>>],
         fate' = [fate EXCEPT ![TaskOf(w).notice] = settled],
         attempts' = [attempts EXCEPT ![TaskOf(w).notice] = @ + more],
         UNCHANGED <<queue, putting>>,
         more = 1 => worker[w] = "sending",
         settled = "failed" => more = 1 /\ ~HasRetry(w)
  PROVE  Accounts'
<1>. DEFINE n == TaskOf(w).notice
<1>1. n \in Notices /\ TaskOf(w).retries \in 0..MaxRetries /\ MaxRetries \in Nat
  BY TaskType, NotificationAssumption DEF NotifyInv
<1>2. ~Busy(w)' /\ fate[n] = "open" /\ attempts[n] = Tried(w)
  BY DEF NotifyInv, NotifyTypes, NotifyTypeOK, Accounts, Placed, Counted, Busy
<1>3. \A v \in Threads \ {w} : /\ worker'[v] = worker[v]
                               /\ Busy(v)' <=> Busy(v)
                               /\ TaskOf(v)' = TaskOf(v)
                               /\ Tried(v)' = Tried(v)
                               /\ HasRetry(v)' <=> HasRetry(v)
                               /\ Busy(v) => TaskOf(v).notice \in Notices \ {n}
  <2>1. ASSUME NEW v \in Threads \ {w}, Busy(v)
        PROVE  TaskOf(v).notice \in Notices \ {n}
    BY <2>1, TaskType DEF NotifyInv, Accounts, Apart
  <2>2. QED
    BY <2>1 DEF NotifyInv, NotifyTypes, NotifyTypeOK, Busy, TaskOf, Tried, HasRetry
<1>4. \A i \in DOMAIN queue : queue[i].notice \in Notices \ {n}
  BY QueueType DEF NotifyInv, Accounts, Apart
<1>5. \A m \in Notices : /\ fate'[m] = IF m = n THEN settled ELSE fate[m]
                         /\ attempts'[m] = IF m = n THEN attempts[n] + more ELSE attempts[m]
  BY <1>1 DEF NotifyInv, NotifyTypes, NotifyTypeOK
<1>6. Apart'
  BY <1>2, <1>3 DEF NotifyInv, Accounts, Apart
<1>7. Placed'
  <2>1. \A i \in DOMAIN queue' : fate'[queue'[i].notice] = "open"
    BY <1>4, <1>5 DEF NotifyInv, Accounts, Placed
  <2>2. \A v \in Threads : Busy(v)' => fate'[TaskOf(v)'.notice] = "open"
    BY <1>2, <1>3, <1>5 DEF NotifyInv, Accounts, Placed
  <2>3. ASSUME NEW m \in Notices, fate'[m] = "open"
        PROVE  \/ \E i \in DOMAIN queue' : queue'[i].notice = m
               \/ \E v \in Threads : Busy(v)' /\ TaskOf(v)'.notice = m
    <3>1. m # n /\ fate[m] = "open"
      BY <1>5, <2>3
    <3>2. CASE \E i \in DOMAIN queue : queue[i].notice = m
      BY <3>2
    <3>3. CASE \E v \in Threads : Busy(v) /\ TaskOf(v).notice = m
      BY <1>3, <3>1, <3>3
    <3>4. QED
      BY <3>1, <3>2, <3>3 DEF NotifyInv, Accounts, Placed
  <2>4. QED
    BY <2>1, <2>2, <2>3 DEF Placed
<1>8. Counted'
  <2>1. \A i \in DOMAIN queue' : attempts'[queue'[i].notice] = queue'[i].retries
    BY <1>4, <1>5 DEF NotifyInv, Accounts, Counted
  <2>2. \A v \in Threads : Busy(v)' => attempts'[TaskOf(v)'.notice] = Tried(v)'
    BY <1>2, <1>3, <1>5 DEF NotifyInv, Accounts, Counted
  <2>3. BackoffHasRetry'
    BY <1>2, <1>3 DEF NotifyInv, Accounts, Counted, BackoffHasRetry, Busy
  <2>4. \A m \in Notices \ {n} : /\ attempts'[m] <= MaxRetries + 1
                                 /\ fate'[m] = "none" => attempts'[m] = 0
                                 /\ fate'[m] = "failed" => attempts'[m] = MaxRetries + 1
    BY <1>5 DEF NotifyInv, Accounts, Counted
  <2>5. /\ attempts'[n] <= MaxRetries + 1
        /\ fate'[n] # "none"
        /\ fate'[n] = "failed" => attempts'[n] = MaxRetries + 1
    <3>1. attempts[n] <= MaxRetries + 1
      BY <1>1 DEF NotifyInv, Accounts, Counted
    <3>2. more = 1 => attempts[n] = TaskOf(w).retries
      BY <1>2 DEF Tried
    <3>3. attempts'[n] = attempts[n] + more /\ fate'[n] = settled
      BY <1>1, <1>5
    <3>4. attempts'[n] <= MaxRetries + 1
      BY <1>1, <1>2, <3>1, <3>2, <3>3 DEF Tried
    <3>5. settled = "failed" => attempts'[n] = MaxRetries + 1
      BY <1>1, <3>2, <3>3 DEF HasRetry
    <3>6. QED
      BY <3>3, <3>4, <3>5
  <2>6. QED
    BY <1>1, <2>1, <2>2, <2>3, <2>4, <2>5 DEF Counted
<1>9. Unput'
  BY <1>1, <1>2, <1>5 DEF NotifyInv, Accounts, Unput, Notices, ChannelSet
<1>10. QED
  BY <1>6, <1>7, <1>8, <1>9 DEF Accounts

(* A failed attempt with retries left: the worker keeps the task for its backoff. *)
LEMMA BackoffAccounts ==
  ASSUME NotifyInv, NEW w \in Threads, SendFails(w), HasRetry(w)
  PROVE  Accounts'
<1>. DEFINE n == TaskOf(w).notice
<1>1. /\ worker[w] = "sending" /\ Busy(w)
      /\ worker' = [worker EXCEPT ![w] = "backoff"]
      /\ attempts' = [attempts EXCEPT ![n] = @ + 1]
      /\ UNCHANGED <<hand, fate, queue, putting>>
  BY DEF SendFails, Trial, Busy
<1>2. /\ n \in Notices /\ TaskOf(w).retries \in 0..MaxRetries /\ MaxRetries \in Nat
      /\ TaskOf(w).retries < MaxRetries
  BY <1>1, TaskType, NotificationAssumption DEF NotifyInv, HasRetry
<1>3. fate[n] = "open" /\ attempts[n] = TaskOf(w).retries
  BY <1>1 DEF NotifyInv, Accounts, Placed, Counted, Tried
<1>4. \A v \in Threads : /\ worker'[v] = IF v = w THEN "backoff" ELSE worker[v]
                         /\ Busy(v)' <=> Busy(v)
                         /\ TaskOf(v)' = TaskOf(v)
                         /\ HasRetry(v)' <=> HasRetry(v)
                         /\ v # w => Tried(v)' = Tried(v)
  BY <1>1 DEF NotifyInv, NotifyTypes, NotifyTypeOK, Busy, TaskOf, Tried, HasRetry
<1>5. Tried(w)' = TaskOf(w).retries + 1
  BY <1>4 DEF Tried
<1>6. \A m \in Notices : attempts'[m] = IF m = n THEN attempts[n] + 1 ELSE attempts[m]
  BY <1>1, <1>2 DEF NotifyInv, NotifyTypes, NotifyTypeOK
<1>7. Apart' /\ Placed' /\ Unput'
  BY <1>1, <1>4 DEF NotifyInv, Accounts, Apart, Placed, Unput
<1>8. \A i \in DOMAIN queue' : attempts'[queue'[i].notice] = queue'[i].retries
  <2>1. \A i \in DOMAIN queue : queue[i].notice \in Notices \ {n}
    BY <1>1, QueueType DEF NotifyInv, Accounts, Apart
  <2>2. QED
    BY <1>1, <1>6, <2>1 DEF NotifyInv, Accounts, Counted
<1>9. \A v \in Threads : Busy(v)' => attempts'[TaskOf(v)'.notice] = Tried(v)'
  <2>1. ASSUME NEW v \in Threads \ {w}, Busy(v)
        PROVE  TaskOf(v).notice \in Notices \ {n}
    BY <1>1, <2>1, TaskType DEF NotifyInv, Accounts, Apart
  <2>2. attempts'[TaskOf(w)'.notice] = Tried(w)'
    BY <1>2, <1>3, <1>4, <1>5, <1>6
  <2>3. QED
    BY <1>4, <1>6, <2>1, <2>2 DEF NotifyInv, Accounts, Counted
<1>10. BackoffHasRetry'
  BY <1>4 DEF NotifyInv, Accounts, Counted, BackoffHasRetry
<1>11. \A m \in Notices : /\ attempts'[m] <= MaxRetries + 1
                          /\ fate'[m] = "none" => attempts'[m] = 0
                          /\ fate'[m] = "failed" => attempts'[m] = MaxRetries + 1
  BY <1>1, <1>2, <1>3, <1>6 DEF NotifyInv, Accounts, Counted
<1>12. QED
  BY <1>7, <1>8, <1>9, <1>10, <1>11 DEF Accounts, Counted

(* A task goes back to the queue with one retry more, which its attempts already show. *)
LEMMA RequeueAccounts ==
  ASSUME NotifyInv, NEW w \in Threads, Requeue(w)
  PROVE  Accounts'
<1>. DEFINE n == TaskOf(w).notice
            t == Retried(w)
<1>1. /\ worker[w] = "backoff" /\ Busy(w) /\ ~Busy(w)'
      /\ worker' = [worker EXCEPT ![w] = "idle"]
      /\ hand' = [hand EXCEPT ![w] = <<>>]
      /\ queue' = Append(queue, t)
      /\ UNCHANGED <<fate, attempts, putting>>
  BY DEF NotifyInv, NotifyTypes, NotifyTypeOK, Requeue, Retried, Busy
<1>2. /\ n \in Notices /\ TaskOf(w).retries \in 0..MaxRetries /\ MaxRetries \in Nat
      /\ t \in Tasks /\ t.notice = n /\ t.retries = TaskOf(w).retries + 1
  BY <1>1, TaskType, RetriedType, NotificationAssumption DEF NotifyInv, Accounts, Counted
<1>3. fate[n] = "open" /\ attempts[n] = t.retries
  BY <1>1, <1>2 DEF NotifyInv, Accounts, Placed, Counted, Tried
<1>4. /\ DOMAIN queue = 1..Len(queue) /\ Len(queue) \in Nat
      /\ DOMAIN queue' = 1..(Len(queue) + 1)
      /\ \A i \in DOMAIN queue : queue'[i] = queue[i]
      /\ queue'[Len(queue) + 1] = t
  BY <1>1, <1>2, QueueType, AppendProperties, LenProperties
     DEF NotifyInv, NotifyTypes, NotifyTypeOK
<1>5. \A v \in Threads \ {w} : /\ worker'[v] = worker[v]
                               /\ Busy(v)' <=> Busy(v)
                               /\ TaskOf(v)' = TaskOf(v)
                               /\ Tried(v)' = Tried(v)
                               /\ HasRetry(v)' <=> HasRetry(v)
                               /\ Busy(v) => TaskOf(v).notice # n
  BY <1>1 DEF NotifyInv, NotifyTypes, NotifyTypeOK, Accounts, Apart, Busy, TaskOf, Tried, HasRetry
<1>6. \A i \in DOMAIN queue : queue[i].notice # n
  BY <1>1 DEF NotifyInv, Accounts, Apart
<1>7. Apart'
  <2>1. \A i, j \in DOMAIN queue' : queue'[i].notice = queue'[j].notice => i = j
    BY <1>2, <1>4, <1>6 DEF NotifyInv, Accounts, Apart
  <2>2. \A u, v \in Threads :
          Busy(u)' /\ Busy(v)' /\ TaskOf(u)'.notice = TaskOf(v)'.notice => u = v
    BY <1>1, <1>5 DEF NotifyInv, Accounts, Apart
  <2>3. \A i \in DOMAIN queue', v \in Threads :
          Busy(v)' => queue'[i].notice # TaskOf(v)'.notice
    BY <1>1, <1>2, <1>4, <1>5 DEF NotifyInv, Accounts, Apart
  <2>4. QED
    BY <2>1, <2>2, <2>3 DEF Apart
<1>8. Placed'
  <2>1. \A i \in DOMAIN queue' : fate'[queue'[i].notice] = "open"
    BY <1>1, <1>2, <1>3, <1>4 DEF NotifyInv, Accounts, Placed
  <2>2. \A v \in Threads : Busy(v)' => fate'[TaskOf(v)'.notice] = "open"
    BY <1>1, <1>5 DEF NotifyInv, Accounts, Placed
  <2>3. ASSUME NEW m \in Notices, fate'[m] = "open"
        PROVE  \/ \E i \in DOMAIN queue' : queue'[i].notice = m
               \/ \E v \in Threads : Busy(v)' /\ TaskOf(v)'.notice = m
    <3>1. CASE m = n
      BY <1>2, <1>4, <3>1
    <3>2. CASE m # n
      BY <1>1, <1>4, <1>5, <2>3, <3>2 DEF NotifyInv, Accounts, Placed
    <3>3. QED
      BY <3>1, <3>2
  <2>4. QED
    BY <2>1, <2>2, <2>3 DEF Placed
<1>9. Counted'
  <2>1. \A i \in DOMAIN queue' : attempts'[queue'[i].notice] = queue'[i].retries
    BY <1>1, <1>2, <1>3, <1>4 DEF NotifyInv, Accounts, Counted
  <2>2. \A v \in Threads : Busy(v)' => attempts'[TaskOf(v)'.notice] = Tried(v)'
    BY <1>1, <1>5 DEF NotifyInv, Accounts, Counted
  <2>3. BackoffHasRetry'
    BY <1>1, <1>5 DEF NotifyInv, Accounts, Counted, BackoffHasRetry, Busy
  <2>4. QED
    BY <1>1, <2>1, <2>2, <2>3 DEF NotifyInv, Accounts, Counted
<1>10. Unput'
  BY <1>1 DEF NotifyInv, Accounts, Unput
<1>11. QED
  BY <1>7, <1>8, <1>9, <1>10 DEF Accounts

LEMMA SendAccounts ==
  ASSUME NotifyInv, NEW w \in Threads, SendStep(w)
  PROVE  Accounts'
<1>1. /\ worker[w] = "sending" /\ Busy(w)
      /\ attempts' = [attempts EXCEPT ![TaskOf(w).notice] = @ + 1]
      /\ UNCHANGED <<queue, putting>>
  BY DEF SendStep, SendSucceeds, SendFails, Trial, Busy
<1>2. CASE SendSucceeds(w)
  BY <1>1, <1>2, SettleAccounts DEF SendSucceeds
<1>3. CASE SendFails(w) /\ ~HasRetry(w)
  BY <1>1, <1>3, SettleAccounts DEF SendFails
<1>4. CASE SendFails(w) /\ HasRetry(w)
  BY <1>4, BackoffAccounts
<1>5. QED
  BY <1>2, <1>3, <1>4 DEF SendStep

LEMMA DropAccounts ==
  ASSUME NotifyInv, NEW w \in Threads, DropStep(w)
  PROVE  Accounts'
<1>1. Busy(w) /\ TaskOf(w).notice \in Notices
  BY TaskType, DropIs DEF NotifyInv
<1>2. attempts' = [attempts EXCEPT ![TaskOf(w).notice] = @ + 0]
  <2>1. attempts \in [Notices -> Nat] /\ attempts' = attempts
    BY DropIs DEF NotifyInv, NotifyTypes, NotifyTypeOK
  <2>2. QED
    BY <1>1, <2>1
<1>3. /\ worker' = [worker EXCEPT ![w] = "dead"]
      /\ hand' = [hand EXCEPT ![w] = <<>>]
      /\ fate' = [fate EXCEPT ![TaskOf(w).notice] = "dropped"]
      /\ UNCHANGED <<queue, putting>>
  BY DropIs
<1>4. /\ "dropped" \in {"sent", "failed", "dropped"} /\ 0 \in {0, 1} /\ "dead" \in {"idle", "dead"}
      /\ "dropped" # "failed" /\ 0 # 1
  OBVIOUS
<1>5. QED
  BY <1>1, <1>2, <1>3, <1>4, SettleAccounts

LEMMA NextAccounts == NotifyInv /\ [NotifyNext]_notifyVars => Accounts'
<1>. SUFFICES ASSUME NotifyInv, [NotifyNext]_notifyVars
              PROVE  Accounts'
  OBVIOUS
<1>1. CASE Shutdown \/ Tick \/ UNCHANGED notifyVars
  BY <1>1, SameTasks DEF NotifyInv, Shutdown, Tick, notifyVars
<1>2. ASSUME NEW a \in Alerts, Check(a) \/ LookForWorker(a)
      PROVE  Accounts'
  BY <1>2, SameTasks DEF NotifyInv, Check, LookForWorker
<1>3. ASSUME NEW a \in Alerts, NEW w \in Threads, CreateWorker(a, w)
      PROVE  Accounts'
  <2>1. /\ worker' = [worker EXCEPT ![w] = "created"] /\ worker[w] = "unborn"
        /\ UNCHANGED <<queue, hand, fate, attempts, putting>>
    BY <1>3 DEF CreateWorker
  <2>2. QED
    BY <2>1, SameTasks DEF NotifyInv, NotifyTypes, NotifyTypeOK, Busy
<1>8. ASSUME NEW a \in Alerts, StartWorker(a)
      PROVE  Accounts'
  <2>1. /\ \/ worker' = worker
           \/ worker' = [worker EXCEPT ![current] = "idle"] /\ worker[current] = "created"
        /\ UNCHANGED <<queue, hand, fate, attempts, putting>>
    BY <1>8 DEF StartWorker
  <2>2. \A w \in Threads : (Busy(w) \/ Busy(w)') => worker'[w] = worker[w]
    BY <2>1 DEF NotifyInv, NotifyTypes, NotifyTypeOK, Busy
  <2>3. QED
    BY <2>1, <2>2, SameTasks DEF NotifyInv
<1>4. ASSUME NEW w \in Threads, LeaveLoop(w)
      PROVE  Accounts'
  <2>1. /\ worker' = [worker EXCEPT ![w] = "dead"] /\ worker[w] = "idle"
        /\ UNCHANGED <<queue, hand, fate, attempts, putting>>
    BY <1>4 DEF LeaveLoop
  <2>2. QED
    BY <2>1, SameTasks DEF NotifyInv, NotifyTypes, NotifyTypeOK, Busy
<1>5. ASSUME NEW a \in Alerts, CallStep(a)
      PROVE  Accounts'
  BY <1>2, <1>3, <1>5, <1>8, PutAccounts DEF CallStep
<1>6. ASSUME NEW w \in Threads, WorkStep(w)
      PROVE  Accounts'
  BY <1>4, <1>6, TakeAccounts, SendAccounts, RequeueAccounts, DropAccounts
     DEF WorkStep, DropStep
<1>7. QED
  BY <1>1, <1>5, <1>6 DEF NotifyNext

LEMMA InitNotifyInv == NotifyInit => NotifyInv
BY InitTypes, InitAccounts DEF NotifyInv

LEMMA NextNotifyInv == NotifyInv /\ [NotifyNext]_notifyVars => NotifyInv'
BY NextTypes, NextAccounts DEF NotifyInv, Accounts, Counted
----------------------------------------------------------------------------
(* The tasks for a notice, as sets of places, of which there is at most one. *)
LEMMA PlacesOfNotice ==
  ASSUME NotifyInv, NEW n \in Notices
  PROVE  Cardinality(QueuedFor(n)) + Cardinality(HeldFor(n)) = IF fate[n] = "open" THEN 1 ELSE 0
<1>1. HeldFor(n) = {w \in Threads : Busy(w) /\ TaskOf(w).notice = n}
  <2>1. ASSUME NEW w \in Threads
        PROVE  (\E i \in DOMAIN hand[w] : hand[w][i].notice = n)
               <=> Busy(w) /\ TaskOf(w).notice = n
    <3>1. CASE Busy(w)
      BY <3>1, TaskType DEF NotifyInv, TaskOf
    <3>2. CASE ~Busy(w)
      <4>1. Len(hand[w]) = 0 /\ hand[w] \in Seq(Tasks)
        BY <3>2 DEF NotifyInv, NotifyTypes
      <4>2. DOMAIN hand[w] = {}
        BY <4>1, LenProperties
      <4>3. QED
        BY <3>2, <4>2
    <3>3. QED
      BY <3>1, <3>2
  <2>2. QED
    BY <2>1 DEF HeldFor
<1>2. CASE fate[n] # "open"
  <2>1. QueuedFor(n) = {} /\ HeldFor(n) = {}
    BY <1>1, <1>2 DEF NotifyInv, Accounts, Placed, QueuedFor
  <2>2. QED
    BY <1>2, <2>1, FS_EmptySet
<1>3. ASSUME NEW i \in DOMAIN queue, queue[i].notice = n
      PROVE  Cardinality(QueuedFor(n)) + Cardinality(HeldFor(n)) = 1 /\ fate[n] = "open"
  <2>1. QueuedFor(n) = {i}
    BY <1>3 DEF QueuedFor, NotifyInv, Accounts, Apart
  <2>2. HeldFor(n) = {}
    BY <1>1, <1>3 DEF NotifyInv, Accounts, Apart
  <2>3. fate[n] = "open"
    BY <1>3 DEF NotifyInv, Accounts, Placed
  <2>4. Cardinality(QueuedFor(n)) = 1 /\ Cardinality(HeldFor(n)) = 0
    BY <2>1, <2>2, FS_Singleton, FS_EmptySet
  <2>5. QED
    BY <2>3, <2>4
<1>4. ASSUME NEW w \in Threads, Busy(w), TaskOf(w).notice = n
      PROVE  Cardinality(QueuedFor(n)) + Cardinality(HeldFor(n)) = 1 /\ fate[n] = "open"
  <2>1. HeldFor(n) = {w}
    BY <1>1, <1>4 DEF NotifyInv, Accounts, Apart
  <2>2. QueuedFor(n) = {}
    BY <1>4 DEF QueuedFor, NotifyInv, Accounts, Apart
  <2>3. fate[n] = "open"
    BY <1>4 DEF NotifyInv, Accounts, Placed
  <2>4. Cardinality(QueuedFor(n)) = 0 /\ Cardinality(HeldFor(n)) = 1
    BY <2>1, <2>2, FS_Singleton, FS_EmptySet
  <2>5. QED
    BY <2>3, <2>4
<1>5. QED
  BY <1>2, <1>3, <1>4 DEF NotifyInv, Accounts, Placed

(* The variables of the notification worker keep their types, and the queue its bound:
   put_nowait raises rather than go past maxsize. *)
THEOREM NotifyTypeCorrect == NotifySpec => []NotifyTypeOK
<1>1. NotifyInv => NotifyTypeOK
  BY DEF NotifyInv, NotifyTypes
<1>2. QED
  BY <1>1, InitNotifyInv, NextNotifyInv, PTL DEF NotifySpec

(* A notification that is neither sent, given up nor dropped is in the queue or in one
   worker's hand, once, however the callers of _start_worker race: whichever of them starts
   the other's thread, or is thrown out because it was started, and whichever worker
   retries it. *)
THEOREM NoticesInOnePlace == NotifySpec => []NoticeInOnePlace
<1>1. NotifyInv => NoticeInOnePlace
  BY PlacesOfNotice DEF NoticeInOnePlace
<1>2. QED
  BY <1>1, InitNotifyInv, NextNotifyInv, PTL DEF NotifySpec

(* A notification is attempted 1 + MAX_RETRIES times at the most, and is given up with
   all of them used. *)
THEOREM RetriesBudgeted == NotifySpec => []RetryBudget
<1>1. NotifyInv => RetryBudget
  BY DEF NotifyInv, Accounts, Counted, RetryBudget, QueuedFor
<1>2. QED
  BY <1>1, InitNotifyInv, NextNotifyInv, PTL DEF NotifySpec
----------------------------------------------------------------------------
(* What the deduplication cache knows of the alerts that were let through. *)
Keyed(a) == KeyOf[a] # NoKey /\ acceptedAt[a] # 0

SeenCovers ==
  \A a \in Alerts : Keyed(a) => acceptedAt[a] <= seen[KeyOf[a]]

Unchecked ==
  /\ \A a \in Alerts : call[a] = "new" => acceptedAt[a] = 0
  /\ \A k \in Keys : seen[k] <= clock

DedupInv == NotifyTypes /\ SeenCovers /\ Unchecked /\ DedupHolds

LEMMA CheckDedup ==
  ASSUME DedupInv, NEW a \in Alerts, Check(a)
  PROVE  (SeenCovers /\ Unchecked /\ DedupHolds)'
<1>1. /\ seen \in [Keys -> 0..MaxTime] /\ acceptedAt \in [Alerts -> 0..MaxTime]
      /\ clock \in Nat \ {0} /\ clock' = clock /\ call \in [Alerts -> CallStages]
  BY DEF DedupInv, NotifyTypes, NotifyTypeOK, Check
<1>2. /\ KeyOf \in [Alerts -> Keys \cup {NoKey}] /\ NoKey \notin Keys
      /\ Window \in Nat \ {0} /\ MaxTime \in Nat
  BY NotificationAssumption
<1>3. CASE IsDuplicate(a)
  <2>1. /\ UNCHANGED <<seen, acceptedAt, clock>>
        /\ \A b \in Alerts : call'[b] = "new" => call[b] = "new"
    BY <1>1, <1>3 DEF Check
  <2>2. QED
    BY <2>1 DEF DedupInv, SeenCovers, Unchecked, DedupHolds, Keyed
<1>4. CASE ~IsDuplicate(a)
  <2>1. /\ acceptedAt' = [acceptedAt EXCEPT ![a] = clock]
        /\ call' = [call EXCEPT ![a] = "accepted"]
        /\ seen' = IF KeyOf[a] = NoKey THEN seen ELSE [seen EXCEPT ![KeyOf[a]] = clock]
    BY <1>4 DEF Check
  <2>2. \A k \in Keys : seen'[k] = IF k = KeyOf[a] THEN clock ELSE seen[k]
    BY <1>1, <1>2, <2>1
  <2>3. \A b \in Alerts : acceptedAt'[b] = IF b = a THEN clock ELSE acceptedAt[b]
    BY <1>1, <2>1
  <2>4. Unchecked'
    BY <1>1, <2>1, <2>2, <2>3 DEF DedupInv, Unchecked
  <2>5. SeenCovers'
    <3>1. SUFFICES ASSUME NEW b \in Alerts, KeyOf[b] # NoKey, acceptedAt'[b] # 0
                   PROVE  acceptedAt'[b] <= seen'[KeyOf[b]]
      BY DEF SeenCovers, Keyed
    <3>2. KeyOf[b] \in Keys
      BY <1>2, <3>1
    <3>3. acceptedAt[b] \in Nat /\ seen[KeyOf[b]] \in Nat /\ seen[KeyOf[b]] <= clock
      BY <1>1, <3>2 DEF DedupInv, Unchecked
    <3>4. b # a => acceptedAt[b] <= seen[KeyOf[b]]
      BY <2>3, <3>1 DEF DedupInv, SeenCovers, Keyed
    <3>5. QED
      BY <1>1, <2>2, <2>3, <3>2, <3>3, <3>4
  <2>6. ASSUME NEW b \in Alerts, b # a, KeyOf[a] = KeyOf[b], KeyOf[a] # NoKey,
               acceptedAt[b] # 0
        PROVE  clock - acceptedAt[b] >= Window
    <3>1. KeyOf[a] \in Keys /\ Keyed(b)
      BY <1>2, <2>6 DEF Keyed
    <3>2. /\ acceptedAt[b] \in Nat \ {0} /\ seen[KeyOf[a]] \in Nat
          /\ acceptedAt[b] <= seen[KeyOf[a]]
      BY <1>1, <2>6, <3>1 DEF DedupInv, SeenCovers
    <3>3. clock - seen[KeyOf[a]] >= Window
      BY <1>1, <1>2, <1>4, <2>6, <3>2 DEF IsDuplicate
    <3>4. QED
      BY <1>1, <1>2, <3>2, <3>3
  <2>7. DedupHolds'
    BY <2>3, <2>6 DEF DedupInv, DedupHolds
  <2>8. QED
    BY <2>4, <2>5, <2>7
<1>5. QED
  BY <1>3, <1>4

(* Every other step leaves the cache and the answers alone; time only goes on. *)
LEMMA SameDedup ==
  ASSUME DedupInv, UNCHANGED <<seen, acceptedAt>>, clock' \in {clock, clock + 1},
         \A a \in Alerts : call'[a] = "new" => call[a] = "new"
  PROVE  (SeenCovers /\ Unchecked /\ DedupHolds)'
<1>1. \A k \in Keys : seen'[k] <= clock'
  BY DEF DedupInv, NotifyTypes, NotifyTypeOK, Unchecked
<1>2. QED
  BY <1>1 DEF DedupInv, SeenCovers, Unchecked, DedupHolds, Keyed

LEMMA NextDedupInv ==
  DedupInv /\ BackoffHasRetry /\ [NotifyNext]_notifyVars => DedupInv'
<1>. SUFFICES ASSUME DedupInv, BackoffHasRetry, [NotifyNext]_notifyVars
              PROVE  DedupInv'
  OBVIOUS
<1>1. NotifyTypes'
  BY NextTypes DEF DedupInv
<1>2. call \in [Alerts -> CallStages]
  BY DEF DedupInv, NotifyTypes, NotifyTypeOK
<1>3. ASSUME NEW a \in Alerts, CallStep(a), ~Check(a)
      PROVE  (SeenCovers /\ Unchecked /\ DedupHolds)'
  <2>1. /\ UNCHANGED <<seen, acceptedAt, clock>>
        /\ \A b \in Alerts : call'[b] = "new" => call[b] = "new"
    BY <1>2, <1>3 DEF CallStep, LookForWorker, CreateWorker, StartWorker, Put
  <2>2. QED
    BY <2>1, SameDedup
<1>4. ASSUME NEW w \in Threads, WorkStep(w)
      PROVE  (SeenCovers /\ Unchecked /\ DedupHolds)'
  <2>1. UNCHANGED <<seen, acceptedAt, clock, call>>
    BY <1>4 DEF WorkStep, SendStep, Trial, Take, LeaveLoop, SendSucceeds, SendFails, Requeue,
                RequeueRaises, ConfigRaises
  <2>2. QED
    BY <2>1, SameDedup
<1>5. ASSUME Shutdown \/ Tick \/ UNCHANGED notifyVars
      PROVE  (SeenCovers /\ Unchecked /\ DedupHolds)'
  <2>1. UNCHANGED <<seen, acceptedAt, call>> /\ clock' \in {clock, clock + 1}
    BY <1>5 DEF Shutdown, Tick, notifyVars
  <2>2. QED
    BY <2>1, SameDedup
<1>6. ASSUME NEW a \in Alerts, CallStep(a)
      PROVE  (SeenCovers /\ Unchecked /\ DedupHolds)'
  <2>1. CASE Check(a)
    BY <2>1, CheckDedup
  <2>2. QED
    BY <1>3, <1>6, <2>1
<1>7. (SeenCovers /\ Unchecked /\ DedupHolds)'
  BY <1>4, <1>5, <1>6 DEF NotifyNext
<1>8. QED
  BY <1>1, <1>7 DEF DedupInv

(* Two alerts with one source and rule that were both let through are a deduplication
   window apart: the cache is checked and marked under one lock. *)
THEOREM DedupKept == NotifySpec => []DedupHolds
<1>1. NotifyInit => DedupInv
  <2>1. NotifyInit => SeenCovers /\ Unchecked /\ DedupHolds
    BY DEF NotifyInit, SeenCovers, Unchecked, DedupHolds, Keyed
  <2>2. QED
    BY <2>1, InitTypes DEF DedupInv
<1>2. NotifyInv => BackoffHasRetry
  BY DEF NotifyInv, Accounts, Counted
<1>3. DedupInv => DedupHolds
  BY DEF DedupInv
<1>4. QED
  BY <1>1, <1>2, <1>3, NextDedupInv, InitNotifyInv, NextNotifyInv, PTL DEF NotifySpec
-----------------------------------------------------------------------------
(* The refinement of NoticeFate.  A call has opened the notices of all the channels it
   has come to, so that the next one follows those before it. *)
Opened ==
  \A a \in Alerts, i \in DOMAIN Channels : i <= putting[a] => fate[<<a, Channels[i]>>] # "none"

LEMMA SameOpened ==
  ASSUME Opened, UNCHANGED putting,
         \A n \in Notices : fate[n] # "none" => fate'[n] # "none"
  PROVE  Opened'
BY DEF Opened, Notices, ChannelSet

LEMMA PutOpened ==
  ASSUME NotifyInv, Opened, NEW a \in Alerts, Put(a)
  PROVE  Opened'
<1>1. CASE QueueFull
  BY <1>1 DEF Put, Opened
<1>2. CASE ~QueueFull
  <2>1. /\ putting' = [putting EXCEPT ![a] = @ + 1]
        /\ fate' = [fate EXCEPT ![NextNotice(a)] = "open"]
    BY <1>2 DEF Put, NextNotice
  <2>2. /\ NextNotice(a) \in Notices /\ fate \in [Notices -> Fates]
        /\ putting \in [Alerts -> 0..Len(Channels)] /\ Len(Channels) \in Nat
        /\ DOMAIN Channels = 1..Len(Channels)
    BY NextNoticeType, ChannelsType DEF NotifyInv, NotifyTypes, NotifyTypeOK, Put
  <2>3. ASSUME NEW b \in Alerts, NEW i \in DOMAIN Channels, i <= putting'[b]
        PROVE  fate'[<<b, Channels[i]>>] # "none"
    <3>1. <<b, Channels[i]>> \in Notices
      BY DEF Notices, ChannelSet
    <3>2. CASE i <= putting[b]
      BY <2>1, <2>2, <3>1, <3>2 DEF Opened
    <3>3. CASE ~(i <= putting[b])
      <4>1. b = a /\ i = putting[a] + 1
        BY <2>1, <2>2, <2>3, <3>3
      <4> QED
        BY <2>1, <2>2, <4>1 DEF NextNotice
    <3> QED
      BY <3>2, <3>3
  <2> QED
    BY <2>3 DEF Opened
<1> QED
  BY <1>1, <1>2

(* A task in a worker's hand. *)
LEMMA HeldNotice ==
  ASSUME NotifyInv, NEW w \in Threads, Busy(w)
  PROVE  /\ TaskOf(w).notice \in Notices /\ fate[TaskOf(w).notice] = "open"
         /\ attempts[TaskOf(w).notice] = Tried(w)
         /\ TaskOf(w).retries \in 0..MaxRetries /\ MaxRetries \in Nat
         /\ fate \in [Notices -> Fates] /\ attempts \in [Notices -> Nat]
BY TaskType, NotificationAssumption
   DEF NotifyInv, NotifyTypes, NotifyTypeOK, Accounts, Placed, Counted

LEMMA SettledStays ==
  ASSUME NotifyInv, NEW w \in Threads, SendStep(w) \/ DropStep(w)
  PROVE  \A n \in Notices : fate[n] # "none" => fate'[n] # "none"
<1>1. Busy(w)
  BY DropIs DEF SendStep, SendSucceeds, SendFails, Trial, Busy
<1>2. CASE SendStep(w)
  BY <1>1, <1>2, HeldNotice DEF SendStep, SendSucceeds, SendFails
<1>3. CASE DropStep(w)
  BY <1>1, <1>3, DropIs, HeldNotice
<1> QED
  BY <1>2, <1>3

LEMMA NextOpened == NotifyInv /\ Opened /\ [NotifyNext]_notifyVars => Opened'
<1>. SUFFICES ASSUME NotifyInv, Opened, [NotifyNext]_notifyVars
              PROVE  Opened'
  OBVIOUS
<1>1. CASE Shutdown \/ Tick \/ UNCHANGED notifyVars
  BY <1>1, SameOpened DEF Shutdown, Tick, notifyVars
<1>2. ASSUME NEW a \in Alerts, CallStep(a)
      PROVE  Opened'
  BY <1>2, PutOpened, SameOpened DEF CallStep, Check, LookForWorker, CreateWorker, StartWorker
<1>3. ASSUME NEW w \in Threads, Take(w) \/ LeaveLoop(w) \/ Requeue(w)
      PROVE  Opened'
  BY <1>3, SameOpened DEF Take, LeaveLoop, Requeue
<1>4. ASSUME NEW w \in Threads, SendStep(w) \/ DropStep(w)
      PROVE  Opened'
  <2>1. UNCHANGED putting
    BY <1>4, DropIs DEF SendStep, SendSucceeds, SendFails, Trial
  <2> QED
    BY <1>4, <2>1, SettledStays, SameOpened
<1> QED
  BY <1>1, <1>2, <1>3, <1>4 DEF NotifyNext, WorkStep, DropStep

LEMMA PutKeepsPromise ==
  ASSUME NotifyInv, Opened, NEW a \in Alerts, Put(a), ~QueueFull
  PROVE  \E n \in Notices : Notice!Open(n)
<1>. DEFINE n == NextNotice(a)
<1>1. /\ fate' = [fate EXCEPT ![n] = "open"] /\ UNCHANGED attempts
      /\ call[a] = "putting"
  BY DEF Put, NextNotice
<1>2. /\ n \in Notices /\ putting[a] \in Nat /\ putting[a] + 1 \in DOMAIN Channels
      /\ DOMAIN Channels = 1..Len(Channels) /\ Len(Channels) \in Nat
  <2>1. NotifyTypes /\ putting \in [Alerts -> 0..Len(Channels)]
    BY DEF NotifyInv, NotifyTypes, NotifyTypeOK
  <2>2. n \in Notices /\ putting[a] + 1 \in DOMAIN Channels
    BY <1>1, <2>1, NextNoticeType
  <2> QED
    BY <2>1, <2>2, ChannelsType
<1>3. fate[n] = "none"
  BY <1>2 DEF NotifyInv, Accounts, Unput, NextNotice
<1>4. ASSUME NEW m \in EarlierNotices[n]
      PROVE  fate[m] # "none"
  <2>1. m \in Notices /\ m[1] = n[1]
    BY <1>2, <1>4 DEF EarlierNotices
  <2>2. PICK i, j \in DOMAIN Channels : i < j /\ Channels[i] = m[2] /\ Channels[j] = n[2]
    BY <1>2, <1>4 DEF EarlierNotices
  <2>3. n[1] = a /\ n[2] = Channels[putting[a] + 1]
    BY DEF NextNotice
  <2>4. j = putting[a] + 1
    BY <1>2, <2>2, <2>3, NotificationAssumption
  <2>5. i <= putting[a]
    BY <1>2, <2>2, <2>4
  <2>6. m = <<a, Channels[i]>>
    BY <2>1, <2>2, <2>3 DEF Notices
  <2> QED
    BY <2>2, <2>5, <2>6 DEF Opened
<1> QED
  BY <1>1, <1>2, <1>3, <1>4 DEF Notice!Open

LEMMA SendKeepsPromise ==
  ASSUME NotifyInv, NEW w \in Threads, SendStep(w)
  PROVE  \E n \in Notices : Notice!Arrive(n) \/ Notice!Miss(n)
<1>. DEFINE n == TaskOf(w).notice
<1>1. worker[w] = "sending" /\ Busy(w) /\ attempts' = [attempts EXCEPT ![n] = @ + 1]
  BY DEF SendStep, SendSucceeds, SendFails, Trial, Busy
<1>2. /\ n \in Notices /\ fate[n] = "open" /\ attempts[n] = TaskOf(w).retries
      /\ TaskOf(w).retries \in 0..MaxRetries /\ MaxRetries \in Nat
  BY <1>1, HeldNotice DEF Tried
<1>3. Notice!Try(n)
  BY <1>1, <1>2 DEF Notice!Try
<1>4. CASE SendSucceeds(w)
  <2>1. Notice!Arrive(n)
    BY <1>2, <1>3, <1>4 DEF SendSucceeds, Notice!Arrive
  <2> QED
    BY <1>2, <2>1
<1>5. CASE SendFails(w)
  <2>1. HasRetry(w) <=> attempts[n] + 1 # MaxRetries + 1
    BY <1>2 DEF HasRetry
  <2>2. Notice!Miss(n)
    BY <1>2, <1>3, <1>5, <2>1 DEF SendFails, Notice!Miss
  <2> QED
    BY <1>2, <2>2
<1> QED
  BY <1>4, <1>5 DEF SendStep

LEMMA DropKeepsPromise ==
  ASSUME NotifyInv, NEW w \in Threads, DropStep(w)
  PROVE  \E n \in Notices : Notice!Drop(n)
<1>. DEFINE n == TaskOf(w).notice
<1>1. Busy(w) /\ fate' = [fate EXCEPT ![n] = "dropped"] /\ UNCHANGED attempts
  BY DropIs
<1>2. /\ n \in Notices /\ fate[n] = "open" /\ attempts[n] = Tried(w)
      /\ TaskOf(w).retries \in 0..MaxRetries /\ MaxRetries \in Nat
  BY <1>1, HeldNotice
<1>3. CASE worker[w] = "backoff"
  <2>1. TaskOf(w).retries < MaxRetries
    BY <1>3 DEF NotifyInv, Accounts, Counted, BackoffHasRetry, HasRetry
  <2>2. attempts[n] < MaxRetries + 1
    BY <1>2, <1>3, <2>1 DEF Tried
  <2> QED
    BY <1>1, <1>2, <2>2 DEF Notice!Drop
<1>4. CASE worker[w] # "backoff"
  <2>1. attempts[n] < MaxRetries + 1
    BY <1>2, <1>4 DEF Tried
  <2> QED
    BY <1>1, <1>2, <2>1 DEF Notice!Drop
<1> QED
  BY <1>3, <1>4

LEMMA StepKeepsNotices ==
  NotifyInv /\ Opened /\ [NotifyNext]_notifyVars => [Notice!NoticeNext]_(Notice!noticeVars)
<1>. SUFFICES ASSUME NotifyInv, Opened, [NotifyNext]_notifyVars
              PROVE  Notice!NoticeNext \/ UNCHANGED <<fate, attempts>>
  BY DEF Notice!noticeVars
<1>1. CASE Shutdown \/ Tick \/ UNCHANGED notifyVars
  BY <1>1 DEF Shutdown, Tick, notifyVars
<1>2. ASSUME NEW a \in Alerts, CallStep(a)
      PROVE  Notice!NoticeNext \/ UNCHANGED <<fate, attempts>>
  <2>1. CASE Put(a) /\ ~QueueFull
    BY <2>1, PutKeepsPromise DEF Notice!NoticeNext
  <2>2. CASE Put(a) /\ QueueFull
    BY <2>2 DEF Put
  <2> QED
    BY <1>2, <2>1, <2>2 DEF CallStep, Check, LookForWorker, CreateWorker, StartWorker
<1>3. ASSUME NEW w \in Threads, WorkStep(w)
      PROVE  Notice!NoticeNext \/ UNCHANGED <<fate, attempts>>
  <2>1. CASE Take(w) \/ LeaveLoop(w) \/ Requeue(w)
    BY <2>1 DEF Take, LeaveLoop, Requeue
  <2>2. CASE SendStep(w)
    BY <2>2, SendKeepsPromise DEF Notice!NoticeNext
  <2>3. CASE DropStep(w)
    BY <2>3, DropKeepsPromise DEF Notice!NoticeNext
  <2> QED
    BY <1>3, <2>1, <2>2, <2>3 DEF WorkStep, DropStep
<1> QED
  BY <1>1, <1>2, <1>3 DEF NotifyNext

(* The callers, the queue and the workers implement NoticeFate: whoever starts whose
   worker, is thrown out of starting one, retries, or dies of a full queue or of its
   configuration, the notices of an alert are opened in the order of its
   channels, each is tried within one budget, and what was settled is never tried again. *)
THEOREM NoticesKeepPromise == NotifySpec => NoticeRefined
<1>1. NotifyInit => Notice!NoticeInit
  BY DEF NotifyInit, Notice!NoticeInit
<1>2. NotifyInit => Opened
  BY ChannelsType DEF NotifyInit, Opened
<1> QED
  BY <1>1, <1>2, InitNotifyInv, NextNotifyInv, NextOpened, StepKeepsNotices, PTL
     DEF NotifySpec, NoticeRefined, Notice!NoticeSpec
=============================================================================
