--------------------------- MODULE MessageBroker ---------------------------
(***************************************************************************)
(* RabbitMQBroker, api/message_broker.py, with the RabbitMQ server it      *)
(* talks to: a publisher connection used from the event loop, and a        *)
(* consumer thread with a connection of its own.                           *)
(*                                                                         *)
(* External, as far as the class relies on it: the queue is durable and    *)
(* FIFO, a message is persistent, an unacknowledged message goes back to   *)
(* the head of the queue when its connection goes, and nothing confirms a  *)
(* publish (the class never calls confirm_delivery).                       *)
(***************************************************************************)
EXTENDS Integers, Sequences

CONSTANTS Messages,     (* the events that may be published                  *)
          NoMessage     (* the callback has no message in hand               *)

VARIABLES
  serverUp,     (* RabbitMQ accepts connections                              *)
  ready,        (* the durable queue                                         *)
  publisher,    (* _publish_connection and _publish_channel                  *)
  thread,       (* where the consumer thread is                              *)
  keepOn,       (* self._consumer_running                                    *)
  link,         (* the consumer's channel is open, on a connection that lives *)
  halfOpen,     (* ... or only its connection is, as far as the thread knows *)
  inHand,       (* the message whose _callback is executing                  *)
  handedOver    (* ... and on_message has returned                           *)

brokerVars == <<serverUp, ready, publisher, thread, keepOn, link, halfOpen, inHand,
                handedOver>>

(* "wedged": the connection is open and its channel is closed, so that
   _connect_publisher returns at once and basic_publish raises.
   "stale": the server is gone and the client has not noticed.
   "dead": an exception of the finally clause has ended the consumer thread. *)
PublisherStates == {"none", "open", "stale", "wedged"}
ThreadStates    == {"none", "loop", "connecting", "consuming", "ended", "dead"}

BrokerInit ==
  /\ serverUp \in BOOLEAN
  /\ ready = <<>>
  /\ publisher = "none"
  /\ thread = "none"
  /\ keepOn = FALSE
  /\ link = FALSE
  /\ halfOpen = FALSE
  /\ inHand = NoMessage
  /\ handedOver = FALSE
----------------------------------------------------------------------------
(* The publisher.  publish: connects when there is no open channel, then writes. *)
CanPublish == serverUp /\ publisher \in {"none", "open"}

PublishStored(m) ==
  /\ CanPublish
  /\ publisher' = "open"
  /\ ready' = Append(ready, m)
  /\ UNCHANGED <<serverUp, thread, keepOn, link, halfOpen, inHand, handedOver>>

(* No server to connect to, a dead connection noticed, or a closed channel on
   an open connection: the last never heals, because nothing looks at it. *)
PublishRaises ==
  /\ ~CanPublish
  /\ publisher' = IF publisher = "wedged" THEN "wedged" ELSE "none"
  /\ UNCHANGED <<serverUp, ready, thread, keepOn, link, halfOpen, inHand, handedOver>>

(* The socket takes the bytes, and the server they are for is gone. *)
PublishVanishes ==
  /\ publisher = "stale"
  /\ UNCHANGED brokerVars

(* The server closes the channel (a redeclared queue, a deleted exchange). *)
ChannelClosed ==
  /\ serverUp
  /\ publisher = "open"
  /\ publisher' = "wedged"
  /\ UNCHANGED <<serverUp, ready, thread, keepOn, link, halfOpen, inHand, handedOver>>
(* Nothing services the publisher's heartbeats between two publishes, so the
   server drops the connection of a quiet publisher. *)
PublisherIdles ==
  /\ serverUp
  /\ publisher = "open"
  /\ publisher' = "stale"
  /\ UNCHANGED <<serverUp, ready, thread, keepOn, link, halfOpen, inHand, handedOver>>
----------------------------------------------------------------------------
(* The consumer thread. *)
StartConsumer ==
  /\ keepOn' = TRUE
  /\ thread' = "loop"
  /\ UNCHANGED <<serverUp, ready, publisher, link, halfOpen, inHand, handedOver>>

(* while self._consumer_running *)
LoopTest ==
  /\ thread = "loop"
  /\ thread' = IF keepOn THEN "connecting" ELSE "ended"
  /\ UNCHANGED <<serverUp, ready, publisher, keepOn, link, halfOpen, inHand, handedOver>>

(* _connect_consumer and basic_consume; the flag is not looked at again. *)
ConnectConsumer ==
  /\ thread = "connecting"
  /\ serverUp
  /\ thread' = "consuming"
  /\ link' = TRUE
  /\ UNCHANGED <<serverUp, ready, publisher, keepOn, halfOpen, inHand, handedOver>>

(* Mutant of ConnectFails: the thread ends at the first failure. *)
ConnectGivesUp ==
  /\ thread = "connecting"
  /\ ~serverUp
  /\ thread' = "ended"
  /\ UNCHANGED <<serverUp, ready, publisher, keepOn, link, halfOpen, inHand, handedOver>>

(* No server: the loop goes round at once. *)
ConnectFails ==
  /\ thread = "connecting"
  /\ ~serverUp
  /\ thread' = "loop"
  /\ UNCHANGED <<serverUp, ready, publisher, keepOn, link, halfOpen, inHand, handedOver>>

Deliver ==
  /\ thread = "consuming"
  /\ link
  /\ inHand = NoMessage
  /\ ready # <<>>
  /\ inHand' = Head(ready)
  /\ ready' = Tail(ready)
  /\ UNCHANGED <<serverUp, publisher, thread, keepOn, link, halfOpen, handedOver>>

OnMessageReturns ==
  /\ inHand # NoMessage
  /\ ~handedOver
  /\ handedOver' = TRUE
  /\ UNCHANGED <<serverUp, ready, publisher, thread, keepOn, link, halfOpen, inHand>>

(* start_consuming has ended, and the finally clause of the loop runs: a connection that
   is still open is closed, with no try around it.  A close that raises, because the
   connection goes meanwhile, ends the thread, which nobody starts again. *)
FinallyClause ==
  /\ thread' \in IF halfOpen THEN {"loop", "dead"} ELSE {"loop"}
  /\ halfOpen' = FALSE

(* The end of _callback.  On a dead connection or a closed channel the ack or the nack
   raises, which ends start_consuming. *)
LeaveCallback ==
  /\ inHand' = NoMessage
  /\ handedOver' = FALSE
  /\ IF link THEN UNCHANGED <<thread, halfOpen>> ELSE FinallyClause
  /\ UNCHANGED <<serverUp, ready, publisher, keepOn, link>>

(* basic_ack after on_message returned *)
Ack == inHand # NoMessage /\ handedOver /\ LeaveCallback

(* basic_nack(requeue=False) because on_message raised *)
Nack == inHand # NoMessage /\ ~handedOver /\ LeaveCallback

(* An idle consumer finds its connection dead or its channel closed. *)
NoticeLinkLost ==
  /\ thread = "consuming"
  /\ ~link
  /\ inHand = NoMessage
  /\ FinallyClause
  /\ UNCHANGED <<serverUp, ready, publisher, keepOn, link, inHand, handedOver>>
----------------------------------------------------------------------------
(* What the server does with the unacknowledged message when the channel or the
   connection goes. *)
Requeued == IF link /\ inHand # NoMessage THEN <<inHand>> \o ready ELSE ready

LinkLost ==
  /\ link
  /\ link' = FALSE
  /\ ready' = Requeued
  /\ UNCHANGED <<serverUp, publisher, thread, keepOn, halfOpen, inHand, handedOver>>

(* The server closes the consumer's channel (or cancels the consumer of a deleted queue)
   and keeps the connection. *)
ConsumerChannelClosed ==
  /\ link
  /\ link' = FALSE
  /\ halfOpen' = TRUE
  /\ ready' = Requeued
  /\ UNCHANGED <<serverUp, publisher, thread, keepOn, inHand, handedOver>>

(* _connect_consumer or basic_consume raises on the new connection: the finally clause
   closes it, or raises in its turn. *)
ConnectBreaks ==
  /\ thread = "connecting"
  /\ serverUp
  /\ thread' \in {"loop", "dead"}
  /\ UNCHANGED <<serverUp, ready, publisher, keepOn, link, halfOpen, inHand, handedOver>>

ServerDown ==
  /\ serverUp
  /\ serverUp' = FALSE
  /\ link' = FALSE
  /\ ready' = Requeued
  /\ publisher' = IF publisher = "open" THEN "stale" ELSE publisher
  /\ UNCHANGED <<thread, keepOn, halfOpen, inHand, handedOver>>

ServerBack ==
  /\ ~serverUp
  /\ serverUp' = TRUE
  /\ UNCHANGED <<ready, publisher, thread, keepOn, link, halfOpen, inHand, handedOver>>

(* Mutant of StopConsumer: the flag is left set. *)
StopKeepsFlag ==
  /\ publisher' = "none"
  /\ link' = FALSE
  /\ halfOpen' = FALSE
  /\ ready' = Requeued
  /\ UNCHANGED <<serverUp, thread, keepOn, inHand, handedOver>>

(* stop_consumer: clears the flag and closes what is there to close.  A thread
   that is still connecting has nothing to close yet and goes on regardless. *)
StopConsumer ==
  /\ keepOn' = FALSE
  /\ publisher' = "none"
  /\ link' = FALSE
  /\ halfOpen' = FALSE
  /\ ready' = Requeued
  /\ UNCHANGED <<serverUp, thread, inHand, handedOver>>

(* ... or close raises on a publisher connection that is no longer there: the
   flag is cleared, and the consumer's connection is not closed. *)
StopConsumerRaises ==
  /\ publisher = "stale"
  /\ keepOn' = FALSE
  /\ UNCHANGED <<serverUp, ready, publisher, thread, link, halfOpen, inHand, handedOver>>

(* The process is gone, and with it both connections and the thread. *)
ProcessGone ==
  /\ publisher' = "none"
  /\ thread' = "none"
  /\ keepOn' = FALSE
  /\ link' = FALSE
  /\ halfOpen' = FALSE
  /\ ready' = Requeued
  /\ inHand' = NoMessage
  /\ handedOver' = FALSE
  /\ UNCHANGED serverUp
----------------------------------------------------------------------------
(* The values of the variables. *)
BrokerTypeOK ==
  /\ serverUp \in BOOLEAN
  /\ ready \in Seq(Messages)
  /\ publisher \in PublisherStates
  /\ thread \in ThreadStates
  /\ keepOn \in BOOLEAN
  /\ link \in BOOLEAN
  /\ halfOpen \in BOOLEAN
  /\ inHand \in Messages \cup {NoMessage}
  /\ handedOver \in BOOLEAN
============================================================================
