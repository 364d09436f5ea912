------------------------- MODULE NotificationWorker -------------------------
(***************************************************************************)
(* Alerts to the notification channels, config/notifications_v2.py: the    *)
(* callers of send_notification (each a thread of its own: playbooks run   *)
(* in asyncio.to_thread), the deduplication cache, the bounded queue and   *)
(* the worker threads with their retries.                                  *)
(*                                                                         *)
(* Alerts of a severity outside NOTIFY_SEVERITIES return at once and are   *)
(* left out.  The lock of the cache and the queue's own lock are the only  *)
(* ones: everything else of two callers interleaves.                       *)
(***************************************************************************)
EXTENDS Integers, Sequences, FiniteSets

CONSTANTS
  Alerts,       (* the calls of send_notification                            *)
  Keys,         (* "src_ip:rule_id"                                          *)
  KeyOf,        (* the key of each alert, or NoKey                           *)
  NoKey,        (* src_ip or rule_id is missing                              *)
  Channels,     (* the list of channels, in the order they are queued        *)
  Enabled,      (* the channels that are enabled in the configuration        *)
  Threads,      (* names for worker threads                                  *)
  NoThread,     (* _worker_thread is None                                    *)
  QueueCap,     (* maxsize of _notification_queue                            *)
  MaxRetries,   (* MAX_RETRIES                                               *)
  Window,       (* DEDUP_WINDOW_SECONDS                                      *)
  MaxTime       (* bound on the clock                                        *)

ChannelSet == {Channels[i] : i \in DOMAIN Channels}

ASSUME NotificationAssumption ==
  /\ Channels \in Seq(ChannelSet) \ {<<>>}
  /\ \A i, j \in DOMAIN Channels : Channels[i] = Channels[j] => i = j
  /\ KeyOf \in [Alerts -> Keys \cup {NoKey}]
  /\ NoKey \notin Keys
  /\ NoThread \notin Threads
  /\ QueueCap \in Nat \ {0}
  /\ MaxRetries \in Nat
  /\ Window \in Nat \ {0}
  /\ MaxTime \in Nat \ {0}

VARIABLES
  call,         (* where each call of send_notification is                   *)
  putting,      (* how many channels a call has queued                       *)
  seen,         (* _dedup_cache; 0 when the key is absent                    *)
  queue,        (* _notification_queue                                       *)
  worker,       (* where each worker thread is                               *)
  hand,         (* the task a worker is at, in a sequence of at most one     *)
  current,      (* _worker_thread                                            *)
  shutdown,     (* the event _shutdown                                       *)
  clock,        (* time.time()                                               *)
  acceptedAt,   (* history: when an alert passed deduplication, or 0         *)
  attempts,     (* history: how often each notification was tried            *)
  fate          (* history: what became of it                                *)

notifyVars == <<call, putting, seen, queue, worker, hand, current, shutdown, clock,
                acceptedAt, attempts, fate>>

Notices    == Alerts \X ChannelSet
Tasks      == [notice : Notices, retries : 0..MaxRetries]
CallStages == {"new", "accepted", "creating", "starting", "putting", "returned", "duplicate",
               "raised"}
WorkStages == {"unborn", "created", "idle", "sending", "backoff", "dead"}
Fates      == {"none", "open", "sent", "failed", "dropped"}
Alive(w)   == w \in Threads /\ worker[w] \in {"idle", "sending", "backoff"}

NotifyInit ==
  /\ call = [a \in Alerts |-> "new"]
  /\ putting = [a \in Alerts |-> 0]
  /\ seen = [k \in Keys |-> 0]
  /\ queue = <<>>
  /\ worker = [w \in Threads |-> "unborn"]
  /\ hand = [w \in Threads |-> <<>>]
  /\ current = NoThread
  /\ shutdown = FALSE
  /\ clock = 1
  /\ acceptedAt = [a \in Alerts |-> 0]
  /\ attempts = [n \in Notices |-> 0]
  /\ fate = [n \in Notices |-> "none"]

(* Mutant of QueueFull: the bound is tested with > instead of >=. *)
QueueOverfull == Len(queue) > QueueCap

(* put_nowait raises queue.Full exactly when maxsize tasks wait. *)
QueueFull == Len(queue) >= QueueCap
----------------------------------------------------------------------------
(* _is_duplicate, the answer: seen less than a window ago. *)
IsDuplicate(a) ==
  /\ KeyOf[a] # NoKey
  /\ seen[KeyOf[a]] # 0
  /\ clock - seen[KeyOf[a]] < Window

(* Mutant of Check: only a duplicate refreshes the cache. *)
CheckUnmarked(a) ==
  /\ call[a] = "new"
  /\ IF IsDuplicate(a)
     THEN /\ call' = [call EXCEPT ![a] = "duplicate"]
          /\ seen' = [seen EXCEPT ![KeyOf[a]] = clock]
          /\ UNCHANGED acceptedAt
     ELSE /\ call' = [call EXCEPT ![a] = "accepted"]
          /\ acceptedAt' = [acceptedAt EXCEPT ![a] = clock]
          /\ UNCHANGED seen
  /\ UNCHANGED <<putting, queue, worker, hand, current, shutdown, clock, attempts, fate>>

(* send_notification, up to the deduplication, which marks what it lets through. *)
Check(a) ==
  /\ call[a] = "new"
  /\ IF IsDuplicate(a)
     THEN /\ call' = [call EXCEPT ![a] = "duplicate"]
          /\ UNCHANGED <<seen, acceptedAt>>
     ELSE /\ call' = [call EXCEPT ![a] = "accepted"]
          /\ seen' = IF KeyOf[a] = NoKey THEN seen ELSE [seen EXCEPT ![KeyOf[a]] = clock]
          /\ acceptedAt' = [acceptedAt EXCEPT ![a] = clock]
  /\ UNCHANGED <<putting, queue, worker, hand, current, shutdown, clock, attempts, fate>>

(* _start_worker looks whether _worker_thread is alive: one that was created and not
   started yet is not ... *)
LookForWorker(a) ==
  /\ call[a] = "accepted"
  /\ call' = [call EXCEPT ![a] = IF Alive(current) THEN "putting" ELSE "creating"]
  /\ UNCHANGED <<putting, seen, queue, worker, hand, current, shutdown, clock, acceptedAt,
                 attempts, fate>>

(* ... makes a thread when it was not, and the global one of it, whoever else has done
   so since ... *)
CreateWorker(a, w) ==
  /\ call[a] = "creating"
  /\ worker[w] = "unborn"
  /\ worker' = [worker EXCEPT ![w] = "created"]
  /\ current' = w
  /\ call' = [call EXCEPT ![a] = "starting"]
  /\ UNCHANGED <<putting, seen, queue, hand, shutdown, clock, acceptedAt, attempts, fate>>

(* ... and starts the thread the global names by then, which another caller may have made,
   its own being started by nobody.  A thread that was started before raises RuntimeError
   out of send_notification: the alert is marked in the cache, and no channel is queued. *)
StartWorker(a) ==
  /\ call[a] = "starting"
  /\ IF worker[current] = "created"
     THEN /\ worker' = [worker EXCEPT ![current] = "idle"]
          /\ call' = [call EXCEPT ![a] = "putting"]
     ELSE /\ call' = [call EXCEPT ![a] = "raised"]
          /\ UNCHANGED worker
  /\ UNCHANGED <<putting, seen, queue, hand, current, shutdown, clock, acceptedAt, attempts,
                 fate>>

(* Mutant of Put: a channel that finds the queue full is skipped, and the next one tried. *)
PutSkips(a) ==
  /\ call[a] = "putting"
  /\ putting' = [putting EXCEPT ![a] = @ + 1]
  /\ call' = [call EXCEPT ![a] = IF putting[a] + 1 = Len(Channels) THEN "returned" ELSE "putting"]
  /\ LET notice == <<a, Channels[putting[a] + 1]>>
     IN  IF QueueFull
         THEN UNCHANGED <<queue, fate>>
         ELSE /\ queue' = Append(queue, [notice |-> notice, retries |-> 0])
              /\ fate' = [fate EXCEPT ![notice] = "open"]
  /\ UNCHANGED <<seen, worker, hand, current, shutdown, clock, acceptedAt, attempts>>

(* put_nowait of the next channel; a full queue raises out of send_notification. *)
Put(a) ==
  /\ call[a] = "putting"
  /\ IF QueueFull
     THEN /\ call' = [call EXCEPT ![a] = "raised"]
          /\ UNCHANGED <<putting, queue, fate>>
     ELSE LET notice == <<a, Channels[putting[a] + 1]>>
          IN  /\ queue' = Append(queue, [notice |-> notice, retries |-> 0])
              /\ fate' = [fate EXCEPT ![notice] = "open"]
              /\ putting' = [putting EXCEPT ![a] = @ + 1]
              /\ call' = [call EXCEPT ![a] =
                            IF putting[a] + 1 = Len(Channels) THEN "returned" ELSE "putting"]
  /\ UNCHANGED <<seen, worker, hand, current, shutdown, clock, acceptedAt, attempts>>
----------------------------------------------------------------------------
(* queue.get(timeout=1.0); a get that is under way when _shutdown is set still counts. *)
Take(w) ==
  /\ worker[w] = "idle"
  /\ queue # <<>>
  /\ hand' = [hand EXCEPT ![w] = <<Head(queue)>>]
  /\ queue' = Tail(queue)
  /\ worker' = [worker EXCEPT ![w] = "sending"]
  /\ UNCHANGED <<call, putting, seen, current, shutdown, clock, acceptedAt, attempts, fate>>

LeaveLoop(w) ==
  /\ worker[w] = "idle"
  /\ shutdown
  /\ worker' = [worker EXCEPT ![w] = "dead"]
  /\ UNCHANGED <<call, putting, seen, queue, hand, current, shutdown, clock, acceptedAt,
                 attempts, fate>>

TaskOf(w) == hand[w][1]

(* _load_config, outside the try: a malformed number in the environment ends the worker
   with the task in its hand, at no attempt.  The environment is the same at every load;
   which loads raise is left open, which covers all and none of them. *)
ConfigRaises(w) ==
  /\ worker[w] = "sending"
  /\ worker' = [worker EXCEPT ![w] = "dead"]
  /\ hand' = [hand EXCEPT ![w] = <<>>]
  /\ fate' = [fate EXCEPT ![TaskOf(w).notice] = "dropped"]
  /\ UNCHANGED <<call, putting, seen, queue, current, shutdown, clock, acceptedAt, attempts>>

Trial(w) ==
  /\ worker[w] = "sending"
  /\ attempts' = [attempts EXCEPT ![TaskOf(w).notice] = @ + 1]
  /\ UNCHANGED <<call, putting, seen, queue, current, shutdown, clock, acceptedAt>>

(* The channel's sender returned True (or had nothing to send: PagerDuty takes
   CRITICAL alerts only). *)
SendSucceeds(w) ==
  /\ Trial(w)
  /\ TaskOf(w).notice[2] \in Enabled
  /\ fate' = [fate EXCEPT ![TaskOf(w).notice] = "sent"]
  /\ worker' = [worker EXCEPT ![w] = "idle"]
  /\ hand' = [hand EXCEPT ![w] = <<>>]

HasRetry(w) == TaskOf(w).retries < MaxRetries

(* The sender returned False or raised; a channel that is not enabled fails too,
   and is tried again like the others. *)
SendFails(w) ==
  /\ Trial(w)
  /\ IF HasRetry(w)
     THEN /\ worker' = [worker EXCEPT ![w] = "backoff"]
          /\ UNCHANGED <<hand, fate>>
     ELSE /\ worker' = [worker EXCEPT ![w] = "idle"]
          /\ hand' = [hand EXCEPT ![w] = <<>>]
          /\ fate' = [fate EXCEPT ![TaskOf(w).notice] = "failed"]

(* Mutant of Requeue: the worker keeps the task it has put back. *)
RequeueKeepsHand(w) ==
  /\ worker[w] = "backoff"
  /\ ~QueueFull
  /\ queue' = Append(queue, [TaskOf(w) EXCEPT !.retries = @ + 1])
  /\ worker' = [worker EXCEPT ![w] = "idle"]
  /\ UNCHANGED <<call, putting, seen, hand, current, shutdown, clock, acceptedAt, attempts,
                 fate>>

(* After the backoff the task goes to the end of the queue. *)
Requeue(w) ==
  /\ worker[w] = "backoff"
  /\ ~QueueFull
  /\ queue' = Append(queue, [TaskOf(w) EXCEPT !.retries = @ + 1])
  /\ hand' = [hand EXCEPT ![w] = <<>>]
  /\ worker' = [worker EXCEPT ![w] = "idle"]
  /\ UNCHANGED <<call, putting, seen, current, shutdown, clock, acceptedAt, attempts, fate>>

(* Mutant of RequeueRaises: put() blocks instead of put_nowait() raising. *)
RequeueBlocks(w) ==
  /\ worker[w] = "backoff"
  /\ QueueFull
  /\ UNCHANGED notifyVars

(* ... and when there is no room, queue.Full ends the worker thread. *)
RequeueRaises(w) ==
  /\ worker[w] = "backoff"
  /\ QueueFull
  /\ worker' = [worker EXCEPT ![w] = "dead"]
  /\ hand' = [hand EXCEPT ![w] = <<>>]
  /\ fate' = [fate EXCEPT ![TaskOf(w).notice] = "dropped"]
  /\ UNCHANGED <<call, putting, seen, queue, current, shutdown, clock, acceptedAt, attempts>>

(* shutdown_notifications; nothing ever clears the event. *)
Shutdown ==
  /\ ~shutdown
  /\ shutdown' = TRUE
  /\ UNCHANGED <<call, putting, seen, queue, worker, hand, current, clock, acceptedAt, attempts,
                 fate>>

Tick ==
  /\ clock < MaxTime
  /\ clock' = clock + 1
  /\ UNCHANGED <<call, putting, seen, queue, worker, hand, current, shutdown, acceptedAt,
                 attempts, fate>>
----------------------------------------------------------------------------
CallStep(a) == \/ Check(a) \/ LookForWorker(a) \/ StartWorker(a) \/ Put(a)
               \/ \E w \in Threads : CreateWorker(a, w)
SendStep(w) == SendSucceeds(w) \/ SendFails(w)
WorkStep(w) == \/ Take(w) \/ LeaveLoop(w) \/ ConfigRaises(w) \/ SendStep(w)
               \/ Requeue(w) \/ RequeueRaises(w)

NotifyNext ==
  \/ \E a \in Alerts : CallStep(a)
  \/ \E w \in Threads : WorkStep(w)
  \/ Shutdown
  \/ Tick

NotifySpec == NotifyInit /\ [][NotifyNext]_notifyVars

(* Threads that can run do: a worker's senders time out, its backoff ends, and a
   call that has begun goes on. *)
NotifyFairness ==
  /\ \A w \in Threads : WF_notifyVars(WorkStep(w))
  /\ \A a \in Alerts : WF_notifyVars(call[a] # "new" /\ CallStep(a))

FairNotifySpec == NotifySpec /\ NotifyFairness
----------------------------------------------------------------------------
(* The values of the variables; the queue never holds more than its maxsize. *)
NotifyTypeOK ==
  /\ call \in [Alerts -> CallStages]
  /\ putting \in [Alerts -> 0..Len(Channels)]
  /\ seen \in [Keys -> 0..MaxTime]
  /\ queue \in Seq(Tasks) /\ Len(queue) <= QueueCap
  /\ worker \in [Threads -> WorkStages]
  /\ \A w \in Threads : Len(hand[w]) <= 1 /\ \A i \in DOMAIN hand[w] : hand[w][i] \in Tasks
  /\ current \in Threads \cup {NoThread}
  /\ shutdown \in BOOLEAN
  /\ clock \in 1..MaxTime
  /\ acceptedAt \in [Alerts -> 0..MaxTime]
  /\ attempts \in [Notices -> Nat]
  /\ fate \in [Notices -> Fates]

(* The tasks there are for notice n, in the queue and in workers' hands. *)
QueuedFor(n) == {i \in DOMAIN queue : queue[i].notice = n}
HeldFor(n)   == {w \in Threads : \E i \in DOMAIN hand[w] : hand[w][i].notice = n}

(* A notice that is neither sent, given up nor dropped is in one place, once: callers that
   start each other's workers, retries, and a worker that dies of a full queue or of its
   configuration never duplicate it, and only the last two lose one. *)
NoticeInOnePlace ==
  \A n \in Notices :
    Cardinality(QueuedFor(n)) + Cardinality(HeldFor(n)) = IF fate[n] = "open" THEN 1 ELSE 0

(* The retry budget: 1 + MAX_RETRIES attempts at the most, and a notice is given
   up with all of them used, whichever workers made them. *)
RetryBudget ==
  \A n \in Notices :
    /\ attempts[n] <= MaxRetries + 1
    /\ fate[n] = "failed" => attempts[n] = MaxRetries + 1
    /\ \A i \in QueuedFor(n) : queue[i].retries = attempts[n]

(* Of two alerts with one key that were let through, one came a window later, however
   their calls interleave. *)
DedupHolds ==
  \A a, b \in Alerts :
    (a # b /\ KeyOf[a] = KeyOf[b] /\ KeyOf[a] # NoKey /\ acceptedAt[a] # 0 /\ acceptedAt[b] # 0)
    => acceptedAt[a] - acceptedAt[b] >= Window \/ acceptedAt[b] - acceptedAt[a] >= Window

(* A queued notice is sent, given up or dropped in the end, unless the workers have
   died or were told to stop. *)
NoticesSettle ==
  \A n \in Notices :
    fate[n] = "open" ~> (fate[n] # "open" \/ shutdown \/ \A w \in Threads : ~Alive(w))

(* Every step of the callers and the workers is one of NoticeFate, or none: queue.Full
   leaves an alert with the notices of its first channels and a worker started twice with
   none, a settled notice is tried by no worker, and one is dropped only before its tries
   are used up. *)
EarlierNotices ==
  [n \in Notices |-> {m \in Notices : m[1] = n[1] /\ \E i, j \in DOMAIN Channels :
                                        i < j /\ <<Channels[i], Channels[j]>> = <<m[2], n[2]>>}]
Notice == INSTANCE NoticeFate WITH tries <- attempts, Budget <- MaxRetries + 1,
                                   Earlier <- EarlierNotices,
                                   Reachable <- {n \in Notices : n[2] \in Enabled}
NoticeRefined == Notice!NoticeSpec
============================================================================
