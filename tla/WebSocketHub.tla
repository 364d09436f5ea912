---------------------------- MODULE WebSocketHub ----------------------------
(***************************************************************************)
(* The ConnectionManager of api/websocket.py: the handlers of the sockets  *)
(* of /ws/events and /ws/metrics, and the broadcasts of the coroutines     *)
(* on_event_detected and on_metrics_update of api/main.py.                 *)
(*                                                                         *)
(* One asyncio.Lock guards both channels.  It serves its waiters in the    *)
(* order they came: "waiting" holds them, its head being the task that has *)
(* the lock.  A broadcast keeps the lock while it sends, and a send waits  *)
(* for room in what the client has not read yet.                           *)
(*                                                                         *)
(* A socket is a pair of its channel and a number.  "unread" counts what   *)
(* was sent to it and not read, "reach" is the state of its connection.    *)
(* The ping after 30 s of silence, which clients ignore, is left out.      *)
(***************************************************************************)
EXTENDS Naturals, SequencesExt

CONSTANTS
  Sockets,      (* the sockets clients may open: pairs of channel and number *)
  Room          (* messages a connection takes before a send waits           *)

Channels == {"events", "metrics"}

ASSUME HubAssumption ==
  /\ Sockets \subseteq Channels \X Nat /\ IsFiniteSet(Sockets)
  /\ Room \in Nat \ {0}

VARIABLES
  connections,  (* the manager's sets of sockets, by channel                 *)
  waiting,      (* the tasks at the lock                                     *)
  handler,      (* where the coroutine of each socket is                     *)
  reach,        (* whether a socket's connection is up, stalled or lost      *)
  unread,       (* messages sent to a socket and not read                    *)
  posts,        (* the channels each post still has to broadcast on          *)
  holder,       (* sockets the broadcast has served, and those it could not *)
  calls,        (* history: broadcasts that found listeners, by channel      *)
  from,         (* history: those on its channel before a socket joined      *)
  sent          (* history: those that were sent to it, in order             *)

hubVars == <<connections, waiting, handler, reach, unread, posts, holder, calls, from, sent>>

Channel(s) == s[1]
Places == {"none", "accepting", "joining", "serving", "leaving", "gone"}
Idle   == [served |-> {}, failed |-> {}]

HubInit ==
  /\ connections = [ch \in Channels |-> {}]
  /\ waiting = <<>>
  /\ handler = [s \in Sockets |-> "none"]
  /\ reach = [s \in Sockets |-> "none"]
  /\ unread = [s \in Sockets |-> 0]
  /\ posts = <<>>
  /\ holder = Idle
  /\ calls = [ch \in Channels |-> 0]
  /\ from = [s \in Sockets |-> 0]
  /\ sent = [s \in Sockets |-> <<>>]

(* A task at the lock: a socket that joins or leaves its channel, or a post with the nth
   message of a channel. *)
Task(kind, who, ch, n) == [kind |-> kind, who |-> who, channel |-> ch, n |-> n]
HasLock(kind, who) ==
  waiting # <<>> /\ waiting[1].kind = kind /\ waiting[1].who = who

(* What is sent to a socket: nothing if its connection is lost. *)
Push(s) == unread' = [unread EXCEPT ![s] = @ + 1]
HasRoom(s) == reach[s] \in {"up", "stalled"} /\ unread[s] < Room
----------------------------------------------------------------------------
(* Broadcasts.                                                             *)

(* What a post broadcasts: a HIGH event is an event, and an alert on both channels. *)
Kinds == {"event", "high_event", "metrics"}
Program(kind) == CASE kind = "event"      -> <<"events">>
                   [] kind = "high_event" -> <<"events", "events", "metrics">>
                   [] kind = "metrics"    -> <<"metrics">>

(* A channel without sockets is passed over before the lock is asked for. *)
IsNext(program, i, conns) ==
  /\ \A j \in 1..i - 1 : conns[program[j]] = {}
  /\ i <= Len(program) => conns[program[i]] # {}

(* A post comes to its next broadcast, the ith of those it has to do, if there is one. *)
Proceed(p, kind, program, queue, conns) ==
  \E i \in 1..Len(program) + 1 :
    LET left == SubSeq(program, i, Len(program))
        post == [kind |-> kind, left |-> left]
    IN  /\ IsNext(program, i, conns)
        /\ posts' = [q \in DOMAIN posts \cup {p} |-> IF q = p THEN post ELSE posts[q]]
        /\ IF left = <<>>
           THEN waiting' = queue /\ UNCHANGED calls
           ELSE /\ calls' = [calls EXCEPT ![left[1]] = @ + 1]
                /\ waiting' = Append(queue, Task("post", p, left[1], calls[left[1]] + 1))

(* on_event_detected and on_metrics_update, from their broadcasts on.  Events come each in
   a task of its own; metrics from one task, which waits for its broadcast. *)
Post(kind) ==
  /\ kind = "metrics" => \A q \in DOMAIN posts : posts[q].kind = kind => posts[q].left = <<>>
  /\ Proceed(Len(posts) + 1, kind, Program(kind), waiting, connections)
  /\ UNCHANGED <<connections, handler, reach, unread, holder, from, sent>>

Holds(p) == HasLock("post", p)

(* The copy of the channel's set, which nobody changes while the lock is held. *)
Targets(p) == connections[waiting[1].channel] \ holder.served

Served(s) == holder' = [holder EXCEPT !.served = @ \cup {s}]

(* Mutant of SendText: a client that does not read is passed over. *)
SendOrSkip(p, s) ==
  /\ Served(s)
  /\ IF HasRoom(s) THEN Push(s) /\ sent' = [sent EXCEPT ![s] = Append(@, waiting[1].n)]
                   ELSE UNCHANGED <<unread, sent>>

(* The send ends when there is room for the message. *)
SendText(p, s) ==
  /\ HasRoom(s)
  /\ Push(s)
  /\ sent' = [sent EXCEPT ![s] = Append(@, waiting[1].n)]
  /\ Served(s)

(* A lost connection raises in the send, or takes it in silence. *)
SendFails(s) ==
  /\ reach[s] = "lost"
  /\ \/ holder' = [served |-> holder.served \cup {s}, failed |-> holder.failed \cup {s}]
     \/ Served(s)
  /\ UNCHANGED <<unread, sent>>

(* client_state is DISCONNECTED once the handler has received the disconnect. *)
SendSkips(s) == handler[s] = "leaving" /\ Served(s) /\ UNCHANGED <<unread, sent>>

(* The loop of broadcast, which takes the sockets in any order. *)
Send(p, s) ==
  /\ Holds(p) /\ s \in Targets(p)
  /\ \/ handler[s] # "leaving" /\ (SendText(p, s) \/ SendFails(s))
     \/ SendSkips(s)
  /\ UNCHANGED <<connections, waiting, handler, reach, posts, calls, from>>

(* All are served: the lock is released, and the post goes on to what it has left. *)
Finish(p) ==
  /\ Holds(p) /\ Targets(p) = {}
  /\ connections' = [connections EXCEPT ![waiting[1].channel] = @ \ holder.failed]
  /\ holder' = Idle
  /\ Proceed(p, posts[p].kind, Tail(posts[p].left), Tail(waiting), connections')
  /\ UNCHANGED <<handler, reach, unread, from, sent>>
----------------------------------------------------------------------------
(* The handler of a socket.                                                *)

Await(s, place, kind) ==
  /\ handler' = [handler EXCEPT ![s] = place]
  /\ waiting' = Append(waiting, Task(kind, s, Channel(s), 0))

(* accept, and the wait for the lock; on a lost connection connect raises, outside the
   try, and the handler is over. *)
Accept(s) ==
  /\ handler[s] = "accepting"
  /\ IF reach[s] = "lost"
     THEN handler' = [handler EXCEPT ![s] = "gone"] /\ UNCHANGED waiting
     ELSE Await(s, "joining", "join")
  /\ UNCHANGED <<connections, reach, unread, posts, holder, calls, from, sent>>

(* The broadcasts on a channel that wait behind the task with the lock, and how many had
   the lock before them. *)
Queued(queue, ch) ==
  {queue[i].n : i \in {k \in 2..Len(queue) : queue[k].kind = "post" /\ queue[k].channel = ch}}
Begun(ch) == calls[ch] - Cardinality(Queued(waiting, ch))

(* The lock is released, and the confirmation sent to a client that has read nothing. *)
Join(s) ==
  /\ HasLock("join", s)
  /\ connections' = [connections EXCEPT ![Channel(s)] = @ \cup {s}]
  /\ from' = [from EXCEPT ![s] = Begun(Channel(s))]
  /\ waiting' = Tail(waiting)
  /\ handler' = [handler EXCEPT ![s] = "serving"]
  /\ IF reach[s] = "lost" THEN UNCHANGED unread ELSE Push(s)
  /\ UNCHANGED <<reach, posts, holder, calls, sent>>

ReceiveDisconnect(s) ==
  /\ handler[s] = "serving" /\ reach[s] = "lost"
  /\ Await(s, "leaving", "leave")
  /\ UNCHANGED <<connections, reach, unread, posts, holder, calls, from, sent>>

(* Mutant of Leave: the socket is removed, and the lock kept. *)
LeaveLocked(s) ==
  /\ HasLock("leave", s) /\ handler[s] = "leaving"
  /\ connections' = [connections EXCEPT ![Channel(s)] = @ \ {s}]
  /\ handler' = [handler EXCEPT ![s] = "gone"]
  /\ UNCHANGED <<waiting, reach, unread, posts, holder, calls, from, sent>>

Leave(s) ==
  /\ HasLock("leave", s)
  /\ connections' = [connections EXCEPT ![Channel(s)] = @ \ {s}]
  /\ waiting' = Tail(waiting)
  /\ handler' = [handler EXCEPT ![s] = "gone"]
  /\ UNCHANGED <<reach, unread, posts, holder, calls, from, sent>>

BroadcastStep == \E p \in DOMAIN posts : Finish(p) \/ \E s \in Sockets : Send(p, s)

HandlerStep(s) == Accept(s) \/ Join(s) \/ ReceiveDisconnect(s) \/ Leave(s)
----------------------------------------------------------------------------
HubTypeOK ==
  /\ \A ch \in Channels : connections[ch] \subseteq {s \in Sockets : Channel(s) = ch}
  /\ \A s \in Sockets : /\ handler[s] \in Places
                        /\ reach[s] \in {"none", "up", "stalled", "lost"}
                        /\ unread[s] \in 0..Room
  /\ \A i, j \in DOMAIN waiting : waiting[i].kind = waiting[j].kind
                                 /\ waiting[i].who = waiting[j].who => i = j
  /\ holder.failed \subseteq holder.served
  /\ holder # Idle => waiting # <<>> /\ waiting[1].kind = "post"

(* The broadcast that has the lock has still to send to s. *)
Awaits(s) == \E p \in DOMAIN posts : Holds(p) /\ s \in Targets(p)

(* A socket is sent what its channel broadcasts in the order of the broadcasts, without a
   gap from the first that began after it joined; and once a broadcast is past a socket
   whose connection holds, that socket has everything up to it.  A client misses events
   only between two of its sockets. *)
NoGaps ==
  \A s \in Sockets :
    /\ \A i \in DOMAIN sent[s] : sent[s][i] = from[s] + i
    /\ s \in connections[Channel(s)] /\ reach[s] \in {"up", "stalled"} /\ ~Awaits(s)
         => from[s] + Len(sent[s]) = Begun(Channel(s))
=============================================================================
