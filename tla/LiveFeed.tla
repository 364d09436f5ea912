------------------------------ MODULE LiveFeed ------------------------------
(* The feed of live events and metrics from the API process to a browser: the hub, the
   client, and the network between them, which loses or stalls connections. *)
EXTENDS FrontendSocket

CONSTANT Budgets   (* bounds: posts, calls of connect(), faults of either channel *)

ASSUME LiveFeedAssumption ==
  Budgets \subseteq [posts: Nat, mounts: Nat, events: Nat, metrics: Nat]

VARIABLE budget    (* what is left of one of them *)

liveVars == <<hubVars, clientVars, budget>>

LiveInit == HubInit /\ FrontendInit /\ budget \in Budgets

Spend(what) == budget[what] > 0 /\ budget' = [budget EXCEPT ![what] = @ - 1]

Reach(s, value) ==
  /\ reach' = [reach EXCEPT ![s] = value]
  /\ UNCHANGED <<clientVars, connections, waiting, handler, unread, posts, holder, calls,
                 from, sent>>

(* A connection fails, or its client stops reading. *)
Fault(s) ==
  /\ reach[s] = "up"
  /\ Spend(Channel(s))
  /\ \/ Reach(s, "lost")
     \/ readyState[s] = "OPEN" /\ Reach(s, "stalled")

(* The web server closes a connection whose client does not answer its pings. *)
PingTimeout(s) == reach[s] = "stalled" /\ Reach(s, "lost") /\ UNCHANGED budget

Reports == \E kind \in Kinds : Spend("posts") /\ Post(kind) /\ UNCHANGED clientVars
Mounts  == Spend("mounts") /\ Connect
Hub(step) == step /\ UNCHANGED <<clientVars, budget>>
Client(step) == step /\ UNCHANGED budget

LiveNext ==
  \/ Reports
  \/ Mounts
  \/ Hub(BroadcastStep)
  \/ \E ch \in Channels : Client(Reconnect(ch))
  \/ \E s \in Sockets :
       Hub(HandlerStep(s)) \/ Client(SocketStep(s)) \/ Fault(s) \/ PingTimeout(s)

(* The event loops of the process and of the browser run what is ready, timers fire, and
   the web server closes what is stalled.  Nothing has to be reported, to fail, or to be
   mounted. *)
LiveFairness ==
  /\ WF_liveVars(Hub(BroadcastStep))
  /\ \A s \in Sockets : /\ WF_liveVars(Hub(HandlerStep(s)))
                        /\ WF_liveVars(Client(SocketStep(s)))
                        /\ WF_liveVars(PingTimeout(s))
  /\ \A ch \in Channels : WF_liveVars(Client(Reconnect(ch)))

LiveSpec == LiveInit /\ [][LiveNext]_liveVars /\ LiveFairness
----------------------------------------------------------------------------
LiveTypeOK == HubTypeOK /\ FrontendTypeOK

(* A client that stops reading holds the lock of both channels for as long as its
   connection is kept, and then all goes on: when no more connections fail, every broadcast
   that was begun ends, and the socket of either channel is among those the hub serves,
   unless it was closed with no attempt left. *)
FeedRecovers ==
  /\ []<>(waiting = <<>>)
  /\ <>[](\A ch \in Channels : current[ch] \in {None} \cup gaveUp \cup connections[ch])
=============================================================================
