--------------------------- MODULE FrontendSocket ---------------------------
(***************************************************************************)
(* NIDSWebSocket of frontend/src/lib/websocket.ts in one browser: a socket *)
(* for events and one for metrics, a retry counter for both, and a timer   *)
(* for each reconnect.  Pages call connect() when they are mounted, and    *)
(* disconnect() is called by none.                                         *)
(*                                                                         *)
(* connectEvents returns early only while the socket is OPEN: called while *)
(* it is CONNECTING it replaces it, and the handlers of the one it         *)
(* replaced stay.  Opening events resets the counter, opening metrics      *)
(* does not.                                                               *)
(***************************************************************************)
EXTENDS WebSocketHub

CONSTANTS
  None,                  (* null                                             *)
  MaxReconnectAttempts   (* 10 in the code                                   *)

ASSUME FrontendAssumption ==
  None \notin Sockets /\ MaxReconnectAttempts \in Nat

VARIABLES
  current,            (* eventsWs and metricsWs                              *)
  readyState,         (* of every socket                                     *)
  reconnectAttempts,  (* the counter                                         *)
  timers,             (* reconnects scheduled, by channel                    *)
  gaveUp,             (* history: sockets whose close found no attempt left  *)
  replaced            (* history: sockets replaced while CONNECTING          *)

clientVars == <<current, readyState, reconnectAttempts, timers, gaveUp, replaced>>

FrontendInit ==
  /\ current = [ch \in Channels |-> None]
  /\ readyState = [s \in Sockets |-> "none"]
  /\ reconnectAttempts = 0
  /\ timers = [ch \in Channels |-> 0]
  /\ gaveUp = {}
  /\ replaced = {}

StateOf(ch) == IF current[ch] = None THEN "none" ELSE readyState[current[ch]]
Unused(ch)  == {s \in Sockets : Channel(s) = ch /\ readyState[s] = "none"}
IsNew(s, ch) == s \in Unused(ch) /\ \A t \in Unused(ch) : s[2] <= t[2]

ToConnect(channels) == {ch \in channels : StateOf(ch) # "OPEN"}

(* connectEvents and connectMetrics: the server gets a request for each new socket. *)
ConnectChannels(channels) ==
  LET toConnect == ToConnect(channels) IN
  \E new \in [toConnect -> Sockets] :
    LET With(f, value) == [s \in Sockets |-> IF \E ch \in toConnect : s = new[ch]
                                            THEN value ELSE f[s]]
    IN  /\ \A ch \in toConnect : IsNew(new[ch], ch)
        /\ current' = [ch \in Channels |-> IF ch \in toConnect THEN new[ch] ELSE current[ch]]
        /\ replaced' = replaced \cup {current[ch] : ch \in
                                        {c \in toConnect : StateOf(c) = "CONNECTING"}}
        /\ readyState' = With(readyState, "CONNECTING")
        /\ handler' = With(handler, "accepting")
        /\ reach' = With(reach, "up")

ServerUnchanged == UNCHANGED <<connections, waiting, unread, posts, holder, calls, from, sent>>

(* connect(), of a page that is mounted. *)
Connect ==
  /\ ConnectChannels(Channels)
  /\ ServerUnchanged /\ UNCHANGED <<reconnectAttempts, timers, gaveUp>>

(* The timer of a reconnect. *)
Reconnect(ch) ==
  /\ timers[ch] > 0
  /\ timers' = [timers EXCEPT ![ch] = @ - 1]
  /\ ConnectChannels({ch})
  /\ ServerUnchanged /\ UNCHANGED <<reconnectAttempts, gaveUp>>

Accepted(s) == handler[s] \notin {"none", "accepting"}

OnOpen(s) ==
  /\ readyState[s] = "CONNECTING" /\ Accepted(s) /\ reach[s] # "lost"
  /\ readyState' = [readyState EXCEPT ![s] = "OPEN"]
  /\ reconnectAttempts' = IF Channel(s) = "events" THEN 0 ELSE reconnectAttempts
  /\ UNCHANGED <<hubVars, current, timers, gaveUp, replaced>>

(* Mutant of ScheduleReconnect: a close is answered by one reconnect at a time. *)
ScheduleOnce(s) ==
  IF reconnectAttempts >= MaxReconnectAttempts
  THEN gaveUp' = gaveUp \cup {s} /\ UNCHANGED <<reconnectAttempts, timers>>
  ELSE /\ reconnectAttempts' = reconnectAttempts + 1
       /\ timers' = IF \A ch \in Channels : timers[ch] = 0
                    THEN [timers EXCEPT ![Channel(s)] = 1] ELSE timers
       /\ UNCHANGED gaveUp

(* Mutant of ScheduleReconnect: one attempt too many. *)
ScheduleLate(s) ==
  IF reconnectAttempts > MaxReconnectAttempts
  THEN gaveUp' = gaveUp \cup {s} /\ UNCHANGED <<reconnectAttempts, timers>>
  ELSE /\ reconnectAttempts' = reconnectAttempts + 1
       /\ timers' = [timers EXCEPT ![Channel(s)] = @ + 1]
       /\ UNCHANGED gaveUp

ScheduleReconnect(s) ==
  IF reconnectAttempts >= MaxReconnectAttempts
  THEN gaveUp' = gaveUp \cup {s} /\ UNCHANGED <<reconnectAttempts, timers>>
  ELSE /\ reconnectAttempts' = reconnectAttempts + 1
       /\ timers' = [timers EXCEPT ![Channel(s)] = @ + 1]
       /\ UNCHANGED gaveUp

(* onclose, of a replaced socket as of the current one. *)
OnClose(s) ==
  /\ readyState[s] \in {"CONNECTING", "OPEN"} /\ reach[s] = "lost"
  /\ readyState' = [readyState EXCEPT ![s] = "CLOSED"]
  /\ ScheduleReconnect(s)
  /\ UNCHANGED <<hubVars, current, replaced>>

(* onmessage; a client that is stalled does not read. *)
OnMessage(s) ==
  /\ readyState[s] = "OPEN" /\ reach[s] = "up" /\ unread[s] > 0
  /\ unread' = [unread EXCEPT ![s] = @ - 1]
  /\ UNCHANGED <<clientVars, connections, waiting, handler, reach, posts, holder, calls,
                 from, sent>>

SocketStep(s) == OnOpen(s) \/ OnClose(s) \/ OnMessage(s)
----------------------------------------------------------------------------
FrontendTypeOK ==
  /\ \A ch \in Channels : /\ current[ch] \in {None} \cup {s \in Sockets : Channel(s) = ch}
                          /\ timers[ch] \in 0..Cardinality(Sockets)
  /\ \A s \in Sockets : readyState[s] \in {"none", "CONNECTING", "OPEN", "CLOSED"}
  /\ reconnectAttempts \in 0..MaxReconnectAttempts
  /\ gaveUp \cup replaced \subseteq Sockets

(* Whatever the two sockets do to the counter they share, none is lost in silence: one
   that closed is reconnected by a timer that is set, or was closed with no attempt left.
   And a channel has a second live socket, whose messages its pages get twice, only after
   a connect has replaced one that was still CONNECTING. *)
SocketsKept ==
  \A ch \in Channels :
    /\ StateOf(ch) = "CLOSED" => timers[ch] > 0 \/ current[ch] \in gaveUp
    /\ \A s \in Sockets : Channel(s) = ch /\ readyState[s] \in {"CONNECTING", "OPEN"}
         => s = current[ch] \/ s \in replaced
=============================================================================
