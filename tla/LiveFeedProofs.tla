--------------------------- MODULE LiveFeedProofs ---------------------------
(***************************************************************************)
(* Theorems about LiveFeed, for any number of sockets, posts, mounts and   *)
(* faults.  Everything follows the line at the lock: who stands in it, and *)
(* with which messages.  LiveInv holds the types and says that a task in   *)
(* the line is where its coroutine or its post says it is; FeedInv adds    *)
(* that the messages of a channel in the line are the last it broadcasts,  *)
(* in order, and what each socket has had; KeptInv is about the client.    *)
(***************************************************************************)
EXTENDS LiveFeed, FiniteSetTheorems, SequenceTheorems, TLAPS

(* Rows of the queue at the lock, and of the posts. *)
TaskRow == [kind: {"join", "leave", "post"}, who: Sockets \cup Nat, channel: Channels, n: Nat]
PostRow == [kind: Kinds, left: Seq(Channels)]
Reaches == {"none", "up", "stalled", "lost"}
States  == {"none", "CONNECTING", "OPEN", "CLOSED"}
Newcomer == {"none", "accepting", "joining"}

HubTypes ==
  /\ connections \in [Channels -> SUBSET Sockets]
  /\ \A ch \in Channels : \A s \in connections[ch] : Channel(s) = ch
  /\ waiting \in Seq(TaskRow)
  /\ handler \in [Sockets -> Places]
  /\ reach \in [Sockets -> Reaches]
  /\ unread \in [Sockets -> 0..Room]
  /\ posts \in Seq(PostRow)
  /\ holder \in [served: SUBSET Sockets, failed: SUBSET Sockets]
  /\ calls \in [Channels -> Nat]
  /\ sent \in [Sockets -> Seq(Nat)]

ClosedOnes == {s \in Sockets : readyState[s] = "CLOSED"}

ClientTypes ==
  /\ current \in [Channels -> Sockets \cup {None}]
  /\ \A ch \in Channels : current[ch] # None => Channel(current[ch]) = ch
  /\ readyState \in [Sockets -> States]
  /\ reconnectAttempts \in 0..MaxReconnectAttempts
  /\ timers \in [Channels -> Nat]
  /\ \A ch \in Channels : timers[ch] <= Cardinality(ClosedOnes)
  /\ gaveUp \subseteq Sockets /\ replaced \subseteq Sockets

(* What a task at the lock says of its coroutine or its post. *)
Standing(task, places, jobs) ==
  \/ /\ task.kind = "join" /\ task.who \in Sockets
     /\ places[task.who] = "joining" /\ task.channel = Channel(task.who)
  \/ /\ task.kind = "leave" /\ task.who \in Sockets
     /\ places[task.who] = "leaving" /\ task.channel = Channel(task.who)
  \/ /\ task.kind = "post" /\ task.who \in DOMAIN jobs
     /\ jobs[task.who].left # <<>>

Same(task, other) == task.kind = other.kind /\ task.who = other.who

Orderly(queue, places, jobs) ==
  /\ \A i \in DOMAIN queue : Standing(queue[i], places, jobs)
  /\ \A i, j \in DOMAIN queue : Same(queue[i], queue[j]) => i = j

HolderPosts ==
  /\ holder.failed \subseteq holder.served
  /\ holder # Idle => waiting # <<>> /\ waiting[1].kind = "post"

(* A socket that has not joined is in no set and has been sent nothing; one that leaves
   has lost its connection; one the browser has not opened has no handler. *)
SocketsKnown ==
  \A s \in Sockets :
    /\ handler[s] \in Newcomer =>
         unread[s] = 0 /\ sent[s] = <<>> /\ s \notin connections[Channel(s)]
    /\ handler[s] = "leaving" => reach[s] = "lost"
    /\ readyState[s] = "none" => handler[s] = "none"

LiveInv == /\ HubTypes /\ ClientTypes
           /\ Orderly(waiting, handler, posts) /\ HolderPosts /\ SocketsKnown
----------------------------------------------------------------------------
(* The line of a channel: the messages behind the head are those after the last that was
   begun, in order; the head, if it is a post on the channel, is the last begun. *)
IsPost(task, ch) == task.kind = "post" /\ task.channel = ch

InLine(queue, ch, begun, called) ==
  /\ begun \in Nat /\ begun <= called
  /\ Queued(queue, ch) = begun + 1..called
  /\ queue # <<>> /\ IsPost(queue[1], ch) => queue[1].n = begun
  /\ \A i, j \in DOMAIN queue :
       i < j /\ IsPost(queue[i], ch) /\ IsPost(queue[j], ch) => queue[i].n < queue[j].n

(* How many broadcasts a socket has to have had: all that were begun, but not the one that
   has the lock before it is served. *)
Due(queue, served, s, begun) ==
  IF queue # <<>> /\ IsPost(queue[1], Channel(s)) /\ s \notin served THEN begun - 1 ELSE begun

Fed ==
  \A s \in Sockets :
    /\ \A i \in DOMAIN sent[s] : sent[s][i] = from[s] + i
    /\ s \in connections[Channel(s)] /\ reach[s] \in {"up", "stalled"} =>
         from[s] + Len(sent[s]) = Due(waiting, holder.served, s, Begun(Channel(s)))

FeedInv == /\ LiveInv /\ Fed /\ from \in [Sockets -> Nat]
           /\ \A ch \in Channels : InLine(waiting, ch, Begun(ch), calls[ch])

KeptInv == LiveInv /\ SocketsKept
----------------------------------------------------------------------------
(* Queues.                                                                 *)

LEMMA AppendOf ==
  ASSUME NEW S, NEW queue \in Seq(S), NEW x \in S
  PROVE  /\ Append(queue, x) \in Seq(S)
         /\ Append(queue, x) # <<>>
         /\ Len(Append(queue, x)) = Len(queue) + 1
         /\ DOMAIN Append(queue, x) = DOMAIN queue \cup {Len(queue) + 1}
         /\ Len(queue) + 1 \notin DOMAIN queue
         /\ \A i \in DOMAIN queue : Append(queue, x)[i] = queue[i] /\ i <= Len(queue)
         /\ Append(queue, x)[Len(queue) + 1] = x
         /\ queue = <<>> => Append(queue, x)[1] = x /\ Len(queue) = 0
         /\ queue # <<>> => Append(queue, x)[1] = queue[1] /\ 1 \in DOMAIN queue
<1>1. DOMAIN queue = 1..Len(queue) /\ Len(queue) \in Nat
  BY LenProperties
<1>2. /\ Append(queue, x) \in Seq(S) /\ Append(queue, x) # <<>>
      /\ Len(Append(queue, x)) = Len(queue) + 1
      /\ DOMAIN Append(queue, x) = 1..Len(queue) + 1
      /\ \A i \in 1..Len(queue) : Append(queue, x)[i] = queue[i]
      /\ Append(queue, x)[Len(queue) + 1] = x
  BY <1>1, AppendProperties
<1>3. queue = <<>> <=> Len(queue) = 0
  BY EmptySeq
<1> QED
  BY <1>1, <1>2, <1>3

LEMMA TailOf ==
  ASSUME NEW S, NEW queue \in Seq(S), queue # <<>>
  PROVE  /\ Tail(queue) \in Seq(S)
         /\ Len(Tail(queue)) = Len(queue) - 1
         /\ Len(queue) \in Nat \ {0}
         /\ DOMAIN queue = 1..Len(queue)
         /\ DOMAIN Tail(queue) = 1..Len(queue) - 1
         /\ \A i \in DOMAIN Tail(queue) : Tail(queue)[i] = queue[i + 1] /\ i + 1 \in DOMAIN queue
         /\ Tail(queue) = <<>> <=> Len(queue) = 1
<1>1. Len(queue) \in Nat \ {0} /\ DOMAIN queue = 1..Len(queue)
  BY LenProperties, EmptySeq
<1>2. /\ Tail(queue) \in Seq(S) /\ Len(Tail(queue)) = Len(queue) - 1
      /\ \A i \in 1..Len(Tail(queue)) : Tail(queue)[i] = queue[i + 1]
  BY HeadTailProperties
<1>3. DOMAIN Tail(queue) = 1..Len(queue) - 1
  BY <1>2, LenProperties
<1>4. Tail(queue) = <<>> <=> Len(Tail(queue)) = 0
  BY <1>2, EmptySeq
<1> QED
  BY <1>1, <1>2, <1>3, <1>4

LEMMA OrderlyAppend ==
  ASSUME NEW queue \in Seq(TaskRow), NEW task \in TaskRow, NEW places, NEW jobs,
         Orderly(queue, places, jobs), Standing(task, places, jobs),
         \A i \in DOMAIN queue : ~Same(queue[i], task)
  PROVE  Orderly(Append(queue, task), places, jobs)
<1> DEFINE longer == Append(queue, task)
           n == Len(queue) + 1
<1>1. /\ DOMAIN longer = DOMAIN queue \cup {n}
      /\ \A i \in DOMAIN queue : longer[i] = queue[i]
      /\ longer[n] = task
  BY AppendOf
<1> HIDE DEF longer, n
<1>2. \A i \in DOMAIN longer : Standing(longer[i], places, jobs)
  BY <1>1 DEF Orderly
<1>3. ASSUME NEW i \in DOMAIN longer, NEW j \in DOMAIN longer, Same(longer[i], longer[j])
      PROVE  i = j
  <2>1. Same(longer[j], longer[i])
    BY <1>3 DEF Same
  <2> QED
    BY <1>1, <1>3, <2>1 DEF Orderly
<1> QED
  BY <1>2, <1>3 DEF Orderly, longer

LEMMA OrderlyTail ==
  ASSUME NEW queue \in Seq(TaskRow), queue # <<>>, NEW places, NEW jobs,
         Orderly(queue, places, jobs)
  PROVE  /\ Orderly(Tail(queue), places, jobs)
         /\ \A i \in DOMAIN Tail(queue) : ~Same(Tail(queue)[i], queue[1])
<1>1. /\ Len(queue) \in Nat \ {0} /\ DOMAIN queue = 1..Len(queue)
      /\ DOMAIN Tail(queue) = 1..Len(queue) - 1
      /\ \A i \in DOMAIN Tail(queue) : Tail(queue)[i] = queue[i + 1] /\ i + 1 \in DOMAIN queue
  BY TailOf
<1> QED
  BY <1>1 DEF Orderly

(* The tasks that stay find their coroutines where they were. *)
LEMMA OrderlyFrame ==
  ASSUME NEW queue, NEW places, NEW jobs, NEW places2, NEW jobs2,
         Orderly(queue, places, jobs),
         \A i \in DOMAIN queue : Standing(queue[i], places, jobs)
                                   => Standing(queue[i], places2, jobs2)
  PROVE  Orderly(queue, places2, jobs2)
BY DEF Orderly
----------------------------------------------------------------------------
(* Lines.                                                                  *)

(* What stands behind the head. *)
LEMMA QueuedOf ==
  ASSUME NEW queue, NEW ch, NEW n
  PROVE  n \in Queued(queue, ch)
           <=> \E i \in 2..Len(queue) : IsPost(queue[i], ch) /\ n = queue[i].n
BY DEF Queued, IsPost

(* Begun counts what it should. *)
LEMMA BegunInLine ==
  ASSUME NEW queue, NEW ch, NEW begun, NEW called \in Nat, InLine(queue, ch, begun, called)
  PROVE  called - Cardinality(Queued(queue, ch)) = begun
<1>1. begun \in Nat /\ begun <= called /\ Queued(queue, ch) = begun + 1..called
  BY DEF InLine
<1>2. begun + 1 \in Int /\ called \in Int
  BY <1>1
<1>3. Cardinality(begun + 1..called) = IF begun + 1 > called THEN 0 ELSE called - (begun + 1) + 1
  BY <1>2, FS_Interval
<1> QED
  BY <1>1, <1>3

(* A task that broadcasts nothing on the channel comes to the lock. *)
LEMMA LineAside ==
  ASSUME NEW queue \in Seq(TaskRow), NEW task \in TaskRow, NEW ch, ~IsPost(task, ch),
         NEW begun, NEW called \in Nat, InLine(queue, ch, begun, called)
  PROVE  InLine(Append(queue, task), ch, begun, called)
<1> DEFINE longer == Append(queue, task)
           n == Len(queue) + 1
<1>1. /\ DOMAIN longer = DOMAIN queue \cup {n}
      /\ \A i \in DOMAIN queue : longer[i] = queue[i]
      /\ longer[n] = task
      /\ longer[1] = IF queue = <<>> THEN task ELSE queue[1]
      /\ Len(longer) = n /\ n \in Nat \ {0} /\ DOMAIN queue = 1..n - 1
  BY AppendOf, LenProperties
<1>l. n - 1 = Len(queue)
  BY <1>1
<1> HIDE DEF longer, n
<1>2. \A i \in 2..n : IsPost(longer[i], ch) => i \in 2..n - 1 /\ longer[i] = queue[i]
  BY <1>1
<1>3. \A i \in 2..n - 1 : i \in 2..n /\ longer[i] = queue[i]
  BY <1>1
<1>4. Queued(longer, ch) = Queued(queue, ch)
  <2>1. ASSUME NEW k PROVE k \in Queued(longer, ch) <=> k \in Queued(queue, ch)
    BY <1>1, <1>2, <1>3, <1>l, QueuedOf
  <2> QED
    BY <2>1
<1>5. longer # <<>> /\ IsPost(longer[1], ch) => longer[1].n = begun
  BY <1>1 DEF InLine
<1>6. \A i, j \in DOMAIN longer :
        i < j /\ IsPost(longer[i], ch) /\ IsPost(longer[j], ch) => longer[i].n < longer[j].n
  BY <1>1 DEF InLine
<1> QED
  BY <1>4, <1>5, <1>6 DEF InLine, longer

(* The next broadcast of the channel comes to the lock. *)
LEMMA LineGrows ==
  ASSUME NEW queue \in Seq(TaskRow), NEW task \in TaskRow, NEW ch, IsPost(task, ch),
         NEW begun, NEW called \in Nat, InLine(queue, ch, begun, called), task.n = called + 1
  PROVE  InLine(Append(queue, task), ch, IF queue = <<>> THEN called + 1 ELSE begun, called + 1)
<1> DEFINE longer == Append(queue, task)
           n == Len(queue) + 1
<1>1. /\ DOMAIN longer = DOMAIN queue \cup {n}
      /\ \A i \in DOMAIN queue : longer[i] = queue[i]
      /\ longer[n] = task
      /\ longer[1] = IF queue = <<>> THEN task ELSE queue[1]
      /\ Len(longer) = n /\ n \in Nat \ {0} /\ DOMAIN queue = 1..n - 1
      /\ queue = <<>> <=> n = 1
  BY AppendOf, LenProperties, EmptySeq
<1>l. n - 1 = Len(queue)
  BY <1>1
<1> HIDE DEF longer, n
<1>b. begun \in Nat /\ begun <= called /\ Queued(queue, ch) = begun + 1..called
  BY DEF InLine
<1>2. CASE queue = <<>>
  <2>1. n = 1
    BY <1>1, <1>2
  <2>2. Queued(longer, ch) = {}
    BY <1>1, <2>1, QueuedOf
  <2>3. \A i, j \in DOMAIN longer : ~(i < j)
    BY <1>1, <2>1
  <2>4. called + 1 + 1..called + 1 = {}
    OBVIOUS
  <2> QED
    BY <1>1, <1>2, <2>2, <2>3, <2>4 DEF InLine, longer
<1>3. CASE queue # <<>>
  <2>1. n > 1
    BY <1>1, <1>3
  <2>2. Queued(longer, ch) = Queued(queue, ch) \cup {called + 1}
    <3>1. ASSUME NEW k
          PROVE  k \in Queued(longer, ch) <=> k \in Queued(queue, ch) \/ k = called + 1
      <4>1. \A i \in 2..n : i = n \/ (i \in 2..n - 1 /\ longer[i] = queue[i])
        BY <1>1
      <4>2. \A i \in 2..n - 1 : i \in 2..n /\ longer[i] = queue[i]
        BY <1>1
      <4>3. n \in 2..n
        BY <1>1, <2>1
      <4> QED
        BY <1>1, <1>l, <4>1, <4>2, <4>3, QueuedOf
    <3> QED
      BY <3>1
  <2>3. begun + 1..called + 1 = (begun + 1..called) \cup {called + 1}
    BY <1>b
  <2>4. IsPost(longer[1], ch) => longer[1].n = begun
    BY <1>1, <1>3 DEF InLine
  <2>5. \A i \in DOMAIN queue : IsPost(queue[i], ch) => queue[i].n < task.n
    <3> SUFFICES ASSUME NEW i \in DOMAIN queue, IsPost(queue[i], ch)
                 PROVE  queue[i].n < task.n
      OBVIOUS
    <3>1. CASE i = 1
      BY <1>b, <1>3, <3>1 DEF InLine
    <3>2. CASE i # 1
      <4>1. i \in 2..Len(queue)
        BY <1>1, <1>l, <3>2
      <4>2. queue[i].n \in begun + 1..called
        BY <1>b, <4>1, QueuedOf
      <4> QED
        BY <1>b, <4>2
    <3> QED
      BY <3>1, <3>2
  <2>6. \A i, j \in DOMAIN longer :
          i < j /\ IsPost(longer[i], ch) /\ IsPost(longer[j], ch) => longer[i].n < longer[j].n
    <3> SUFFICES ASSUME NEW i \in DOMAIN longer, NEW j \in DOMAIN longer, i < j,
                        IsPost(longer[i], ch), IsPost(longer[j], ch)
                 PROVE  longer[i].n < longer[j].n
      OBVIOUS
    <3>1. i \in DOMAIN queue
      BY <1>1
    <3>2. CASE j = n
      BY <1>1, <2>5, <3>1, <3>2
    <3>3. CASE j \in DOMAIN queue
      BY <1>1, <3>1, <3>3 DEF InLine
    <3> QED
      BY <1>1, <3>2, <3>3
  <2> QED
    BY <1>b, <1>3, <2>2, <2>3, <2>4, <2>6 DEF InLine, longer
<1> QED
  BY <1>2, <1>3

(* The head leaves. *)
LEMMA LineMoves ==
  ASSUME NEW queue \in Seq(TaskRow), queue # <<>>, NEW ch,
         NEW begun, NEW called \in Nat, InLine(queue, ch, begun, called)
  PROVE  InLine(Tail(queue), ch,
                IF Tail(queue) # <<>> /\ IsPost(Tail(queue)[1], ch) THEN begun + 1 ELSE begun,
                called)
<1> DEFINE rest == Tail(queue)
           n == Len(queue)
<1>1. /\ n \in Nat \ {0} /\ DOMAIN queue = 1..n
      /\ DOMAIN rest = 1..n - 1 /\ Len(rest) = n - 1
      /\ \A i \in 1..n - 1 : rest[i] = queue[i + 1]
      /\ rest = <<>> <=> n = 1
  BY TailOf
<1>b. begun \in Nat /\ begun <= called /\ Queued(queue, ch) = begun + 1..called
  BY DEF InLine
<1>q. \A k : k \in Queued(queue, ch) <=> \E i \in 2..n : IsPost(queue[i], ch) /\ k = queue[i].n
  BY QueuedOf
<1>r. \A k : k \in Queued(rest, ch) <=> \E i \in 2..n - 1 : IsPost(rest[i], ch) /\ k = rest[i].n
  <2>1. 2..Len(rest) = 2..n - 1
    BY <1>1
  <2> HIDE DEF n, rest
  <2>2. \A k : k \in Queued(rest, ch)
                <=> \E i \in 2..Len(rest) : IsPost(rest[i], ch) /\ k = rest[i].n
    BY QueuedOf
  <2> QED
    BY <2>1, <2>2
<1> HIDE DEF rest, n
<1>2. \A i, j \in DOMAIN rest :
        i < j /\ IsPost(rest[i], ch) /\ IsPost(rest[j], ch) => rest[i].n < rest[j].n
  <2> SUFFICES ASSUME NEW i \in 1..n - 1, NEW j \in 1..n - 1, i < j,
                      IsPost(rest[i], ch), IsPost(rest[j], ch)
               PROVE  rest[i].n < rest[j].n
    BY <1>1
  <2>1. i + 1 \in DOMAIN queue /\ j + 1 \in DOMAIN queue /\ i + 1 < j + 1
    BY <1>1
  <2> QED
    BY <1>1, <2>1 DEF InLine
<1>3. CASE rest # <<>> /\ IsPost(rest[1], ch)
  <2>1. n > 1 /\ rest[1] = queue[2] /\ 2 \in 2..n
    BY <1>1, <1>3
  <2>2. queue[2].n \in begun + 1..called
    BY <1>b, <1>q, <1>3, <2>1
  <2>3. \A i \in 3..n : IsPost(queue[i], ch) => queue[2].n < queue[i].n
    <3> SUFFICES ASSUME NEW i \in 3..n, IsPost(queue[i], ch) PROVE queue[2].n < queue[i].n
      OBVIOUS
    <3>1. 2 \in DOMAIN queue /\ i \in DOMAIN queue /\ 2 < i
      BY <1>1
    <3> QED
      BY <1>3, <2>1, <3>1 DEF InLine
  <2>4. queue[2].n = begun + 1
    <3>0. begun + 1 \in Queued(queue, ch)
      BY <1>b, <2>2
    <3>1. PICK i \in 2..n : IsPost(queue[i], ch) /\ begun + 1 = queue[i].n
      BY <1>q, <3>0
    <3>2. i = 2 \/ i \in 3..n
      BY <1>1
    <3> QED
      BY <1>b, <2>2, <2>3, <3>1, <3>2
  <2>5. Queued(rest, ch) = begun + 1 + 1..called
    <3>1. ASSUME NEW k \in Queued(rest, ch) PROVE k \in begun + 1 + 1..called
      <4>1. PICK i \in 2..n - 1 : IsPost(rest[i], ch) /\ k = rest[i].n
        BY <1>r, <3>1
      <4>2. i + 1 \in 3..n /\ i + 1 \in 2..n /\ rest[i] = queue[i + 1]
        BY <1>1
      <4>3. k \in begun + 1..called
        BY <1>b, <1>q, <4>1, <4>2
      <4>4. begun + 1 < k
        BY <2>3, <2>4, <4>1, <4>2
      <4> QED
        BY <1>b, <4>3, <4>4
    <3>2. ASSUME NEW k \in begun + 1 + 1..called PROVE k \in Queued(rest, ch)
      <4>0. k \in Queued(queue, ch)
        BY <1>b, <3>2
      <4>1. PICK i \in 2..n : IsPost(queue[i], ch) /\ k = queue[i].n
        BY <1>q, <4>0
      <4>2. i # 2
        BY <1>b, <2>4, <4>1, <3>2
      <4>3. i - 1 \in 2..n - 1 /\ rest[i - 1] = queue[i]
        BY <1>1, <4>2
      <4> QED
        BY <1>r, <4>1, <4>3
    <3> QED
      BY <3>1, <3>2
  <2>6. begun + 1 <= called
    BY <1>b, <2>2
  <2> QED
    BY <1>b, <1>2, <1>3, <2>1, <2>4, <2>5, <2>6 DEF InLine, rest
<1>4. CASE ~(rest # <<>> /\ IsPost(rest[1], ch))
  <2>1. Queued(rest, ch) = Queued(queue, ch)
    <3>1. ASSUME NEW k \in Queued(rest, ch) PROVE k \in Queued(queue, ch)
      <4>1. PICK i \in 2..n - 1 : IsPost(rest[i], ch) /\ k = rest[i].n
        BY <1>r, <3>1
      <4>2. i + 1 \in 2..n /\ rest[i] = queue[i + 1]
        BY <1>1
      <4> QED
        BY <1>q, <4>1, <4>2
    <3>2. ASSUME NEW k \in Queued(queue, ch) PROVE k \in Queued(rest, ch)
      <4>1. PICK i \in 2..n : IsPost(queue[i], ch) /\ k = queue[i].n
        BY <1>q, <3>2
      <4>2. i # 2
        BY <1>1, <1>4, <4>1
      <4>3. i - 1 \in 2..n - 1 /\ rest[i - 1] = queue[i]
        BY <1>1, <4>2
      <4> QED
        BY <1>r, <4>1, <4>3
    <3> QED
      BY <3>1, <3>2
  <2> QED
    BY <1>b, <1>2, <1>4, <2>1 DEF InLine, rest
<1> QED
  BY <1>3, <1>4 DEF rest
----------------------------------------------------------------------------
(* The task that has the lock.                                             *)

LEMMA SocketChannel == \A s \in Sockets : Channel(s) \in Channels
BY HubAssumption DEF Channel

LEMMA HeadStands ==
  ASSUME LiveInv, NEW kind, NEW who, HasLock(kind, who)
  PROVE  /\ waiting # <<>> /\ waiting \in Seq(TaskRow) /\ waiting[1] \in TaskRow
         /\ waiting[1].kind = kind /\ waiting[1].who = who
         /\ Standing(waiting[1], handler, posts)
<1>1. waiting \in Seq(TaskRow) /\ Orderly(waiting, handler, posts)
  BY DEF LiveInv, HubTypes
<1>2. 1 \in DOMAIN waiting
  BY <1>1, EmptySeq, LenProperties DEF HasLock
<1> QED
  BY <1>1, <1>2, ElementOfSeq, LenProperties DEF HasLock, Orderly

LEMMA PostStands ==
  ASSUME LiveInv, NEW p, Holds(p)
  PROVE  /\ p \in DOMAIN posts /\ posts[p] \in PostRow /\ posts[p].left # <<>>
         /\ waiting[1].channel \in Channels /\ waiting[1].n \in Nat
<1>1. /\ waiting[1] \in TaskRow /\ waiting[1].kind = "post" /\ waiting[1].who = p
      /\ Standing(waiting[1], handler, posts)
  BY HeadStands DEF Holds
<1>2. p \in DOMAIN posts /\ posts[p].left # <<>>
  BY <1>1 DEF Standing
<1>3. posts[p] \in PostRow
  BY <1>2, ElementOfSeq, LenProperties DEF LiveInv, HubTypes
<1> QED
  BY <1>1, <1>2, <1>3 DEF TaskRow

LEMMA HandlerStands ==
  ASSUME LiveInv, NEW s, NEW kind \in {"join", "leave"}, HasLock(kind, s)
  PROVE  /\ s \in Sockets /\ waiting[1].channel = Channel(s)
         /\ handler[s] = IF kind = "join" THEN "joining" ELSE "leaving"
BY HeadStands DEF Standing

(* What a post leaves behind when it comes to its next broadcast. *)
Proceeded(p, kind, left, queue) ==
  /\ posts' \in Seq(PostRow)
  /\ DOMAIN posts' = DOMAIN posts \cup {p}
  /\ \A q \in DOMAIN posts' :
       posts'[q] = IF q = p THEN [kind |-> kind, left |-> left] ELSE posts[q]
  /\ \/ left = <<>> /\ waiting' = queue /\ calls' = calls
     \/ /\ left # <<>> /\ left[1] \in Channels
        /\ calls' = [calls EXCEPT ![left[1]] = @ + 1]
        /\ waiting' = Append(queue, Task("post", p, left[1], calls[left[1]] + 1))
        /\ Task("post", p, left[1], calls[left[1]] + 1) \in TaskRow

LEMMA ProceedResult ==
  ASSUME NEW p, NEW kind \in Kinds, NEW program \in Seq(Channels), NEW queue \in Seq(TaskRow),
         NEW conns, posts \in Seq(PostRow), p \in 1..Len(posts) + 1,
         calls \in [Channels -> Nat], Proceed(p, kind, program, queue, conns)
  PROVE  \E left \in Seq(Channels) : Proceeded(p, kind, left, queue)
<1>1. PICK i \in 1..Len(program) + 1 :
        LET left == SubSeq(program, i, Len(program))
            post == [kind |-> kind, left |-> left]
        IN  /\ posts' = [q \in DOMAIN posts \cup {p} |-> IF q = p THEN post ELSE posts[q]]
            /\ IF left = <<>>
               THEN waiting' = queue /\ UNCHANGED calls
               ELSE /\ calls' = [calls EXCEPT ![left[1]] = @ + 1]
                    /\ waiting' = Append(queue, Task("post", p, left[1], calls[left[1]] + 1))
  BY DEF Proceed
<1> DEFINE left == SubSeq(program, i, Len(program))
<1>2. left \in Seq(Channels)
  BY SubSeqProperties, LenProperties
<1>3. posts' = [q \in DOMAIN posts \cup {p} |->
                  IF q = p THEN [kind |-> kind, left |-> left] ELSE posts[q]]
  BY <1>1
<1>4. \/ left = <<>> /\ waiting' = queue /\ calls' = calls
      \/ /\ left # <<>>
         /\ calls' = [calls EXCEPT ![left[1]] = @ + 1]
         /\ waiting' = Append(queue, Task("post", p, left[1], calls[left[1]] + 1))
  BY <1>1
<1> HIDE DEF left
<1>5. posts' \in Seq(PostRow)
  <2>1. DOMAIN posts = 1..Len(posts) /\ Len(posts) \in Nat
    BY LenProperties
  <2>2. PICK m \in Nat : DOMAIN posts \cup {p} = 1..m
    <3>1. CASE p \in DOMAIN posts
      BY <2>1, <3>1
    <3>2. CASE p \notin DOMAIN posts
      <4>1. p = Len(posts) + 1
        BY <2>1, <3>2
      <4>2. DOMAIN posts \cup {p} = 1..Len(posts) + 1 /\ Len(posts) + 1 \in Nat
        BY <2>1, <4>1
      <4> QED
        BY <4>2
    <3> QED
      BY <3>1, <3>2
  <2>3. \A q \in DOMAIN posts : posts[q] \in PostRow
    BY <2>1, ElementOfSeq
  <2>4. [kind |-> kind, left |-> left] \in PostRow
    BY <1>2 DEF PostRow
  <2>5. \A q \in DOMAIN posts \cup {p} : posts'[q] \in PostRow
    BY <1>3, <2>3, <2>4
  <2>6. posts' \in [DOMAIN posts \cup {p} -> PostRow]
    BY <1>3, <2>5
  <2>7. posts' \in [1..m -> PostRow]
    BY <2>2, <2>6
  <2> QED
    BY <2>7, SeqDef
<1>6. left # <<>> => left[1] \in Channels
  BY <1>2, EmptySeq, ElementOfSeq, LenProperties
<1>7. left # <<>> => Task("post", p, left[1], calls[left[1]] + 1) \in TaskRow
  <2>1. p \in Nat
    BY LenProperties
  <2> QED
    BY <1>6, <2>1 DEF Task, TaskRow
<1> QED
  BY <1>2, <1>3, <1>4, <1>5, <1>6, <1>7 DEF Proceeded

LEMMA ProceedLive ==
  ASSUME NEW p, NEW kind \in Kinds, NEW program \in Seq(Channels), NEW queue \in Seq(TaskRow),
         NEW conns, posts \in Seq(PostRow), p \in 1..Len(posts) + 1,
         calls \in [Channels -> Nat], Proceed(p, kind, program, queue, conns),
         Orderly(queue, handler, posts),
         \A i \in DOMAIN queue : ~(queue[i].kind = "post" /\ queue[i].who = p),
         UNCHANGED handler
  PROVE  /\ waiting' \in Seq(TaskRow) /\ calls' \in [Channels -> Nat]
         /\ posts' \in Seq(PostRow) /\ Orderly(waiting', handler', posts')
         /\ queue # <<>> => waiting' # <<>> /\ waiting'[1] = queue[1]
<1>1. PICK left \in Seq(Channels) : Proceeded(p, kind, left, queue)
  BY ProceedResult
<1>p. /\ posts' \in Seq(PostRow)
      /\ DOMAIN posts' = DOMAIN posts \cup {p}
      /\ \A q \in DOMAIN posts' :
           posts'[q] = IF q = p THEN [kind |-> kind, left |-> left] ELSE posts[q]
  BY <1>1 DEF Proceeded
<1>2. \A i \in DOMAIN queue : Standing(queue[i], handler, posts)
                                => Standing(queue[i], handler, posts')
  <2> SUFFICES ASSUME NEW i \in DOMAIN queue, Standing(queue[i], handler, posts)
               PROVE  Standing(queue[i], handler, posts')
    OBVIOUS
  <2>1. CASE queue[i].kind = "post"
    <3>1. queue[i].who # p /\ queue[i].who \in DOMAIN posts /\ posts[queue[i].who].left # <<>>
      BY <2>1 DEF Standing
    <3>2. posts'[queue[i].who] = posts[queue[i].who] /\ queue[i].who \in DOMAIN posts'
      BY <1>p, <3>1
    <3> QED
      BY <2>1, <3>1, <3>2 DEF Standing
  <2>2. CASE queue[i].kind # "post"
    BY <2>2 DEF Standing
  <2> QED
    BY <2>1, <2>2
<1>3. Orderly(queue, handler, posts')
  BY <1>2, OrderlyFrame
<1>4. CASE left = <<>> /\ waiting' = queue /\ calls' = calls
  BY <1>p, <1>3, <1>4
<1>5. CASE left # <<>> /\ calls' = [calls EXCEPT ![left[1]] = @ + 1]
  <2> DEFINE task == Task("post", p, left[1], calls[left[1]] + 1)
  <2>1. waiting' = Append(queue, task) /\ task \in TaskRow /\ left[1] \in Channels
    BY <1>1, <1>5 DEF Proceeded
  <2>2. task.kind = "post" /\ task.who = p
    BY DEF Task
  <2>3. posts'[p].left = left /\ p \in DOMAIN posts'
    BY <1>p
  <2> HIDE DEF task
  <2>4. Standing(task, handler, posts')
    BY <1>5, <2>2, <2>3 DEF Standing
  <2>5. \A i \in DOMAIN queue : ~Same(queue[i], task)
    BY <2>2 DEF Same
  <2>6. Orderly(Append(queue, task), handler, posts')
    BY <1>3, <2>1, <2>4, <2>5, OrderlyAppend
  <2>7. calls' \in [Channels -> Nat]
    BY <1>5, <2>1
  <2>8. /\ Append(queue, task) \in Seq(TaskRow) /\ Append(queue, task) # <<>>
        /\ queue # <<>> => Append(queue, task)[1] = queue[1]
    BY <2>1, AppendOf
  <2> QED
    BY <1>p, <2>1, <2>6, <2>7, <2>8
<1> QED
  BY <1>1, <1>4, <1>5 DEF Proceeded
----------------------------------------------------------------------------
(* LiveInv, action by action.                                              *)

LEMMA ClientFramed ==
  ASSUME ClientTypes, UNCHANGED clientVars
  PROVE  ClientTypes'
BY DEF ClientTypes, ClosedOnes, clientVars

LEMMA PostLive ==
  ASSUME LiveInv, NEW kind \in Kinds, Post(kind), UNCHANGED clientVars
  PROVE  LiveInv'
<1> DEFINE p == Len(posts) + 1
<1>1. /\ posts \in Seq(PostRow) /\ waiting \in Seq(TaskRow) /\ calls \in [Channels -> Nat]
      /\ Orderly(waiting, handler, posts)
  BY DEF LiveInv, HubTypes
<1>2. p \in 1..Len(posts) + 1 /\ p \notin DOMAIN posts /\ Program(kind) \in Seq(Channels)
  <2>1. Program(kind) \in Seq(Channels)
    <3>1. CASE kind = "event"
      BY <3>1 DEF Program, Channels
    <3>2. CASE kind = "high_event"
      BY <3>2 DEF Program, Channels
    <3>3. CASE kind = "metrics"
      BY <3>3 DEF Program, Channels
    <3> QED
      BY <3>1, <3>2, <3>3 DEF Kinds
  <2> QED
    BY <1>1, <2>1, LenProperties
<1>3. Proceed(p, kind, Program(kind), waiting, connections)
      /\ UNCHANGED <<connections, handler, reach, unread, holder, from, sent>>
  BY DEF Post
<1> HIDE DEF p
<1>4. \A i \in DOMAIN waiting : ~(waiting[i].kind = "post" /\ waiting[i].who = p)
  BY <1>1, <1>2 DEF Orderly, Standing
<1>5. /\ waiting' \in Seq(TaskRow) /\ calls' \in [Channels -> Nat]
      /\ posts' \in Seq(PostRow) /\ Orderly(waiting', handler', posts')
      /\ waiting # <<>> => waiting' # <<>> /\ waiting'[1] = waiting[1]
  BY <1>1, <1>2, <1>3, <1>4, ProceedLive
<1>6. HubTypes'
  BY <1>3, <1>5 DEF LiveInv, HubTypes
<1>7. HolderPosts'
  BY <1>3, <1>5 DEF LiveInv, HolderPosts
<1>8. SocketsKnown'
  BY <1>3 DEF LiveInv, SocketsKnown, clientVars
<1> QED
  BY <1>5, <1>6, <1>7, <1>8, ClientFramed DEF LiveInv

LEMMA FinishLive ==
  ASSUME LiveInv, NEW p, Finish(p), UNCHANGED clientVars
  PROVE  LiveInv'
<1> DEFINE rest == Tail(waiting)
<1>1. /\ posts \in Seq(PostRow) /\ waiting \in Seq(TaskRow) /\ calls \in [Channels -> Nat]
      /\ Orderly(waiting, handler, posts) /\ connections \in [Channels -> SUBSET Sockets]
  BY DEF LiveInv, HubTypes
<1>2. /\ Holds(p) /\ holder' = Idle
      /\ connections' = [connections EXCEPT ![waiting[1].channel] = @ \ holder.failed]
      /\ Proceed(p, posts[p].kind, Tail(posts[p].left), rest, connections')
      /\ UNCHANGED <<handler, reach, unread, from, sent>>
  BY DEF Finish
<1>3. /\ p \in DOMAIN posts /\ posts[p].kind \in Kinds /\ Tail(posts[p].left) \in Seq(Channels)
      /\ waiting[1].channel \in Channels
  <2>1. posts[p] \in PostRow /\ posts[p].left # <<>>
    BY <1>2, PostStands
  <2>2. posts[p].kind \in Kinds /\ posts[p].left \in Seq(Channels)
    BY <2>1 DEF PostRow
  <2> QED
    BY <1>2, <2>1, <2>2, PostStands, HeadTailProperties
<1>4. p \in 1..Len(posts) + 1
  BY <1>1, <1>3, LenProperties
<1>5. waiting # <<>> /\ waiting[1].kind = "post" /\ waiting[1].who = p
  BY <1>2, HeadStands DEF Holds
<1>6. /\ rest \in Seq(TaskRow) /\ Orderly(rest, handler, posts)
      /\ \A i \in DOMAIN rest : ~Same(rest[i], waiting[1])
  BY <1>1, <1>5, OrderlyTail, TailOf
<1> HIDE DEF rest
<1>7. \A i \in DOMAIN rest : ~(rest[i].kind = "post" /\ rest[i].who = p)
  BY <1>5, <1>6 DEF Same
<1>8. /\ waiting' \in Seq(TaskRow) /\ calls' \in [Channels -> Nat]
      /\ posts' \in Seq(PostRow) /\ Orderly(waiting', handler', posts')
  BY <1>1, <1>2, <1>3, <1>4, <1>6, <1>7, ProceedLive
<1>9. /\ connections' \in [Channels -> SUBSET Sockets]
      /\ \A ch \in Channels : connections'[ch] \subseteq connections[ch]
  BY <1>1, <1>2, <1>3
<1>10. holder' \in [served: SUBSET Sockets, failed: SUBSET Sockets]
  BY <1>2 DEF Idle
<1>11. HubTypes'
  BY <1>2, <1>8, <1>9, <1>10 DEF LiveInv, HubTypes
<1>12. HolderPosts'
  BY <1>2 DEF HolderPosts, Idle
<1>13. SocketsKnown'
  BY <1>2, <1>9, SocketChannel DEF LiveInv, SocketsKnown, clientVars
<1> QED
  BY <1>8, <1>11, <1>12, <1>13, ClientFramed DEF LiveInv

LEMMA SendLive ==
  ASSUME LiveInv, NEW p, NEW s \in Sockets, Send(p, s), UNCHANGED clientVars
  PROVE  LiveInv'
<1>1. /\ UNCHANGED <<connections, waiting, handler, reach, posts, calls, from>>
      /\ Holds(p) /\ s \in connections[waiting[1].channel]
  BY DEF Send, Targets
<1>2. waiting # <<>> /\ waiting[1].kind = "post" /\ waiting[1].n \in Nat
      /\ waiting[1].channel \in Channels
  BY <1>1, HeadStands, PostStands DEF Holds
<1>3. holder \in [served: SUBSET Sockets, failed: SUBSET Sockets]
      /\ holder.failed \subseteq holder.served
  BY DEF LiveInv, HubTypes, HolderPosts
<1>4. /\ holder' \in [served: SUBSET Sockets, failed: SUBSET Sockets]
      /\ holder'.failed \subseteq holder'.served
  <2>1. CASE Served(s)
    BY <1>3, <2>1 DEF Served
  <2>2. CASE holder' = [served |-> holder.served \cup {s}, failed |-> holder.failed \cup {s}]
    BY <1>3, <2>2
  <2> QED
    BY <2>1, <2>2 DEF Send, SendText, SendFails, SendSkips
<1>5. handler[s] \notin Newcomer
  <2>1. Channel(s) = waiting[1].channel
    BY <1>1, <1>2 DEF LiveInv, HubTypes
  <2> QED
    BY <1>1, <2>1 DEF LiveInv, SocketsKnown
<1>6. unread \in [Sockets -> 0..Room] /\ sent \in [Sockets -> Seq(Nat)]
  BY DEF LiveInv, HubTypes
<1>7. \/ UNCHANGED <<unread, sent>>
      \/ /\ unread[s] < Room /\ unread' = [unread EXCEPT ![s] = @ + 1]
         /\ sent' = [sent EXCEPT ![s] = Append(@, waiting[1].n)]
  BY DEF Send, SendText, SendFails, SendSkips, HasRoom, Push
<1>8. /\ unread' \in [Sockets -> 0..Room] /\ sent' \in [Sockets -> Seq(Nat)]
      /\ \A t \in Sockets : t # s => unread'[t] = unread[t] /\ sent'[t] = sent[t]
  <2>1. CASE UNCHANGED <<unread, sent>>
    BY <1>6, <2>1
  <2>2. CASE /\ unread[s] < Room /\ unread' = [unread EXCEPT ![s] = @ + 1]
             /\ sent' = [sent EXCEPT ![s] = Append(@, waiting[1].n)]
    <3>1. unread[s] + 1 \in 0..Room
      BY <1>6, <2>2, HubAssumption
    <3>2. Append(sent[s], waiting[1].n) \in Seq(Nat)
      BY <1>2, <1>6, AppendProperties
    <3> QED
      BY <1>6, <2>2, <3>1, <3>2
  <2> QED
    BY <1>7, <2>1, <2>2
<1>9. HubTypes'
  BY <1>1, <1>4, <1>8 DEF LiveInv, HubTypes
<1>10. HolderPosts'
  BY <1>1, <1>2, <1>4 DEF HolderPosts
<1>11. SocketsKnown'
  BY <1>1, <1>5, <1>8 DEF LiveInv, SocketsKnown, clientVars
<1>12. Orderly(waiting', handler', posts')
  BY <1>1 DEF LiveInv
<1> QED
  BY <1>9, <1>10, <1>11, <1>12, ClientFramed DEF LiveInv

(* A handler of s comes to the lock, from a place where no task of s stands there. *)
LEMMA AwaitLive ==
  ASSUME LiveInv, NEW s \in Sockets, NEW place, NEW kind \in {"join", "leave"},
         place = IF kind = "join" THEN "joining" ELSE "leaving",
         handler[s] \in {"accepting", "serving"}, Await(s, place, kind),
         UNCHANGED <<posts, holder>>
  PROVE  /\ waiting' \in Seq(TaskRow) /\ handler' \in [Sockets -> Places]
         /\ Orderly(waiting', handler', posts') /\ HolderPosts'
         /\ handler'[s] = place
         /\ \A t \in Sockets : t # s => handler'[t] = handler[t]
<1> DEFINE task == Task(kind, s, Channel(s), 0)
<1>1. /\ waiting \in Seq(TaskRow) /\ handler \in [Sockets -> Places]
      /\ Orderly(waiting, handler, posts)
  BY DEF LiveInv, HubTypes
<1>2. waiting' = Append(waiting, task) /\ handler' = [handler EXCEPT ![s] = place]
  BY DEF Await
<1>3. task \in TaskRow
  BY SocketChannel DEF Task, TaskRow
<1>4. task.kind = kind /\ task.who = s /\ task.channel = Channel(s)
  BY DEF Task
<1> HIDE DEF task
<1>5. /\ handler' \in [Sockets -> Places] /\ handler'[s] = place
      /\ \A t \in Sockets : t # s => handler'[t] = handler[t]
  BY <1>1, <1>2 DEF Places
<1>6. \A i \in DOMAIN waiting : waiting[i].who = s => waiting[i].kind = "post"
  BY <1>1 DEF Orderly, Standing
<1>7. Orderly(waiting, handler', posts)
  <2>1. \A i \in DOMAIN waiting : Standing(waiting[i], handler, posts)
                                    => Standing(waiting[i], handler', posts)
    BY <1>5, <1>6 DEF Standing
  <2> QED
    BY <1>1, <2>1, OrderlyFrame
<1>8. Standing(task, handler', posts)
  BY <1>4, <1>5 DEF Standing
<1>9. \A i \in DOMAIN waiting : ~Same(waiting[i], task)
  BY <1>4, <1>6 DEF Same
<1>10. Orderly(Append(waiting, task), handler', posts)
  BY <1>1, <1>3, <1>7, <1>8, <1>9, OrderlyAppend
<1>11. /\ waiting' \in Seq(TaskRow) /\ waiting' # <<>>
       /\ waiting # <<>> => waiting'[1] = waiting[1]
  BY <1>1, <1>2, <1>3, AppendOf
<1>12. HolderPosts'
  BY <1>11 DEF LiveInv, HolderPosts
<1> QED
  BY <1>2, <1>5, <1>10, <1>11, <1>12

LEMMA AcceptLive ==
  ASSUME LiveInv, NEW s \in Sockets, Accept(s), UNCHANGED clientVars
  PROVE  LiveInv'
<1>1. /\ handler[s] = "accepting"
      /\ UNCHANGED <<connections, reach, unread, posts, holder, calls, from, sent>>
  BY DEF Accept
<1>2. CASE handler' = [handler EXCEPT ![s] = "gone"] /\ UNCHANGED waiting
  <2>1. handler \in [Sockets -> Places] /\ Orderly(waiting, handler, posts)
    BY DEF LiveInv, HubTypes
  <2>2. /\ handler' \in [Sockets -> Places] /\ handler'[s] = "gone"
        /\ \A t \in Sockets : t # s => handler'[t] = handler[t]
    BY <1>2, <2>1 DEF Places
  <2>3. \A i \in DOMAIN waiting : Standing(waiting[i], handler, posts)
                                    => Standing(waiting[i], handler', posts)
    BY <1>1, <2>2 DEF Standing
  <2>4. Orderly(waiting', handler', posts')
    BY <1>1, <1>2, <2>1, <2>3, OrderlyFrame
  <2>5. HubTypes' /\ HolderPosts'
    BY <1>1, <1>2, <2>2 DEF LiveInv, HubTypes, HolderPosts
  <2>6. SocketsKnown'
    BY <1>1, <2>2 DEF LiveInv, SocketsKnown, Newcomer, clientVars
  <2> QED
    BY <2>4, <2>5, <2>6, ClientFramed DEF LiveInv
<1>3. CASE Await(s, "joining", "join")
  <2>1. /\ waiting' \in Seq(TaskRow) /\ handler' \in [Sockets -> Places]
        /\ Orderly(waiting', handler', posts') /\ HolderPosts'
        /\ handler'[s] = "joining"
        /\ \A t \in Sockets : t # s => handler'[t] = handler[t]
    BY <1>1, <1>3, AwaitLive
  <2>2. HubTypes'
    BY <1>1, <2>1 DEF LiveInv, HubTypes
  <2>3. SocketsKnown'
    BY <1>1, <2>1 DEF LiveInv, SocketsKnown, Newcomer, clientVars
  <2> QED
    BY <2>1, <2>2, <2>3, ClientFramed DEF LiveInv
<1> QED
  BY <1>2, <1>3 DEF Accept

LEMMA DisconnectLive ==
  ASSUME LiveInv, NEW s \in Sockets, ReceiveDisconnect(s), UNCHANGED clientVars
  PROVE  LiveInv'
<1>1. /\ handler[s] = "serving" /\ reach[s] = "lost" /\ Await(s, "leaving", "leave")
      /\ UNCHANGED <<connections, reach, unread, posts, holder, calls, from, sent>>
  BY DEF ReceiveDisconnect
<1>2. /\ waiting' \in Seq(TaskRow) /\ handler' \in [Sockets -> Places]
      /\ Orderly(waiting', handler', posts') /\ HolderPosts'
      /\ handler'[s] = "leaving"
      /\ \A t \in Sockets : t # s => handler'[t] = handler[t]
  BY <1>1, AwaitLive
<1>3. HubTypes'
  BY <1>1, <1>2 DEF LiveInv, HubTypes
<1>4. SocketsKnown'
  BY <1>1, <1>2 DEF LiveInv, SocketsKnown, Newcomer, clientVars
<1> QED
  BY <1>2, <1>3, <1>4, ClientFramed DEF LiveInv

(* A handler of s has the lock and releases it. *)
LEMMA ReleaseLive ==
  ASSUME LiveInv, NEW s, NEW kind \in {"join", "leave"}, HasLock(kind, s),
         NEW place \in {"serving", "gone"}, handler' = [handler EXCEPT ![s] = place],
         waiting' = Tail(waiting), UNCHANGED <<posts, holder>>
  PROVE  /\ waiting' \in Seq(TaskRow) /\ handler' \in [Sockets -> Places]
         /\ Orderly(waiting', handler', posts') /\ HolderPosts' /\ holder = Idle
         /\ handler'[s] = place
         /\ \A t \in Sockets : t # s => handler'[t] = handler[t]
<1> DEFINE rest == Tail(waiting)
<1>1. /\ s \in Sockets
      /\ handler[s] = IF kind = "join" THEN "joining" ELSE "leaving"
  BY HandlerStands
<1>2. /\ waiting \in Seq(TaskRow) /\ waiting # <<>>
      /\ waiting[1].kind = kind /\ waiting[1].who = s
  BY HeadStands
<1>3. handler \in [Sockets -> Places] /\ Orderly(waiting, handler, posts) /\ HolderPosts
  BY DEF LiveInv, HubTypes
<1>4. /\ rest \in Seq(TaskRow) /\ Orderly(rest, handler, posts)
      /\ \A i \in DOMAIN rest : ~Same(rest[i], waiting[1])
  BY <1>2, <1>3, OrderlyTail, TailOf
<1>5. waiting' = rest
  OBVIOUS
<1> HIDE DEF rest
<1>6. /\ handler' \in [Sockets -> Places] /\ handler'[s] = place
      /\ \A t \in Sockets : t # s => handler'[t] = handler[t]
  BY <1>1, <1>3 DEF Places
<1>7. \A i \in DOMAIN rest : rest[i].who = s => rest[i].kind = "post"
  BY <1>1, <1>2, <1>4 DEF Orderly, Standing, Same
<1>8. \A i \in DOMAIN rest : Standing(rest[i], handler, posts)
                               => Standing(rest[i], handler', posts)
  BY <1>6, <1>7 DEF Standing
<1>9. Orderly(rest, handler', posts)
  BY <1>4, <1>8, OrderlyFrame
<1>10. holder = Idle
  BY <1>2, <1>3 DEF HolderPosts
<1>11. HolderPosts'
  BY <1>10 DEF HolderPosts, Idle
<1> QED
  BY <1>4, <1>5, <1>6, <1>9, <1>10, <1>11

LEMMA JoinLive ==
  ASSUME LiveInv, NEW s \in Sockets, Join(s), UNCHANGED clientVars
  PROVE  LiveInv'
<1>1. /\ HasLock("join", s) /\ waiting' = Tail(waiting)
      /\ connections' = [connections EXCEPT ![Channel(s)] = @ \cup {s}]
      /\ handler' = [handler EXCEPT ![s] = "serving"]
      /\ unread' = unread \/ Push(s)
      /\ UNCHANGED <<reach, posts, holder, calls, sent>>
  BY DEF Join
<1>2. /\ waiting' \in Seq(TaskRow) /\ handler' \in [Sockets -> Places]
      /\ Orderly(waiting', handler', posts') /\ HolderPosts'
      /\ handler'[s] = "serving"
      /\ \A t \in Sockets : t # s => handler'[t] = handler[t]
  BY <1>1, ReleaseLive
<1>3. handler[s] = "joining" /\ Channel(s) \in Channels
  BY <1>1, HandlerStands, SocketChannel
<1>4. /\ connections \in [Channels -> SUBSET Sockets]
      /\ \A ch \in Channels : \A t \in connections[ch] : Channel(t) = ch
      /\ unread \in [Sockets -> 0..Room] /\ unread[s] = 0
  BY <1>3 DEF LiveInv, HubTypes, SocketsKnown, Newcomer
<1>5. /\ connections' \in [Channels -> SUBSET Sockets]
      /\ \A ch \in Channels : \A t \in connections'[ch] : Channel(t) = ch
      /\ \A ch \in Channels : \A t \in connections'[ch] : t = s \/ t \in connections[ch]
  BY <1>1, <1>3, <1>4
<1>6. /\ unread' \in [Sockets -> 0..Room]
      /\ \A t \in Sockets : t # s => unread'[t] = unread[t]
  <2>1. CASE unread' = unread
    BY <1>4, <2>1
  <2>2. CASE Push(s)
    <3>1. unread[s] + 1 \in 0..Room
      BY <1>4, HubAssumption
    <3> QED
      BY <1>4, <2>2, <3>1 DEF Push
  <2> QED
    BY <1>1, <2>1, <2>2
<1>7. HubTypes'
  BY <1>1, <1>2, <1>5, <1>6 DEF LiveInv, HubTypes
<1>8. SocketsKnown'
  BY <1>1, <1>2, <1>3, <1>5, <1>6, SocketChannel DEF LiveInv, SocketsKnown, Newcomer, clientVars
<1> QED
  BY <1>2, <1>7, <1>8, ClientFramed DEF LiveInv

LEMMA LeaveLive ==
  ASSUME LiveInv, NEW s \in Sockets, Leave(s), UNCHANGED clientVars
  PROVE  LiveInv'
<1>1. /\ HasLock("leave", s) /\ waiting' = Tail(waiting)
      /\ connections' = [connections EXCEPT ![Channel(s)] = @ \ {s}]
      /\ handler' = [handler EXCEPT ![s] = "gone"]
      /\ UNCHANGED <<reach, unread, posts, holder, calls, from, sent>>
  BY DEF Leave
<1>2. /\ waiting' \in Seq(TaskRow) /\ handler' \in [Sockets -> Places]
      /\ Orderly(waiting', handler', posts') /\ HolderPosts'
      /\ handler'[s] = "gone"
      /\ \A t \in Sockets : t # s => handler'[t] = handler[t]
  BY <1>1, ReleaseLive
<1>3. handler[s] = "leaving" /\ Channel(s) \in Channels
  BY <1>1, HandlerStands, SocketChannel
<1>4. /\ connections' \in [Channels -> SUBSET Sockets]
      /\ \A ch \in Channels : connections'[ch] \subseteq connections[ch]
  BY <1>1, <1>3 DEF LiveInv, HubTypes
<1>5. HubTypes'
  BY <1>1, <1>2, <1>4 DEF LiveInv, HubTypes
<1>6. SocketsKnown'
  BY <1>1, <1>2, <1>3, <1>4, SocketChannel DEF LiveInv, SocketsKnown, Newcomer, clientVars
<1> QED
  BY <1>2, <1>5, <1>6, ClientFramed DEF LiveInv
----------------------------------------------------------------------------
(* The client's steps.                                                     *)

(* What connect() and a timer do: fresh sockets are the current ones. *)
Connected(fresh, channels) ==
  /\ fresh \subseteq Sockets
  /\ \A s \in fresh : readyState[s] = "none" /\ readyState'[s] = "CONNECTING"
                      /\ handler'[s] = "accepting" /\ reach'[s] = "up"
  /\ \A s \in Sockets \ fresh : readyState'[s] = readyState[s] /\ handler'[s] = handler[s]
                                /\ reach'[s] = reach[s]
  /\ current' \in [Channels -> Sockets \cup {None}]
  /\ \A ch \in Channels :
       IF ch \in ToConnect(channels)
       THEN /\ current'[ch] \in fresh /\ Channel(current'[ch]) = ch
            /\ StateOf(ch) = "CONNECTING" => current[ch] \in replaced'
       ELSE current'[ch] = current[ch]
  /\ \A s \in fresh : \E ch \in ToConnect(channels) : s = current'[ch]
  /\ replaced \subseteq replaced' /\ replaced' \subseteq Sockets

LEMMA ConnectResult ==
  ASSUME LiveInv, NEW channels \in SUBSET Channels, ConnectChannels(channels)
  PROVE  \E fresh : Connected(fresh, channels)
<1> DEFINE toConnect == ToConnect(channels)
<1>1. PICK new \in [toConnect -> Sockets] :
        LET With(f, value) == [s \in Sockets |-> IF \E ch \in toConnect : s = new[ch]
                                                THEN value ELSE f[s]]
        IN  /\ \A ch \in toConnect : IsNew(new[ch], ch)
            /\ current' = [ch \in Channels |-> IF ch \in toConnect THEN new[ch] ELSE current[ch]]
            /\ replaced' = replaced \cup {current[ch] : ch \in
                                            {c \in toConnect : StateOf(c) = "CONNECTING"}}
            /\ readyState' = With(readyState, "CONNECTING")
            /\ handler' = With(handler, "accepting")
            /\ reach' = With(reach, "up")
  BY DEF ConnectChannels
<1> DEFINE fresh == {new[ch] : ch \in toConnect}
<1>2. /\ \A ch \in toConnect : IsNew(new[ch], ch)
      /\ current' = [ch \in Channels |-> IF ch \in toConnect THEN new[ch] ELSE current[ch]]
      /\ replaced' = replaced \cup {current[ch] : ch \in
                                      {c \in toConnect : StateOf(c) = "CONNECTING"}}
      /\ readyState' = [s \in Sockets |-> IF s \in fresh THEN "CONNECTING" ELSE readyState[s]]
      /\ handler' = [s \in Sockets |-> IF s \in fresh THEN "accepting" ELSE handler[s]]
      /\ reach' = [s \in Sockets |-> IF s \in fresh THEN "up" ELSE reach[s]]
  BY <1>1
<1>3. toConnect \subseteq Channels
  BY DEF ToConnect
<1>4. \A ch \in toConnect : /\ new[ch] \in fresh /\ new[ch] \in Sockets
                            /\ Channel(new[ch]) = ch /\ readyState[new[ch]] = "none"
  BY <1>2 DEF IsNew, Unused
<1>5. \A s \in fresh : \E ch \in toConnect : s = new[ch]
  OBVIOUS
<1>6. /\ current \in [Channels -> Sockets \cup {None}] /\ None \notin Sockets
      /\ replaced \subseteq Sockets
  BY FrontendAssumption DEF LiveInv, ClientTypes
<1>7. \A ch \in toConnect : StateOf(ch) = "CONNECTING" => current[ch] \in Sockets
  BY <1>3, <1>6 DEF StateOf
<1>8. replaced' \subseteq Sockets /\ replaced \subseteq replaced'
      /\ \A ch \in toConnect : StateOf(ch) = "CONNECTING" => current[ch] \in replaced'
  BY <1>2, <1>6, <1>7
<1> HIDE DEF fresh, toConnect
<1>9. fresh \subseteq Sockets
  BY <1>4, <1>5
<1>10. current' \in [Channels -> Sockets \cup {None}]
  BY <1>2, <1>4, <1>6
<1>11. \A ch \in Channels : IF ch \in toConnect THEN current'[ch] = new[ch]
                                                ELSE current'[ch] = current[ch]
  BY <1>2
<1>12. \A s \in fresh : readyState[s] = "none" /\ readyState'[s] = "CONNECTING"
                        /\ handler'[s] = "accepting" /\ reach'[s] = "up"
  BY <1>2, <1>4, <1>5, <1>9
<1>13. \A s \in Sockets \ fresh : readyState'[s] = readyState[s] /\ handler'[s] = handler[s]
                                  /\ reach'[s] = reach[s]
  BY <1>2
<1>14. \A s \in fresh : \E ch \in toConnect : s = current'[ch]
  BY <1>3, <1>5, <1>11
<1> QED
  BY <1>4, <1>8, <1>9, <1>10, <1>11, <1>12, <1>13, <1>14 DEF Connected, toConnect

LEMMA ConnectLive ==
  ASSUME LiveInv, NEW channels \in SUBSET Channels, ConnectChannels(channels),
         ServerUnchanged, UNCHANGED <<reconnectAttempts, gaveUp>>,
         timers' \in [Channels -> Nat], \A ch \in Channels : timers'[ch] <= timers[ch]
  PROVE  LiveInv'
<1>1. PICK fresh : Connected(fresh, channels)
  BY ConnectResult
<1>2. /\ fresh \subseteq Sockets
      /\ \A s \in fresh : readyState[s] = "none" /\ readyState'[s] = "CONNECTING"
                          /\ handler'[s] = "accepting" /\ reach'[s] = "up"
      /\ \A s \in Sockets \ fresh : readyState'[s] = readyState[s] /\ handler'[s] = handler[s]
                                    /\ reach'[s] = reach[s]
  BY <1>1 DEF Connected
<1>3. UNCHANGED <<connections, waiting, unread, posts, holder, calls, from, sent>>
  BY DEF ServerUnchanged
<1>4. /\ handler \in [Sockets -> Places] /\ reach \in [Sockets -> Reaches]
      /\ readyState \in [Sockets -> States] /\ Orderly(waiting, handler, posts)
  BY DEF LiveInv, HubTypes, ClientTypes
<1>5. /\ handler' \in [Sockets -> Places] /\ reach' \in [Sockets -> Reaches]
      /\ readyState' \in [Sockets -> States]
  <2>1. \E f, g, h : /\ handler' = [s \in Sockets |-> f[s]] /\ reach' = [s \in Sockets |-> g[s]]
                     /\ readyState' = [s \in Sockets |-> h[s]]
    <3>1. /\ handler' = [s \in Sockets |-> handler'[s]]
          /\ reach' = [s \in Sockets |-> reach'[s]]
          /\ readyState' = [s \in Sockets |-> readyState'[s]]
      BY DEF ConnectChannels
    <3> QED
      BY <3>1
  <2>2. \A s \in Sockets : handler'[s] \in Places /\ reach'[s] \in Reaches
                           /\ readyState'[s] \in States
    BY <1>2, <1>4 DEF Places, Reaches, States
  <2> QED
    BY <2>1, <2>2
<1>6. \A s \in fresh : handler[s] = "none"
  BY <1>2 DEF LiveInv, SocketsKnown
<1>7. Orderly(waiting', handler', posts')
  <2>1. \A i \in DOMAIN waiting : Standing(waiting[i], handler, posts)
                                    => Standing(waiting[i], handler', posts)
    <3> SUFFICES ASSUME NEW i \in DOMAIN waiting, Standing(waiting[i], handler, posts)
                 PROVE  Standing(waiting[i], handler', posts)
      OBVIOUS
    <3>1. waiting[i].who \in Sockets /\ waiting[i].kind # "post"
            => handler'[waiting[i].who] = handler[waiting[i].who]
      BY <1>2, <1>6 DEF Standing
    <3> QED
      BY <3>1 DEF Standing
  <2> QED
    BY <1>3, <1>4, <2>1, OrderlyFrame
<1>8. HubTypes' /\ HolderPosts'
  BY <1>3, <1>5 DEF LiveInv, HubTypes, HolderPosts
<1>9. SocketsKnown'
  <2>1. \A s \in fresh : unread[s] = 0 /\ sent[s] = <<>> /\ s \notin connections[Channel(s)]
    BY <1>2, <1>6 DEF LiveInv, SocketsKnown, Newcomer
  <2> QED
    BY <1>2, <1>3, <2>1 DEF LiveInv, SocketsKnown
<1>10. ClientTypes'
  <2>1. ClosedOnes' = ClosedOnes
    BY <1>2 DEF ClosedOnes
  <2>2. \A ch \in Channels : timers'[ch] <= Cardinality(ClosedOnes)
    <3>1. IsFiniteSet(ClosedOnes)
      BY HubAssumption, FS_Subset DEF ClosedOnes
    <3>2. Cardinality(ClosedOnes) \in Nat
      BY <3>1, FS_CardinalityType
    <3>3. timers \in [Channels -> Nat] /\ \A ch \in Channels : timers[ch] <= Cardinality(ClosedOnes)
      BY DEF LiveInv, ClientTypes
    <3> QED
      BY <3>2, <3>3
  <2>3. /\ current' \in [Channels -> Sockets \cup {None}] /\ replaced' \subseteq Sockets
        /\ \A ch \in Channels : Channel(current'[ch]) = ch \/ current'[ch] = current[ch]
    BY <1>1 DEF Connected
  <2>4. \A ch \in Channels : current'[ch] # None => Channel(current'[ch]) = ch
    BY <2>3 DEF LiveInv, ClientTypes
  <2>5. reconnectAttempts' \in 0..MaxReconnectAttempts /\ gaveUp' \subseteq Sockets
    BY DEF LiveInv, ClientTypes
  <2> QED
    BY <1>5, <2>1, <2>2, <2>3, <2>4, <2>5 DEF ClientTypes
<1> QED
  BY <1>7, <1>8, <1>9, <1>10 DEF LiveInv

(* A connection changes its state, and nothing else. *)
LEMMA ReachLive ==
  ASSUME LiveInv, NEW s \in Sockets, NEW value \in {"stalled", "lost"}, Reach(s, value),
         reach[s] \in {"up", "stalled"}
  PROVE  LiveInv'
<1>1. /\ reach' = [reach EXCEPT ![s] = value]
      /\ UNCHANGED <<clientVars, connections, waiting, handler, unread, posts, holder, calls,
                     from, sent>>
  BY DEF Reach
<1>2. reach \in [Sockets -> Reaches] /\ handler[s] # "leaving"
  BY DEF LiveInv, HubTypes, SocketsKnown
<1>3. /\ reach' \in [Sockets -> Reaches]
      /\ \A t \in Sockets : t # s => reach'[t] = reach[t]
  BY <1>1, <1>2 DEF Reaches
<1>4. HubTypes' /\ HolderPosts' /\ Orderly(waiting', handler', posts')
  BY <1>1, <1>3 DEF LiveInv, HubTypes, HolderPosts
<1>5. SocketsKnown'
  BY <1>1, <1>2, <1>3 DEF LiveInv, SocketsKnown, clientVars
<1> QED
  BY <1>1, <1>4, <1>5, ClientFramed DEF LiveInv

LEMMA MessageLive ==
  ASSUME LiveInv, NEW s \in Sockets, OnMessage(s)
  PROVE  LiveInv'
<1>1. /\ unread[s] > 0 /\ unread' = [unread EXCEPT ![s] = @ - 1]
      /\ UNCHANGED <<clientVars, connections, waiting, handler, reach, posts, holder, calls,
                     from, sent>>
  BY DEF OnMessage
<1>2. unread \in [Sockets -> 0..Room]
  BY DEF LiveInv, HubTypes
<1>3. unread[s] - 1 \in 0..Room
  BY <1>1, <1>2, HubAssumption
<1>4. unread' \in [Sockets -> 0..Room] /\ \A t \in Sockets : t # s => unread'[t] = unread[t]
  BY <1>1, <1>2, <1>3
<1>5. HubTypes' /\ HolderPosts' /\ Orderly(waiting', handler', posts')
  BY <1>1, <1>4 DEF LiveInv, HubTypes, HolderPosts
<1>6. SocketsKnown'
  BY <1>1, <1>4 DEF LiveInv, SocketsKnown, clientVars
<1> QED
  BY <1>1, <1>5, <1>6, ClientFramed DEF LiveInv

(* A browser's socket opens or closes. *)
LEMMA StateLive ==
  ASSUME LiveInv, NEW s \in Sockets, UNCHANGED hubVars,
         readyState[s] # "none", NEW state \in States \ {"none"},
         readyState' = [readyState EXCEPT ![s] = state]
  PROVE  /\ HubTypes' /\ HolderPosts' /\ Orderly(waiting', handler', posts') /\ SocketsKnown'
         /\ readyState' \in [Sockets -> States]
<1>1. readyState \in [Sockets -> States]
  BY DEF LiveInv, ClientTypes
<1>2. /\ readyState' \in [Sockets -> States]
      /\ \A t \in Sockets : readyState'[t] = "none" => readyState[t] = "none"
  BY <1>1
<1>3. HubTypes' /\ HolderPosts' /\ Orderly(waiting', handler', posts')
  BY DEF LiveInv, HubTypes, HolderPosts, hubVars
<1>4. SocketsKnown'
  BY <1>2 DEF LiveInv, SocketsKnown, hubVars
<1> QED
  BY <1>2, <1>3, <1>4

LEMMA OpenLive ==
  ASSUME LiveInv, NEW s \in Sockets, OnOpen(s)
  PROVE  LiveInv'
<1>1. /\ readyState[s] = "CONNECTING" /\ readyState' = [readyState EXCEPT ![s] = "OPEN"]
      /\ reconnectAttempts' \in {0, reconnectAttempts}
      /\ UNCHANGED <<hubVars, current, timers, gaveUp, replaced>>
  BY DEF OnOpen
<1>2. /\ HubTypes' /\ HolderPosts' /\ Orderly(waiting', handler', posts') /\ SocketsKnown'
      /\ readyState' \in [Sockets -> States]
  BY <1>1, StateLive DEF States
<1>3. ClosedOnes' = ClosedOnes
  BY <1>1, <1>2 DEF ClosedOnes, LiveInv, ClientTypes
<1>4. reconnectAttempts' \in 0..MaxReconnectAttempts
  BY <1>1, FrontendAssumption DEF LiveInv, ClientTypes
<1>5. ClientTypes'
  BY <1>1, <1>2, <1>3, <1>4 DEF LiveInv, ClientTypes
<1> QED
  BY <1>2, <1>5 DEF LiveInv

(* Every close sets one timer at most, so there are no more timers than closed sockets. *)
LEMMA CloseLive ==
  ASSUME LiveInv, NEW s \in Sockets, OnClose(s)
  PROVE  LiveInv'
<1>1. /\ readyState[s] \in {"CONNECTING", "OPEN"}
      /\ readyState' = [readyState EXCEPT ![s] = "CLOSED"] /\ ScheduleReconnect(s)
      /\ UNCHANGED <<hubVars, current, replaced>>
  BY DEF OnClose
<1>2. /\ HubTypes' /\ HolderPosts' /\ Orderly(waiting', handler', posts') /\ SocketsKnown'
      /\ readyState' \in [Sockets -> States]
  BY <1>1, StateLive DEF States
<1>3. /\ readyState \in [Sockets -> States] /\ timers \in [Channels -> Nat]
      /\ \A ch \in Channels : timers[ch] <= Cardinality(ClosedOnes)
      /\ reconnectAttempts \in 0..MaxReconnectAttempts /\ gaveUp \subseteq Sockets
  BY DEF LiveInv, ClientTypes
<1>4. ClosedOnes' = ClosedOnes \cup {s} /\ s \notin ClosedOnes
  BY <1>1, <1>3 DEF ClosedOnes
<1>5. IsFiniteSet(ClosedOnes)
  BY HubAssumption, FS_Subset DEF ClosedOnes
<1>6. /\ Cardinality(ClosedOnes) \in Nat
      /\ Cardinality(ClosedOnes \cup {s}) = Cardinality(ClosedOnes) + 1
  BY <1>4, <1>5, FS_CardinalityType, FS_AddElement
<1>7. \/ gaveUp' = gaveUp \cup {s} /\ UNCHANGED <<reconnectAttempts, timers>>
      \/ /\ reconnectAttempts < MaxReconnectAttempts
         /\ reconnectAttempts' = reconnectAttempts + 1
         /\ timers' = [timers EXCEPT ![Channel(s)] = @ + 1]
         /\ UNCHANGED gaveUp
  BY <1>1, <1>3, FrontendAssumption DEF ScheduleReconnect
<1>8. /\ timers' \in [Channels -> Nat]
      /\ \A ch \in Channels : timers'[ch] <= timers[ch] + 1
  BY <1>3, <1>7, SocketChannel
<1>9. \A ch \in Channels : timers'[ch] <= Cardinality(ClosedOnes')
  BY <1>3, <1>4, <1>6, <1>8
<1>10. reconnectAttempts' \in 0..MaxReconnectAttempts /\ gaveUp' \subseteq Sockets
  BY <1>3, <1>7, FrontendAssumption
<1>11. ClientTypes'
  BY <1>1, <1>2, <1>8, <1>9, <1>10 DEF LiveInv, ClientTypes
<1> QED
  BY <1>2, <1>11 DEF LiveInv
----------------------------------------------------------------------------
LEMMA LiveInvKept ==
  ASSUME LiveInv, [LiveNext]_liveVars
  PROVE  LiveInv'
<1>1. CASE Reports
  BY <1>1, PostLive DEF Reports
<1>2. CASE Mounts \/ \E ch \in Channels : Client(Reconnect(ch))
  <2>1. timers \in [Channels -> Nat]
    BY DEF LiveInv, ClientTypes
  <2>2. CASE Connect
    BY <2>1, <2>2, ConnectLive DEF Connect
  <2>3. ASSUME NEW ch \in Channels, Reconnect(ch) PROVE LiveInv'
    <3>1. /\ timers' \in [Channels -> Nat]
          /\ \A c \in Channels : timers'[c] <= timers[c]
      BY <2>1, <2>3 DEF Reconnect
    <3> QED
      BY <2>3, <3>1, ConnectLive DEF Reconnect
  <2> QED
    BY <1>2, <2>2, <2>3 DEF Mounts, Client
<1>3. CASE Hub(BroadcastStep)
  BY <1>3, FinishLive, SendLive DEF Hub, BroadcastStep
<1>4. ASSUME NEW s \in Sockets, Hub(HandlerStep(s)) PROVE LiveInv'
  BY <1>4, AcceptLive, JoinLive, DisconnectLive, LeaveLive DEF Hub, HandlerStep
<1>5. ASSUME NEW s \in Sockets, Client(SocketStep(s)) PROVE LiveInv'
  BY <1>5, OpenLive, CloseLive, MessageLive DEF Client, SocketStep
<1>6. ASSUME NEW s \in Sockets, Fault(s) \/ PingTimeout(s) PROVE LiveInv'
  BY <1>6, ReachLive DEF Fault, PingTimeout
<1>7. CASE UNCHANGED liveVars
  <2>1. UNCHANGED <<connections, waiting, handler, reach, unread, posts, holder, calls, sent,
                    clientVars>>
    BY <1>7 DEF liveVars, hubVars
  <2> QED
    BY <2>1, ClientFramed
       DEF LiveInv, HubTypes, HolderPosts, SocketsKnown, clientVars
<1> QED
  BY <1>1, <1>2, <1>3, <1>4, <1>5, <1>6, <1>7 DEF LiveNext

LEMMA LiveInitially == LiveInit => LiveInv
<1> SUFFICES ASSUME LiveInit PROVE LiveInv
  OBVIOUS
<1>1. HubInit /\ FrontendInit
  BY DEF LiveInit
<1>2. HubTypes
  <2>1. <<>> \in Seq(TaskRow) /\ <<>> \in Seq(PostRow) /\ <<>> \in Seq(Nat)
    BY EmptySeq
  <2> QED
    BY <1>1, <2>1, HubAssumption DEF HubInit, HubTypes, Idle, Places, Reaches
<1>3. ClientTypes
  <2>1. ClosedOnes = {}
    BY <1>1 DEF FrontendInit, ClosedOnes
  <2>2. Cardinality(ClosedOnes) = 0
    BY <2>1, FS_EmptySet
  <2> QED
    BY <1>1, <2>2, FrontendAssumption DEF FrontendInit, ClientTypes, States
<1>4. Orderly(waiting, handler, posts) /\ HolderPosts
  BY <1>1 DEF HubInit, Orderly, HolderPosts, Idle
<1>5. SocketsKnown
  BY <1>1, SocketChannel DEF HubInit, SocketsKnown
<1> QED
  BY <1>2, <1>3, <1>4, <1>5 DEF LiveInv

(* Every variable of the hub and of the client keeps its type: no task stands twice at the
   lock, a failed socket is one the broadcast has tried, a connection takes no more than
   Room messages, and there are no more reconnect timers than closed sockets. *)
THEOREM LiveTypeCorrect == LiveSpec => []LiveTypeOK
<1>1. LiveInv => LiveTypeOK
  <2> SUFFICES ASSUME LiveInv PROVE LiveTypeOK
    OBVIOUS
  <2>1. HubTypeOK
    <3>1. \A ch \in Channels : connections[ch] \subseteq {s \in Sockets : Channel(s) = ch}
      BY DEF LiveInv, HubTypes
    <3>2. \A s \in Sockets : /\ handler[s] \in Places /\ reach[s] \in Reaches
                             /\ unread[s] \in 0..Room
      BY DEF LiveInv, HubTypes
    <3> QED
      BY <3>1, <3>2 DEF LiveInv, HubTypeOK, Orderly, Same, HolderPosts, Reaches
  <2>2. FrontendTypeOK
    <3>1. IsFiniteSet(Sockets) /\ ClosedOnes \subseteq Sockets
      BY HubAssumption DEF ClosedOnes
    <3>2. /\ Cardinality(Sockets) \in Nat /\ Cardinality(ClosedOnes) \in Nat
          /\ Cardinality(ClosedOnes) <= Cardinality(Sockets)
      BY <3>1, FS_Subset, FS_CardinalityType
    <3>3. /\ current \in [Channels -> Sockets \cup {None}]
          /\ \A ch \in Channels : current[ch] # None => Channel(current[ch]) = ch
          /\ readyState \in [Sockets -> States]
          /\ reconnectAttempts \in 0..MaxReconnectAttempts
          /\ timers \in [Channels -> Nat]
          /\ \A ch \in Channels : timers[ch] <= Cardinality(ClosedOnes)
          /\ gaveUp \subseteq Sockets /\ replaced \subseteq Sockets
      BY DEF LiveInv, ClientTypes
    <3>4. \A ch \in Channels : timers[ch] \in 0..Cardinality(Sockets)
      BY <3>2, <3>3
    <3>5. \A ch \in Channels : current[ch] \in {None} \cup {s \in Sockets : Channel(s) = ch}
      BY <3>3
    <3> QED
      BY <3>3, <3>4, <3>5 DEF FrontendTypeOK, States
  <2> QED
    BY <2>1, <2>2 DEF LiveTypeOK
<1> QED
  BY <1>1, LiveInitially, LiveInvKept, PTL DEF LiveSpec
----------------------------------------------------------------------------
(* The client loses no socket in silence.                                  *)

LEMMA ConnectKept ==
  ASSUME LiveInv, SocketsKept, NEW channels \in SUBSET Channels, ConnectChannels(channels),
         \A ch \in Channels \ channels : timers'[ch] = timers[ch], UNCHANGED gaveUp
  PROVE  SocketsKept'
<1>1. PICK fresh : Connected(fresh, channels)
  BY ConnectResult
<1>2. None \notin Sockets /\ current \in [Channels -> Sockets \cup {None}]
      /\ readyState \in [Sockets -> States]
  BY FrontendAssumption DEF LiveInv, ClientTypes
<1>3. ASSUME NEW ch \in Channels, StateOf(ch)' = "CLOSED"
      PROVE  timers'[ch] > 0 \/ current'[ch] \in gaveUp'
  <2>1. current'[ch] # None /\ readyState'[current'[ch]] = "CLOSED"
    BY <1>3 DEF StateOf
  <2>2. current'[ch] \in Sockets \ fresh
    BY <1>1, <2>1 DEF Connected
  <2>3. ch \notin ToConnect(channels)
    BY <1>1, <2>2 DEF Connected
  <2>4. current'[ch] = current[ch] /\ readyState[current[ch]] = "CLOSED"
    BY <1>1, <2>1, <2>2, <2>3 DEF Connected
  <2>5. StateOf(ch) = "CLOSED"
    BY <2>1, <2>4 DEF StateOf
  <2>6. ch \notin channels
    BY <2>3, <2>5 DEF ToConnect
  <2> QED
    BY <2>4, <2>5, <2>6 DEF SocketsKept
<1>4. ASSUME NEW ch \in Channels, NEW s \in Sockets, Channel(s) = ch,
             readyState'[s] \in {"CONNECTING", "OPEN"}
      PROVE  s = current'[ch] \/ s \in replaced'
  <2>1. CASE s \in fresh
    <3>1. PICK c \in ToConnect(channels) : s = current'[c]
      BY <1>1, <2>1 DEF Connected
    <3>2. c \in Channels
      BY DEF ToConnect
    <3>3. Channel(current'[c]) = c
      BY <1>1, <3>2 DEF Connected
    <3> QED
      BY <1>4, <3>1, <3>3
  <2>2. CASE s \notin fresh
    <3>1. readyState[s] = readyState'[s]
      BY <1>1, <2>2 DEF Connected
    <3>2. s = current[ch] \/ s \in replaced
      BY <1>4, <3>1 DEF SocketsKept
    <3>3. CASE s \in replaced
      BY <1>1, <3>3 DEF Connected
    <3>4. CASE s = current[ch]
      <4>1. StateOf(ch) = readyState[s]
        BY <1>2, <3>4 DEF StateOf
      <4>2. CASE ch \in ToConnect(channels)
        <5>1. StateOf(ch) = "CONNECTING"
          BY <1>4, <3>1, <4>1, <4>2 DEF ToConnect
        <5> QED
          BY <1>1, <3>4, <4>2, <5>1 DEF Connected
      <4>3. CASE ch \notin ToConnect(channels)
        BY <1>1, <3>4, <4>3 DEF Connected
      <4> QED
        BY <4>2, <4>3
    <3> QED
      BY <3>2, <3>3, <3>4
  <2> QED
    BY <2>1, <2>2
<1> QED
  BY <1>3, <1>4 DEF SocketsKept

LEMMA CloseKept ==
  ASSUME LiveInv, SocketsKept, NEW s \in Sockets, OnClose(s)
  PROVE  SocketsKept'
<1>1. /\ readyState[s] \in {"CONNECTING", "OPEN"}
      /\ readyState' = [readyState EXCEPT ![s] = "CLOSED"] /\ ScheduleReconnect(s)
      /\ UNCHANGED <<current, replaced>>
  BY DEF OnClose
<1>2. /\ None \notin Sockets /\ current \in [Channels -> Sockets \cup {None}]
      /\ \A ch \in Channels : current[ch] # None => Channel(current[ch]) = ch
      /\ readyState \in [Sockets -> States] /\ timers \in [Channels -> Nat]
  BY FrontendAssumption DEF LiveInv, ClientTypes
<1>3. /\ readyState'[s] = "CLOSED"
      /\ \A t \in Sockets : t # s => readyState'[t] = readyState[t]
  BY <1>1, <1>2
<1>4. /\ \A ch \in Channels : timers'[ch] >= timers[ch]
      /\ gaveUp \subseteq gaveUp'
      /\ timers'[Channel(s)] > 0 \/ s \in gaveUp'
  <2>1. CASE gaveUp' = gaveUp \cup {s} /\ UNCHANGED timers
    BY <1>2, <2>1
  <2>2. CASE timers' = [timers EXCEPT ![Channel(s)] = @ + 1] /\ UNCHANGED gaveUp
    BY <1>2, <2>2, SocketChannel
  <2> QED
    BY <1>1, <2>1, <2>2 DEF ScheduleReconnect
<1>5. ASSUME NEW ch \in Channels, StateOf(ch)' = "CLOSED"
      PROVE  timers'[ch] > 0 \/ current'[ch] \in gaveUp'
  <2>1. current'[ch] = current[ch] /\ current[ch] \in Sockets
        /\ readyState'[current[ch]] = "CLOSED"
    BY <1>1, <1>2, <1>5 DEF StateOf
  <2>2. CASE current[ch] = s
    BY <1>2, <1>4, <2>1, <2>2
  <2>3. CASE current[ch] # s
    <3>1. StateOf(ch) = "CLOSED"
      BY <1>2, <1>3, <2>1, <2>3 DEF StateOf
    <3>2. timers[ch] > 0 \/ current[ch] \in gaveUp
      BY <3>1 DEF SocketsKept
    <3>3. timers[ch] \in Nat /\ timers'[ch] >= timers[ch]
      BY <1>2, <1>4
    <3>4. timers[ch] > 0 => timers'[ch] > 0
      <4>1. timers' \in [Channels -> Nat]
        BY CloseLive DEF LiveInv, ClientTypes
      <4> QED
        BY <3>3, <4>1
    <3> QED
      BY <1>4, <2>1, <3>2, <3>4
  <2> QED
    BY <2>2, <2>3
<1>6. ASSUME NEW ch \in Channels, NEW t \in Sockets, Channel(t) = ch,
             readyState'[t] \in {"CONNECTING", "OPEN"}
      PROVE  t = current'[ch] \/ t \in replaced'
  BY <1>1, <1>3, <1>6 DEF SocketsKept
<1> QED
  BY <1>5, <1>6 DEF SocketsKept

LEMMA OpenKept ==
  ASSUME LiveInv, SocketsKept, NEW s \in Sockets, OnOpen(s)
  PROVE  SocketsKept'
<1>1. /\ readyState[s] = "CONNECTING" /\ readyState' = [readyState EXCEPT ![s] = "OPEN"]
      /\ UNCHANGED <<current, timers, gaveUp, replaced>>
  BY DEF OnOpen
<1>2. readyState \in [Sockets -> States]
  BY DEF LiveInv, ClientTypes
<1>3. /\ readyState'[s] = "OPEN"
      /\ \A t \in Sockets : t # s => readyState'[t] = readyState[t]
  BY <1>1, <1>2
<1>4. \A ch \in Channels : StateOf(ch)' = "CLOSED" => StateOf(ch) = "CLOSED"
  <2>1. current \in [Channels -> Sockets \cup {None}]
    BY DEF LiveInv, ClientTypes
  <2> QED
    BY <1>1, <1>3, <2>1 DEF StateOf
<1> QED
  BY <1>1, <1>3, <1>4 DEF SocketsKept

LEMMA KeptInvKept ==
  ASSUME KeptInv, [LiveNext]_liveVars
  PROVE  KeptInv'
<1>1. LiveInv'
  BY LiveInvKept DEF KeptInv
<1>2. CASE UNCHANGED clientVars
  BY <1>1, <1>2 DEF KeptInv, SocketsKept, StateOf, clientVars
<1>3. CASE Connect
  BY <1>1, <1>3, ConnectKept DEF KeptInv, Connect
<1>4. ASSUME NEW ch \in Channels, Reconnect(ch) PROVE KeptInv'
  <2>1. \A c \in Channels \ {ch} : timers'[c] = timers[c]
    BY <1>4 DEF Reconnect, KeptInv, LiveInv, ClientTypes
  <2> QED
    BY <1>1, <1>4, <2>1, ConnectKept DEF KeptInv, Reconnect
<1>5. ASSUME NEW s \in Sockets, SocketStep(s) PROVE KeptInv'
  BY <1>1, <1>2, <1>5, OpenKept, CloseKept DEF KeptInv, SocketStep, OnMessage
<1>6. CASE Reports \/ Hub(BroadcastStep) \/ \E s \in Sockets : Hub(HandlerStep(s))
  BY <1>2, <1>6 DEF Reports, Hub
<1>7. ASSUME NEW s \in Sockets, Fault(s) \/ PingTimeout(s) PROVE KeptInv'
  BY <1>2, <1>7 DEF Fault, PingTimeout, Reach
<1>8. CASE UNCHANGED liveVars
  BY <1>2, <1>8 DEF liveVars
<1> QED
  BY <1>3, <1>4, <1>5, <1>6, <1>7, <1>8 DEF LiveNext, Mounts, Client

(* Whatever the two sockets of a browser do to the counter they share: one that closed is
   reconnected by a timer that is set or was closed with no attempt left, and a channel has
   a second live socket only after a connect has replaced one still CONNECTING. *)
THEOREM NoSocketForgotten == LiveSpec => []SocketsKept
<1>1. LiveInit => KeptInv
  <2> SUFFICES ASSUME LiveInit PROVE SocketsKept
    BY LiveInitially DEF KeptInv
  <2> QED
    BY DEF LiveInit, FrontendInit, SocketsKept, StateOf
<1>2. KeptInv => SocketsKept
  BY DEF KeptInv
<1> QED
  BY <1>1, <1>2, KeptInvKept, PTL DEF LiveSpec
----------------------------------------------------------------------------
(* What is due, as the line grows and moves.                               *)

LEMMA DueAside ==
  ASSUME NEW queue \in Seq(TaskRow), NEW task \in TaskRow, NEW served, NEW s, NEW begun,
         ~IsPost(task, Channel(s))
  PROVE  Due(Append(queue, task), served, s, begun) = Due(queue, served, s, begun)
BY AppendOf DEF Due

LEMMA DueGrows ==
  ASSUME NEW queue \in Seq(TaskRow), NEW task \in TaskRow, NEW served, NEW s,
         queue = <<>> => served = {}, IsPost(task, Channel(s)),
         NEW begun, NEW called \in Nat, InLine(queue, Channel(s), begun, called)
  PROVE  Due(Append(queue, task), served, s, IF queue = <<>> THEN called + 1 ELSE begun)
           = Due(queue, served, s, begun)
<1>1. CASE queue # <<>>
  BY <1>1, AppendOf DEF Due
<1>2. CASE queue = <<>>
  <2>1. Queued(queue, Channel(s)) = {}
    <3>1. 2..Len(queue) = {}
      BY <1>2
    <3> QED
      BY <3>1 DEF Queued
  <2>2. begun \in Nat /\ begun <= called /\ begun + 1..called = {}
    BY <2>1 DEF InLine
  <2>3. begun = called
    <3>1. called \notin begun + 1..called
      BY <2>2
    <3> QED
      BY <2>2, <3>1
  <2>4. Due(queue, served, s, begun) = called
    BY <1>2, <2>3 DEF Due
  <2>5. Append(queue, task) # <<>> /\ Append(queue, task)[1] = task
    BY <1>2, AppendOf
  <2>6. Due(Append(queue, task), served, s, called + 1) = called
    BY <1>2, <2>5 DEF Due
  <2> QED
    BY <1>2, <2>4, <2>6
<1> QED
  BY <1>1, <1>2

LEMMA DueMoves ==
  ASSUME NEW queue, NEW s, NEW begun \in Nat
  PROVE  Due(queue, {}, s,
             IF queue # <<>> /\ IsPost(queue[1], Channel(s)) THEN begun + 1 ELSE begun) = begun
BY DEF Due

(* The line after a step, and so what Begun says of it. *)
LEMMA LineAfter ==
  ASSUME NEW ch \in Channels, NEW begun, calls' \in [Channels -> Nat],
         InLine(waiting', ch, begun, calls'[ch])
  PROVE  Begun(ch)' = begun /\ InLine(waiting', ch, Begun(ch)', calls'[ch])
<1>1. calls'[ch] - Cardinality(Queued(waiting', ch)) = begun
  BY BegunInLine
<1>2. Begun(ch)' = begun
  BY <1>1 DEF Begun
<1> QED
  BY <1>2

(* The lines before the step, and nobody served while nobody has the lock. *)
Lined(queue, served, begun) ==
  /\ queue = <<>> => served = {}
  /\ \A ch \in Channels : InLine(queue, ch, begun[ch], calls[ch])

(* A post goes on to its next broadcast. *)
LEMMA ProceedLine ==
  ASSUME NEW p, NEW kind, NEW left \in Seq(Channels), NEW queue \in Seq(TaskRow),
         Proceeded(p, kind, left, queue), calls \in [Channels -> Nat],
         calls' \in [Channels -> Nat],
         NEW served, NEW begun, Lined(queue, served, begun)
  PROVE  /\ \A ch \in Channels : InLine(waiting', ch, Begun(ch)', calls'[ch])
         /\ \A s \in Sockets : Due(waiting', served, s, Begun(Channel(s))')
                                 = Due(queue, served, s, begun[Channel(s)])
<1>l. /\ queue = <<>> => served = {}
      /\ \A ch \in Channels : InLine(queue, ch, begun[ch], calls[ch])
  BY DEF Lined
<1>1. CASE waiting' = queue /\ calls' = calls
  <2>1. \A ch \in Channels : InLine(waiting', ch, begun[ch], calls'[ch])
    BY <1>1, <1>l
  <2>2. \A ch \in Channels : /\ Begun(ch)' = begun[ch]
                             /\ InLine(waiting', ch, Begun(ch)', calls'[ch])
    BY <2>1, LineAfter
  <2> QED
    BY <1>1, <2>2, SocketChannel
<1>2. CASE /\ left[1] \in Channels
           /\ calls' = [calls EXCEPT ![left[1]] = @ + 1]
           /\ waiting' = Append(queue, Task("post", p, left[1], calls[left[1]] + 1))
           /\ Task("post", p, left[1], calls[left[1]] + 1) \in TaskRow
  <2> DEFINE task == Task("post", p, left[1], calls[left[1]] + 1)
             to == left[1]
  <2>1. /\ task \in TaskRow /\ to \in Channels /\ waiting' = Append(queue, task)
        /\ calls'[to] = calls[to] + 1 /\ task.n = calls[to] + 1 /\ IsPost(task, to)
        /\ \A ch \in Channels \ {to} : calls'[ch] = calls[ch] /\ ~IsPost(task, ch)
    BY <1>2 DEF Task, IsPost
  <2> HIDE DEF task, to
  <2> DEFINE next(ch) == IF ch = to /\ queue = <<>> THEN calls[ch] + 1 ELSE begun[ch]
  <2>2. \A ch \in Channels : InLine(waiting', ch, next(ch), calls'[ch])
    <3> SUFFICES ASSUME NEW ch \in Channels PROVE InLine(waiting', ch, next(ch), calls'[ch])
      OBVIOUS
    <3>1. CASE ch = to
      <4>1. /\ calls[ch] \in Nat /\ InLine(queue, ch, begun[ch], calls[ch])
            /\ IsPost(task, ch) /\ task.n = calls[ch] + 1
        BY <1>l, <2>1, <3>1
      <4>2. InLine(Append(queue, task), ch, IF queue = <<>> THEN calls[ch] + 1 ELSE begun[ch],
                   calls[ch] + 1)
        BY <2>1, <4>1, LineGrows
      <4> QED
        BY <2>1, <3>1, <4>2
    <3>2. CASE ch # to
      <4>1. calls[ch] \in Nat /\ InLine(queue, ch, begun[ch], calls[ch]) /\ ~IsPost(task, ch)
        BY <1>l, <2>1, <3>2
      <4>2. InLine(Append(queue, task), ch, begun[ch], calls[ch])
        BY <2>1, <4>1, LineAside
      <4> QED
        BY <2>1, <3>2, <4>2
    <3> QED
      BY <3>1, <3>2
  <2>3. \A ch \in Channels : /\ Begun(ch)' = next(ch)
                             /\ InLine(waiting', ch, Begun(ch)', calls'[ch])
    BY <2>2, LineAfter
  <2>4. ASSUME NEW s \in Sockets
        PROVE  Due(waiting', served, s, next(Channel(s)))
                 = Due(queue, served, s, begun[Channel(s)])
    <3>1. Channel(s) \in Channels
      BY SocketChannel
    <3>2. CASE Channel(s) = to
      <4>1. /\ calls[Channel(s)] \in Nat /\ IsPost(task, Channel(s))
            /\ InLine(queue, Channel(s), begun[Channel(s)], calls[Channel(s)])
        BY <1>l, <2>1, <3>1, <3>2
      <4>2. Due(Append(queue, task), served, s,
                IF queue = <<>> THEN calls[Channel(s)] + 1 ELSE begun[Channel(s)])
              = Due(queue, served, s, begun[Channel(s)])
        BY <1>l, <2>1, <4>1, DueGrows
      <4> QED
        BY <2>1, <3>2, <4>2
    <3>3. CASE Channel(s) # to
      <4>1. ~IsPost(task, Channel(s))
        BY <2>1, <3>1, <3>3
      <4>2. Due(Append(queue, task), served, s, begun[Channel(s)])
              = Due(queue, served, s, begun[Channel(s)])
        BY <2>1, <4>1, DueAside
      <4> QED
        BY <2>1, <3>3, <4>2
    <3> QED
      BY <3>2, <3>3
  <2> QED
    BY <2>3, <2>4, SocketChannel
<1> QED
  BY <1>1, <1>2 DEF Proceeded
----------------------------------------------------------------------------
(* FeedInv, action by action.                                              *)

LEMMA FeedTypes ==
  ASSUME FeedInv
  PROVE  /\ LiveInv /\ Fed /\ from \in [Sockets -> Nat]
         /\ waiting \in Seq(TaskRow) /\ calls \in [Channels -> Nat]
         /\ sent \in [Sockets -> Seq(Nat)]
         /\ connections \in [Channels -> SUBSET Sockets]
         /\ \A ch \in Channels : /\ Begun(ch) \in Nat /\ calls[ch] \in Nat
                                 /\ InLine(waiting, ch, Begun(ch), calls[ch])
         /\ waiting = <<>> => holder = Idle
BY DEF FeedInv, LiveInv, HubTypes, InLine, HolderPosts

(* The lines stand as they did, and no connection that was lost is back. *)
LEMMA FeedAside ==
  ASSUME FeedInv, LiveInv', UNCHANGED <<waiting, calls, holder, from, sent>>,
         \A s \in Sockets :
           s \in connections'[Channel(s)] /\ reach'[s] \in {"up", "stalled"}
             => s \in connections[Channel(s)] /\ reach[s] \in {"up", "stalled"}
  PROVE  FeedInv'
<1>1. \A ch : Begun(ch)' = Begun(ch)
  BY DEF Begun
<1>2. Fed'
  BY <1>1 DEF FeedInv, Fed
<1> QED
  BY <1>1, <1>2 DEF FeedInv

(* The lines change, and what is due does not, nor what was sent. *)
LEMMA FeedDue ==
  ASSUME FeedInv, LiveInv', UNCHANGED <<from, sent>>,
         \A ch \in Channels : InLine(waiting', ch, Begun(ch)', calls'[ch]),
         \A s \in Sockets :
           s \in connections'[Channel(s)] /\ reach'[s] \in {"up", "stalled"}
             => /\ s \in connections[Channel(s)] /\ reach[s] \in {"up", "stalled"}
                /\ Due(waiting', holder'.served, s, Begun(Channel(s))')
                     = Due(waiting, holder.served, s, Begun(Channel(s)))
  PROVE  FeedInv'
<1>1. Fed'
  BY DEF FeedInv, Fed
<1> QED
  BY <1>1 DEF FeedInv

LEMMA PostLines ==
  ASSUME FeedInv, NEW p, NEW kind, NEW left \in Seq(Channels),
         Proceeded(p, kind, left, waiting), calls' \in [Channels -> Nat]
  PROVE  /\ \A ch \in Channels : InLine(waiting', ch, Begun(ch)', calls'[ch])
         /\ \A s \in Sockets : Due(waiting', holder.served, s, Begun(Channel(s))')
                                 = Due(waiting, holder.served, s, Begun(Channel(s)))
<1> DEFINE begun == [ch \in Channels |-> Begun(ch)]
<1>1. \A ch \in Channels : begun[ch] = Begun(ch)
  OBVIOUS
<1> HIDE DEF begun
<1>2. \A ch \in Channels : InLine(waiting, ch, begun[ch], calls[ch])
  BY <1>1, FeedTypes
<1>3. waiting \in Seq(TaskRow) /\ calls \in [Channels -> Nat]
  BY FeedTypes
<1>4. waiting = <<>> => holder.served = {}
  BY FeedTypes DEF Idle
<1>5. /\ \A ch \in Channels : InLine(waiting', ch, Begun(ch)', calls'[ch])
      /\ \A s \in Sockets : Due(waiting', holder.served, s, Begun(Channel(s))')
                              = Due(waiting, holder.served, s, begun[Channel(s)])
  <2>1. Lined(waiting, holder.served, begun)
    BY <1>2, <1>4 DEF Lined
  <2> QED
    BY <1>3, <2>1, ProceedLine
<1> QED
  BY <1>1, <1>5, SocketChannel

LEMMA PostFeeds ==
  ASSUME FeedInv, LiveInv', NEW kind \in Kinds, Post(kind)
  PROVE  FeedInv'
<1> DEFINE p == Len(posts) + 1
<1>1. /\ posts \in Seq(PostRow) /\ p \in 1..Len(posts) + 1 /\ Program(kind) \in Seq(Channels)
  <2>1. Program(kind) \in Seq(Channels)
    <3>1. CASE kind = "event"
      BY <3>1 DEF Program, Channels
    <3>2. CASE kind = "high_event"
      BY <3>2 DEF Program, Channels
    <3>3. CASE kind = "metrics"
      BY <3>3 DEF Program, Channels
    <3> QED
      BY <3>1, <3>2, <3>3 DEF Kinds
  <2>2. posts \in Seq(PostRow)
    BY FeedTypes DEF LiveInv, HubTypes
  <2> QED
    BY <2>1, <2>2, LenProperties
<1>2. Proceed(p, kind, Program(kind), waiting, connections)
      /\ UNCHANGED <<connections, handler, reach, unread, holder, from, sent>>
  BY DEF Post
<1> HIDE DEF p
<1>3. PICK left \in Seq(Channels) : Proceeded(p, kind, left, waiting)
  BY <1>1, <1>2, FeedTypes, ProceedResult
<1>4. calls' \in [Channels -> Nat]
  BY DEF LiveInv, HubTypes
<1> QED
  BY <1>2, <1>3, <1>4, PostLines, FeedDue

(* A handler comes to the lock. *)
LEMMA AwaitFeeds ==
  ASSUME FeedInv, LiveInv', NEW s \in Sockets, NEW place, NEW kind \in {"join", "leave"},
         Await(s, place, kind), UNCHANGED <<connections, reach, holder, calls, from, sent>>
  PROVE  FeedInv'
<1> DEFINE task == Task(kind, s, Channel(s), 0)
<1>1. waiting' = Append(waiting, task)
  BY DEF Await
<1>2. task \in TaskRow /\ task.kind # "post"
  BY SocketChannel DEF Task, TaskRow
<1> HIDE DEF task
<1>3. \A ch \in Channels : InLine(waiting', ch, Begun(ch), calls'[ch])
  BY <1>1, <1>2, FeedTypes, LineAside DEF IsPost
<1>4. \A ch \in Channels : /\ Begun(ch)' = Begun(ch)
                           /\ InLine(waiting', ch, Begun(ch)', calls'[ch])
  BY <1>3, FeedTypes, LineAfter
<1>5. \A t \in Sockets : Due(waiting', holder.served, t, Begun(Channel(t)))
                           = Due(waiting, holder.served, t, Begun(Channel(t)))
  BY <1>1, <1>2, FeedTypes, DueAside DEF IsPost
<1> QED
  BY <1>4, <1>5, FeedDue, SocketChannel

(* The lines after the head is gone. *)
LEMMA MovedLines ==
  ASSUME FeedInv, waiting # <<>>, NEW ch \in Channels
  PROVE  InLine(Tail(waiting), ch,
                IF Tail(waiting) # <<>> /\ IsPost(Tail(waiting)[1], ch)
                THEN Begun(ch) + 1 ELSE Begun(ch), calls[ch])
BY FeedTypes, LineMoves

(* A handler releases the lock; nobody was waiting for a broadcast. *)
LEMMA ReleaseFeeds ==
  ASSUME FeedInv, NEW s \in Sockets, NEW kind \in {"join", "leave"}, HasLock(kind, s),
         waiting' = Tail(waiting), UNCHANGED <<calls, holder>>
  PROVE  /\ \A ch \in Channels : InLine(waiting', ch, Begun(ch)', calls'[ch])
         /\ \A t \in Sockets : /\ Due(waiting, holder.served, t, Begun(Channel(t)))
                                    = Begun(Channel(t))
                               /\ Due(waiting', holder'.served, t, Begun(Channel(t))')
                                    = Begun(Channel(t))
<1>1. waiting # <<>> /\ waiting[1].kind = kind /\ holder = Idle
  BY FeedTypes, HeadStands DEF LiveInv, HolderPosts
<1> DEFINE next(ch) == IF Tail(waiting) # <<>> /\ IsPost(Tail(waiting)[1], ch)
                       THEN Begun(ch) + 1 ELSE Begun(ch)
<1>2. \A ch \in Channels : InLine(waiting', ch, next(ch), calls'[ch])
  BY <1>1, MovedLines
<1>3. \A ch \in Channels : /\ Begun(ch)' = next(ch)
                           /\ InLine(waiting', ch, Begun(ch)', calls'[ch])
  BY <1>2, FeedTypes, LineAfter
<1>4. \A t \in Sockets : Due(waiting', {}, t, next(Channel(t))) = Begun(Channel(t))
  BY FeedTypes, SocketChannel, DueMoves
<1>5. holder'.served = {}
  BY <1>1 DEF Idle
<1>6. \A t \in Sockets : Due(waiting, holder.served, t, Begun(Channel(t))) = Begun(Channel(t))
  BY <1>1 DEF Due, IsPost
<1> QED
  BY <1>3, <1>4, <1>5, <1>6, SocketChannel

LEMMA JoinFeeds ==
  ASSUME FeedInv, LiveInv', NEW s \in Sockets, Join(s)
  PROVE  FeedInv'
<1>1. /\ HasLock("join", s) /\ waiting' = Tail(waiting)
      /\ connections' = [connections EXCEPT ![Channel(s)] = @ \cup {s}]
      /\ from' = [from EXCEPT ![s] = Begun(Channel(s))]
      /\ UNCHANGED <<reach, holder, calls, sent>>
  BY DEF Join
<1>2. /\ \A ch \in Channels : InLine(waiting', ch, Begun(ch)', calls'[ch])
      /\ \A t \in Sockets : /\ Due(waiting, holder.served, t, Begun(Channel(t)))
                                 = Begun(Channel(t))
                            /\ Due(waiting', holder'.served, t, Begun(Channel(t))')
                                 = Begun(Channel(t))
  BY <1>1, ReleaseFeeds
<1>3. sent[s] = <<>> /\ Channel(s) \in Channels
  BY <1>1, FeedTypes, HandlerStands, SocketChannel DEF LiveInv, SocketsKnown, Newcomer
<1>4. /\ from' \in [Sockets -> Nat] /\ from'[s] = Begun(Channel(s))
      /\ \A t \in Sockets : t # s => from'[t] = from[t]
  BY <1>1, <1>3, FeedTypes
<1>5. \A t \in Sockets : t # s /\ t \in connections'[Channel(t)] => t \in connections[Channel(t)]
  BY <1>1, <1>3, FeedTypes, SocketChannel
<1>6. Fed'
  <2> SUFFICES ASSUME NEW t \in Sockets
               PROVE  /\ \A i \in DOMAIN sent'[t] : sent'[t][i] = from'[t] + i
                      /\ t \in connections'[Channel(t)] /\ reach'[t] \in {"up", "stalled"} =>
                           from'[t] + Len(sent'[t])
                             = Due(waiting', holder'.served, t, Begun(Channel(t))')
    BY DEF Fed
  <2>1. CASE t = s
    <3>1. sent'[s] = <<>> /\ DOMAIN sent'[s] = {} /\ Len(sent'[s]) = 0
      BY <1>1, <1>3
    <3>2. from'[s] + 0 = Begun(Channel(s))
      BY <1>3, <1>4, FeedTypes
    <3> QED
      BY <1>2, <2>1, <3>1, <3>2
  <2>2. CASE t # s
    <3>1. /\ \A i \in DOMAIN sent[t] : sent[t][i] = from[t] + i
          /\ t \in connections[Channel(t)] /\ reach[t] \in {"up", "stalled"} =>
               from[t] + Len(sent[t]) = Due(waiting, holder.served, t, Begun(Channel(t)))
      BY FeedTypes DEF Fed
    <3> QED
      BY <1>1, <1>2, <1>4, <1>5, <2>2, <3>1
  <2> QED
    BY <2>1, <2>2
<1> QED
  BY <1>2, <1>4, <1>6 DEF FeedInv

LEMMA LeaveFeeds ==
  ASSUME FeedInv, LiveInv', NEW s \in Sockets, Leave(s)
  PROVE  FeedInv'
<1>1. /\ HasLock("leave", s) /\ waiting' = Tail(waiting)
      /\ connections' = [connections EXCEPT ![Channel(s)] = @ \ {s}]
      /\ UNCHANGED <<reach, holder, calls, from, sent>>
  BY DEF Leave
<1>2. /\ \A ch \in Channels : InLine(waiting', ch, Begun(ch)', calls'[ch])
      /\ \A t \in Sockets : /\ Due(waiting, holder.served, t, Begun(Channel(t)))
                                 = Begun(Channel(t))
                            /\ Due(waiting', holder'.served, t, Begun(Channel(t))')
                                 = Begun(Channel(t))
  BY <1>1, ReleaseFeeds
<1>3. \A t \in Sockets : t \in connections'[Channel(t)] => t \in connections[Channel(t)]
  BY <1>1, FeedTypes, SocketChannel
<1> QED
  BY <1>1, <1>2, <1>3, FeedDue

LEMMA FinishFeeds ==
  ASSUME FeedInv, LiveInv', NEW p, Finish(p)
  PROVE  FeedInv'
<1> DEFINE rest == Tail(waiting)
           begun == [ch \in Channels |-> IF rest # <<>> /\ IsPost(rest[1], ch)
                                         THEN Begun(ch) + 1 ELSE Begun(ch)]
<1>1. /\ Holds(p) /\ Targets(p) = {} /\ holder' = Idle
      /\ connections' = [connections EXCEPT ![waiting[1].channel] = @ \ holder.failed]
      /\ Proceed(p, posts[p].kind, Tail(posts[p].left), rest, connections')
      /\ UNCHANGED <<handler, reach, unread, from, sent>>
  BY DEF Finish
<1>2. /\ p \in DOMAIN posts /\ posts[p] \in PostRow /\ posts[p].left # <<>>
      /\ waiting[1].channel \in Channels
  BY <1>1, FeedTypes, PostStands
<1>3. posts[p].kind \in Kinds /\ Tail(posts[p].left) \in Seq(Channels)
  <2>1. posts[p].kind \in Kinds /\ posts[p].left \in Seq(Channels)
    BY <1>2 DEF PostRow
  <2> QED
    BY <1>2, <2>1, HeadTailProperties
<1>4. posts \in Seq(PostRow) /\ p \in 1..Len(posts) + 1
  <2>1. posts \in Seq(PostRow)
    BY FeedTypes DEF LiveInv, HubTypes
  <2> QED
    BY <1>2, <2>1, LenProperties
<1>5. waiting # <<>> /\ waiting[1].kind = "post"
  BY <1>1, FeedTypes, HeadStands DEF Holds
<1>6. rest \in Seq(TaskRow)
  BY <1>5, FeedTypes, TailOf
<1>7. \A ch \in Channels : InLine(rest, ch, begun[ch], calls[ch])
  BY <1>5, MovedLines
<1>8. \A s \in Sockets : Due(rest, {}, s, begun[Channel(s)]) = Begun(Channel(s))
  <2> SUFFICES ASSUME NEW s \in Sockets
               PROVE  Due(rest, {}, s, begun[Channel(s)]) = Begun(Channel(s))
    OBVIOUS
  <2>1. Channel(s) \in Channels /\ Begun(Channel(s)) \in Nat
    BY FeedTypes, SocketChannel
  <2>2. begun[Channel(s)] = IF rest # <<>> /\ IsPost(rest[1], Channel(s))
                            THEN Begun(Channel(s)) + 1 ELSE Begun(Channel(s))
    BY <2>1
  <2> HIDE DEF begun, rest
  <2> QED
    BY <2>1, <2>2, DueMoves
<1>9. calls' \in [Channels -> Nat]
  BY DEF LiveInv, HubTypes
<1> HIDE DEF rest, begun
<1>10. PICK left \in Seq(Channels) : Proceeded(p, posts[p].kind, left, rest)
  BY <1>1, <1>3, <1>4, <1>6, FeedTypes, ProceedResult
<1>11. /\ \A ch \in Channels : InLine(waiting', ch, Begun(ch)', calls'[ch])
       /\ \A s \in Sockets : Due(waiting', {}, s, Begun(Channel(s))')
                               = Due(rest, {}, s, begun[Channel(s)])
  <2>1. Lined(rest, {}, begun)
    BY <1>7 DEF Lined
  <2>2. calls \in [Channels -> Nat]
    BY FeedTypes
  <2> QED
    BY <1>6, <1>9, <1>10, <2>1, <2>2, ProceedLine
<1>12. \A s \in Sockets : s \in connections[Channel(s)]
         => Due(waiting, holder.served, s, Begun(Channel(s))) = Begun(Channel(s))
  BY <1>1 DEF Due, IsPost, Targets
<1>13. \A s \in Sockets : s \in connections'[Channel(s)] => s \in connections[Channel(s)]
  BY <1>1, <1>2, FeedTypes, SocketChannel
<1>14. holder'.served = {}
  BY <1>1 DEF Idle
<1> QED
  BY <1>1, <1>8, <1>11, <1>12, <1>13, <1>14, FeedDue

LEMMA SendFeeds ==
  ASSUME FeedInv, LiveInv', NEW p, NEW s \in Sockets, Send(p, s)
  PROVE  FeedInv'
<1>1. /\ UNCHANGED <<connections, waiting, reach, calls, from>>
      /\ Holds(p) /\ s \in Targets(p)
  BY DEF Send
<1>2. /\ waiting # <<>> /\ waiting[1].kind = "post" /\ waiting[1].n \in Nat
      /\ s \in connections[Channel(s)] /\ s \notin holder.served
      /\ waiting[1].channel = Channel(s)
  <2>1. /\ waiting # <<>> /\ waiting[1].kind = "post" /\ waiting[1].n \in Nat
        /\ waiting[1].channel \in Channels
    BY <1>1, FeedTypes, HeadStands, PostStands DEF Holds
  <2>2. s \in connections[waiting[1].channel] /\ s \notin holder.served
    BY <1>1 DEF Targets
  <2>3. waiting[1].channel = Channel(s)
    BY <2>1, <2>2, FeedTypes DEF LiveInv, HubTypes
  <2> QED
    BY <2>1, <2>2, <2>3
<1>3. Begun(Channel(s)) \in Nat /\ waiting[1].n = Begun(Channel(s))
  BY <1>2, FeedTypes, SocketChannel DEF InLine, IsPost
<1>4. \A ch : Begun(ch)' = Begun(ch)
  BY <1>1 DEF Begun
<1>5. holder'.served = holder.served \cup {s}
  <2>1. holder \in [served: SUBSET Sockets, failed: SUBSET Sockets]
    BY FeedTypes DEF LiveInv, HubTypes
  <2> QED
    BY <2>1 DEF Send, SendText, SendFails, SendSkips, Served
<1>6. \A t \in Sockets : t # s => Due(waiting', holder'.served, t, Begun(Channel(t))')
                                    = Due(waiting, holder.served, t, Begun(Channel(t)))
  BY <1>1, <1>4, <1>5 DEF Due
<1>7. /\ Due(waiting, holder.served, s, Begun(Channel(s))) = Begun(Channel(s)) - 1
      /\ Due(waiting', holder'.served, s, Begun(Channel(s))') = Begun(Channel(s))
  BY <1>1, <1>2, <1>4, <1>5 DEF Due, IsPost
<1>8. Fed'
  <2>1. \A t \in Sockets :
          /\ \A i \in DOMAIN sent[t] : sent[t][i] = from[t] + i
          /\ t \in connections[Channel(t)] /\ reach[t] \in {"up", "stalled"} =>
               from[t] + Len(sent[t]) = Due(waiting, holder.served, t, Begun(Channel(t)))
    BY FeedTypes DEF Fed
  <2>2. CASE SendText(p, s)
    <3>1. /\ sent' = [sent EXCEPT ![s] = Append(@, waiting[1].n)]
          /\ reach[s] \in {"up", "stalled"}
      BY <2>2 DEF SendText, HasRoom
    <3>2. sent[s] \in Seq(Nat) /\ from[s] \in Nat
      BY FeedTypes
    <3>3. /\ sent'[s] = Append(sent[s], waiting[1].n)
          /\ \A t \in Sockets : t # s => sent'[t] = sent[t]
      BY <3>1, FeedTypes
    <3>4. from[s] + Len(sent[s]) = Begun(Channel(s)) - 1
      BY <1>2, <1>7, <2>1, <3>1
    <3>5. /\ Len(sent'[s]) = Len(sent[s]) + 1 /\ Len(sent[s]) \in Nat
          /\ DOMAIN sent'[s] = DOMAIN sent[s] \cup {Len(sent[s]) + 1}
          /\ \A i \in DOMAIN sent[s] : sent'[s][i] = sent[s][i]
          /\ sent'[s][Len(sent[s]) + 1] = waiting[1].n
      BY <1>2, <3>2, <3>3, AppendOf, LenProperties
    <3>m. from[s] + (Len(sent[s]) + 1) = Begun(Channel(s))
      <4> DEFINE b == Begun(Channel(s))
                 n == Len(sent[s])
      <4>1. b \in Nat /\ n \in Nat /\ from[s] + n = b - 1 /\ from[s] \in Nat
        BY <1>3, <3>2, <3>4, <3>5
      <4> HIDE DEF b, n
      <4>2. from[s] + (n + 1) = b
        BY <4>1
      <4> QED
        BY <4>2 DEF b, n
    <3>6. \A i \in DOMAIN sent'[s] : sent'[s][i] = from[s] + i
      <4> SUFFICES ASSUME NEW i \in DOMAIN sent'[s] PROVE sent'[s][i] = from[s] + i
        OBVIOUS
      <4>1. CASE i \in DOMAIN sent[s]
        <5>1. sent'[s][i] = sent[s][i] /\ sent[s][i] = from[s] + i
          BY <2>1, <3>5, <4>1
        <5> QED
          BY <5>1
      <4>2. CASE i = Len(sent[s]) + 1
        <5>1. sent'[s][i] = waiting[1].n /\ from[s] + i = Begun(Channel(s))
          BY <3>5, <3>m, <4>2
        <5> QED
          BY <1>3, <5>1
      <4> QED
        BY <3>5, <4>1, <4>2
    <3>7. from[s] + Len(sent'[s]) = Begun(Channel(s))
      BY <3>5, <3>m
    <3> QED
      BY <1>1, <1>6, <1>7, <2>1, <3>3, <3>6, <3>7 DEF Fed
  <2>3. CASE SendFails(s) \/ SendSkips(s)
    <3>1. sent' = sent /\ reach[s] = "lost"
      BY <2>3, FeedTypes DEF SendFails, SendSkips, LiveInv, SocketsKnown
    <3> QED
      BY <1>1, <1>6, <2>1, <3>1 DEF Fed
  <2> QED
    BY <2>2, <2>3 DEF Send
<1>9. \A ch \in Channels : InLine(waiting', ch, Begun(ch)', calls'[ch])
  BY <1>1, <1>4, FeedTypes
<1> QED
  BY <1>1, <1>8, <1>9, FeedTypes DEF FeedInv
----------------------------------------------------------------------------
(* The client and the network touch no line. *)
LEMMA ConnectFeeds ==
  ASSUME FeedInv, LiveInv', NEW channels \in SUBSET Channels, ConnectChannels(channels),
         ServerUnchanged
  PROVE  FeedInv'
<1>1. PICK fresh : Connected(fresh, channels)
  BY FeedTypes, ConnectResult
<1>2. \A s \in fresh : s \notin connections[Channel(s)]
  BY <1>1, FeedTypes DEF Connected, LiveInv, SocketsKnown, Newcomer
<1>3. \A s \in Sockets \ fresh : reach'[s] = reach[s]
  BY <1>1 DEF Connected
<1>4. UNCHANGED <<connections, waiting, calls, holder, from, sent>>
  BY DEF ServerUnchanged
<1> QED
  BY <1>2, <1>3, <1>4, FeedAside

LEMMA ReachFeeds ==
  ASSUME FeedInv, LiveInv', NEW s \in Sockets, NEW value, Reach(s, value),
         reach[s] \in {"up", "stalled"}
  PROVE  FeedInv'
<1>1. /\ reach' = [reach EXCEPT ![s] = value]
      /\ UNCHANGED <<connections, waiting, calls, holder, from, sent>>
  BY DEF Reach
<1>2. \A t \in Sockets : reach'[t] \in {"up", "stalled"} => reach[t] \in {"up", "stalled"}
  BY <1>1, FeedTypes DEF LiveInv, HubTypes
<1> QED
  BY <1>1, <1>2, FeedAside

LEMMA FeedInvKept ==
  ASSUME FeedInv, [LiveNext]_liveVars
  PROVE  FeedInv'
<1>1. LiveInv'
  BY FeedTypes, LiveInvKept
<1>2. CASE Reports
  BY <1>1, <1>2, PostFeeds DEF Reports
<1>3. CASE Hub(BroadcastStep)
  BY <1>1, <1>3, FinishFeeds, SendFeeds DEF Hub, BroadcastStep
<1>4. ASSUME NEW s \in Sockets, HandlerStep(s) PROVE FeedInv'
  <2>1. CASE Accept(s)
    <3>1. UNCHANGED <<connections, reach, holder, calls, from, sent>>
      BY <2>1 DEF Accept
    <3>2. CASE UNCHANGED waiting
      BY <1>1, <3>1, <3>2, FeedAside
    <3>3. CASE Await(s, "joining", "join")
      BY <1>1, <3>1, <3>3, AwaitFeeds
    <3> QED
      BY <2>1, <3>2, <3>3 DEF Accept
  <2>2. CASE ReceiveDisconnect(s)
    BY <1>1, <2>2, AwaitFeeds DEF ReceiveDisconnect
  <2> QED
    BY <1>1, <1>4, <2>1, <2>2, JoinFeeds, LeaveFeeds DEF HandlerStep
<1>5. CASE Connect \/ \E ch \in Channels : Reconnect(ch)
  BY <1>1, <1>5, ConnectFeeds DEF Connect, Reconnect
<1>6. ASSUME NEW s \in Sockets, SocketStep(s) PROVE FeedInv'
  <2>1. UNCHANGED <<connections, waiting, reach, calls, holder, from, sent>>
    BY <1>6 DEF SocketStep, OnOpen, OnClose, OnMessage, hubVars
  <2> QED
    BY <1>1, <2>1, FeedAside
<1>7. ASSUME NEW s \in Sockets, Fault(s) \/ PingTimeout(s) PROVE FeedInv'
  BY <1>1, <1>7, ReachFeeds DEF Fault, PingTimeout
<1>8. CASE UNCHANGED liveVars
  <2>1. UNCHANGED <<connections, waiting, reach, calls, holder, from, sent>>
    BY <1>8 DEF liveVars, hubVars
  <2> QED
    BY <1>1, <2>1, FeedAside
<1> QED
  BY <1>2, <1>3, <1>4, <1>5, <1>6, <1>7, <1>8 DEF LiveNext, Mounts, Hub, Client

LEMMA FedInitially == LiveInit => FeedInv
<1> SUFFICES ASSUME LiveInit PROVE FeedInv
  OBVIOUS
<1>1. HubInit /\ LiveInv
  BY LiveInitially DEF LiveInit
<1>2. waiting = <<>> /\ calls \in [Channels -> Nat] /\ \A ch \in Channels : calls[ch] = 0
  BY <1>1 DEF HubInit
<1>3. \A ch : Queued(waiting, ch) = {}
  <2>1. 2..Len(waiting) = {}
    BY <1>2
  <2> QED
    BY <2>1 DEF Queued
<1>4. \A ch \in Channels : Begun(ch) = 0
  <2>1. \A ch : Cardinality(Queued(waiting, ch)) = 0
    BY <1>3, FS_EmptySet
  <2>2. \A ch \in Channels : Begun(ch) = 0 - 0
    BY <1>2, <2>1 DEF Begun
  <2> QED
    BY <2>2
<1>5. \A ch \in Channels : InLine(waiting, ch, Begun(ch), calls[ch])
  <2>1. 0 + 1..0 = {} /\ DOMAIN waiting = {}
    BY <1>2
  <2>2. \A ch : InLine(waiting, ch, 0, 0)
    BY <1>2, <1>3, <2>1 DEF InLine
  <2> QED
    BY <1>2, <1>4, <2>2
<1>6. Fed /\ from \in [Sockets -> Nat]
  BY <1>1, SocketChannel DEF HubInit, Fed
<1> QED
  BY <1>1, <1>5, <1>6 DEF FeedInv

(* Whatever posts, sockets that come and go, and connections that stall or are lost do to
   the lock: a socket is sent the broadcasts of its channel in their order and without a
   gap from the first that began after it joined, and once a broadcast is past a socket
   whose connection holds, that socket has everything up to it. *)
THEOREM FeedHasNoGaps == LiveSpec => []NoGaps
<1>1. FeedInv => NoGaps
  <2> SUFFICES ASSUME FeedInv, NEW s \in Sockets,
                      s \in connections[Channel(s)], reach[s] \in {"up", "stalled"}, ~Awaits(s)
               PROVE  from[s] + Len(sent[s]) = Begun(Channel(s))
    BY FeedTypes DEF NoGaps, Fed
  <2>1. from[s] + Len(sent[s]) = Due(waiting, holder.served, s, Begun(Channel(s)))
    BY FeedTypes DEF Fed
  <2>2. ASSUME waiting # <<>>, IsPost(waiting[1], Channel(s)), s \notin holder.served
        PROVE  FALSE
    <3> DEFINE p == waiting[1].who
    <3>1. HasLock("post", p)
      BY <2>2 DEF HasLock, IsPost
    <3>2. Holds(p) /\ s \in Targets(p)
      BY <2>2, <3>1 DEF Holds, Targets, IsPost
    <3>3. p \in DOMAIN posts
      BY <3>2, FeedTypes, PostStands
    <3> QED
      BY <3>2, <3>3 DEF Awaits
  <2> QED
    BY <2>1, <2>2 DEF Due
<1> QED
  BY <1>1, FedInitially, FeedInvKept, PTL DEF LiveSpec
=============================================================================
