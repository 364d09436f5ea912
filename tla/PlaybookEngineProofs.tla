------------------------ MODULE PlaybookEngineProofs ------------------------
(***************************************************************************)
(* Proofs about PlaybookEngine, for any playbooks, events and runs, and    *)
(* any number of edits.                                                    *)
(***************************************************************************)
EXTENDS PlaybookEngine, FiniteSetTheorems, SequenceTheorems, TLAPS

(* Where a run is says what it holds. *)
Placed ==
  \A r \in Runs :
    /\ at[r] \in {"acting", "recording"} => todo[r] # <<>> /\ step[r] # 0
    /\ at[r] \in {"new", "found"} => todo[r] = <<>>
    /\ at[r] = "new" => about[r] = NoEvent

(* Ids in use are given ids, so that a new one is not in use. *)
IdsGiven == \A i \in DOMAIN listing : listing[i] <= given

PlaybookTypes == PlaybookTypeOK /\ Placed /\ IdsGiven

(* What a run that still holds an event has read is no less than the severity the event
   was stored with, but for the events NeverBelowReport excepts. *)
ReadsReport ==
  \A r \in Runs : \A e \in Events \ (tested \cup mistaken) :
    Holds(r, e) => /\ read[r] >= reported[e]
                   /\ at[r] # "found" => context[r] >= reported[e]

SeverityInv == PlaybookTypes /\ ReadsReport /\ NeverBelowReport

(* What a run adds to the counters of the ith of its copies: only the first is running. *)
Adds(r, i, k) == IF i = 1 THEN tally[r][k] ELSE 0

(* What a run has read and counted is in the history of executions. *)
CopiesCovered ==
  \A r \in Runs : \A i \in DOMAIN todo[r] :
    todo[r][i].id \notin inherited =>
      /\ todo[r][i].success + Adds(r, i, 1) <= rows[todo[r][i].id]["success"]
      /\ todo[r][i].failure + Adds(r, i, 2) <= rows[todo[r][i].id]["failed"]

(* A run that nothing aborted and that has a playbook for itself has all of its history. *)
CopiesExact ==
  \A r \in Runs : \A i \in DOMAIN todo[r] :
    todo[r][i].id \notin inherited \cup contested /\ at[r] # "aborted" =>
      /\ todo[r][i].success + Adds(r, i, 1) = rows[todo[r][i].id]["success"]
      /\ todo[r][i].failure + Adds(r, i, 2) = rows[todo[r][i].id]["failed"]

(* What no two runs had at one time, one run has, and once. *)
Sole ==
  \A r, q \in Runs : \A i \in DOMAIN todo[r], j \in DOMAIN todo[q] :
    todo[r][i].id = todo[q][j].id /\ todo[r][i].id \notin contested => r = q /\ i = j

Books == CountersTrue /\ CopiesCovered /\ CopiesExact /\ Sole

CounterInv == PlaybookTypes /\ Books
----------------------------------------------------------------------------
(* The types of the tables and histories, and those of the runs. *)
TableTypes ==
  /\ listing \in Seq(Ids) /\ \A i, j \in DOMAIN listing : i # j => listing[i] # listing[j]
  /\ DOMAIN playbooks = Elems(listing)
  /\ \A b \in DOMAIN playbooks :
       playbooks[b] \in [form : Form, enabled : BOOLEAN, success : Nat, failure : Nat]
  /\ given \in Nat /\ IdsGiven

HistoryTypes ==
  /\ severity \in [Events -> 0..4]
  /\ rows \in [Ids -> [Statuses -> Nat]]
  /\ tested \subseteq Events
  /\ edits \in 0..MaxEdits
  /\ contested \subseteq Ids /\ inherited \subseteq Ids
  /\ peak \in [Events -> Severities] /\ reported \in [Events -> Severities]
  /\ mistaken \subseteq Events

RunTypes ==
  /\ at \in [Runs -> Stages]
  /\ about \in [Runs -> Events \cup {NoEvent}]
  /\ read \in [Runs -> 0..4]
  /\ todo \in [Runs -> Seq(Copies)]
  /\ step \in [Runs -> Nat]
  /\ context \in [Runs -> 0..4]
  /\ result \in [Runs -> Statuses]
  /\ tally \in [Runs -> Nat \X Nat]
  /\ Placed

LEMMA TypesParts == PlaybookTypes <=> TableTypes /\ HistoryTypes /\ RunTypes
BY DEF PlaybookTypes, PlaybookTypeOK, TableTypes, HistoryTypes, RunTypes

LEMMA TypesPartsAfter ==
  ASSUME TableTypes', HistoryTypes', RunTypes'
  PROVE  PlaybookTypes'
BY DEF PlaybookTypes, PlaybookTypeOK, TableTypes, HistoryTypes, RunTypes

LEMMA InitTypes == PlaybookInit => PlaybookTypes
<1>. SUFFICES ASSUME PlaybookInit
              PROVE  PlaybookTypes
  OBVIOUS
<1>. DEFINE n == Len(Founding)
<1>1. Founding \in Seq(Form) /\ n \in Nat /\ DOMAIN Founding = 1..n
  BY PlaybookAssumption, LenProperties
<1>2. listing \in [1..n -> 1..n] /\ Elems(listing) = 1..n
  BY <1>1 DEF PlaybookInit
<1>3. \A i, j \in 1..n : i # j => listing[i] # listing[j]
  <2>1. listing \in Surjection(1..n, 1..n)
    BY <1>2 DEF Surjection, Elems
  <2>2. listing \in Injection(1..n, 1..n)
    BY <1>1, <2>1, FS_Interval, FS_SurjSameCardinalityImpliesInj
  <2>3. QED
    BY <2>2 DEF Injection, IsInjective
<1>4. listing \in Seq(Ids) /\ DOMAIN listing = 1..n
  BY <1>1, <1>2, PlaybookAssumption, IsASeq, SeqMonotonic
<1>5. TableTypes
  <2>1. DOMAIN playbooks = Elems(listing)
    BY <1>1, <1>2 DEF PlaybookInit
  <2>2. \A b \in DOMAIN playbooks :
          playbooks[b] \in [form : Form, enabled : BOOLEAN, success : Nat, failure : Nat]
    BY <1>1, ElementOfSeq DEF PlaybookInit, NewRow
  <2>3. given \in Nat /\ IdsGiven
    BY <1>1, <1>2 DEF PlaybookInit, IdsGiven
  <2>4. QED
    BY <1>3, <1>4, <2>1, <2>2, <2>3 DEF TableTypes
<1>6. HistoryTypes
  <2>1. Reported \subseteq 1..4
    BY PlaybookAssumption DEF Severities
  <2>2. severity \in [Events -> 1..4] /\ severity \in [Events -> 0..4]
    <3>1. severity \in [Events -> Reported]
      BY DEF PlaybookInit
    <3>2. \A e \in Events : severity[e] \in Reported
      BY <3>1
    <3>3. Reported \subseteq 0..4
      BY <2>1
    <3>4. QED
      BY <2>1, <3>1, <3>2, <3>3
  <2>3. rows \in [Ids -> [Statuses -> Nat]] /\ edits \in 0..MaxEdits
    BY PlaybookAssumption DEF PlaybookInit, NoRows
  <2>4. QED
    BY <2>2, <2>3 DEF PlaybookInit, HistoryTypes, Severities
<1>7. RunTypes
  BY EmptySeq DEF PlaybookInit, RunTypes, Placed, Stages, Statuses
<1>8. QED
  BY <1>5, <1>6, <1>7, TypesParts
----------------------------------------------------------------------------
(* What a run that is running has in its hands. *)
LEMMA CurrentTyped ==
  ASSUME PlaybookTypes, NEW r \in Runs, at[r] \in {"acting", "recording"}
  PROVE  /\ Current(r) = todo[r][1] /\ Current(r) \in Copies
         /\ 1 \in DOMAIN todo[r] /\ Len(todo[r]) \in Nat \ {0}
         /\ Tail(todo[r]) \in Seq(Copies) /\ Len(Tail(todo[r])) = Len(todo[r]) - 1
         /\ \A i \in DOMAIN Tail(todo[r]) : /\ i \in Nat \ {0} /\ i + 1 \in DOMAIN todo[r]
                                            /\ Tail(todo[r])[i] = todo[r][i + 1]
         /\ Actions(r) \in Seq(Severities \cup {Effect})
         /\ step[r] \in Nat \ {0}
<1>1. todo[r] \in Seq(Copies) /\ todo[r] # <<>> /\ step[r] \in Nat \ {0}
  BY DEF PlaybookTypes, PlaybookTypeOK, Placed
<1>2. Current(r) = todo[r][1] /\ Current(r) \in Copies
  BY <1>1, HeadTailProperties DEF Current
<1>3. Actions(r) \in Seq(Severities \cup {Effect})
  BY <1>2 DEF Actions, Copies, Form
<1>4. /\ 1 \in DOMAIN todo[r] /\ Len(todo[r]) \in Nat \ {0}
      /\ Tail(todo[r]) \in Seq(Copies) /\ Len(Tail(todo[r])) = Len(todo[r]) - 1
      /\ \A i \in DOMAIN Tail(todo[r]) : /\ i \in Nat \ {0} /\ i + 1 \in DOMAIN todo[r]
                                         /\ Tail(todo[r])[i] = todo[r][i + 1]
  BY <1>1, HeadTailProperties, LenProperties, EmptySeq
<1>5. QED
  BY <1>1, <1>2, <1>3, <1>4

LEMMA ActionTyped ==
  ASSUME PlaybookTypes, NEW r \in Runs, at[r] = "acting", step[r] <= Len(Actions(r)),
         ActionOf(r) # Effect
  PROVE  ActionOf(r) \in Severities
<1>1. Actions(r) \in Seq(Severities \cup {Effect}) /\ step[r] \in Nat \ {0}
  BY CurrentTyped
<1>2. ActionOf(r) \in Severities \cup {Effect}
  BY <1>1, ElementOfSeq, LenProperties DEF ActionOf
<1>3. QED
  BY <1>2

(* A sequence of playbooks in the listing's order has none twice. *)
LEMMA OrderedOnce ==
  ASSUME PlaybookTypes, NEW bs \in SUBSET DOMAIN playbooks, NEW s \in Ordered(bs)
  PROVE  /\ s \in Seq(bs)
         /\ \A i, j \in DOMAIN s : i # j => s[i] # s[j]
<1>1. \A i, j \in DOMAIN listing : listing[i] = listing[j] => i = j
  BY DEF PlaybookTypes, PlaybookTypeOK
<1>2. listing \in Seq(Ids) /\ \A i \in DOMAIN listing : i \in Nat
  BY LenProperties DEF PlaybookTypes, PlaybookTypeOK
<1>3. \A b : ~Before(b, b)
  BY <1>1, <1>2 DEF Before
<1>4. IsFiniteSet(bs)
  <2>1. bs \subseteq Ids
    BY ElementOfSeq DEF PlaybookTypes, PlaybookTypeOK, Elems
  <2>2. QED
    BY <2>1, FS_Subset, PlaybookAssumption
<1>5. Cardinality(bs) \in Nat
  BY <1>4, FS_CardinalityType
<1>6. s \in [1..Cardinality(bs) -> bs] /\ \A i, j \in DOMAIN s : i < j => Before(s[i], s[j])
  BY DEF Ordered
<1>7. s \in Seq(bs)
  BY <1>5, <1>6, IsASeq
<1>8. \A i, j \in DOMAIN s : i # j => s[i] # s[j]
  BY <1>3, <1>5, <1>6
<1>9. QED
  BY <1>7, <1>8

LEMMA CopyTyped ==
  ASSUME PlaybookTypes, NEW b \in DOMAIN playbooks
  PROVE  CopyOf(b) \in Copies /\ b \in Ids
<1>1. b \in Ids
  BY ElementOfSeq DEF PlaybookTypes, PlaybookTypeOK, Elems
<1>2. QED
  BY <1>1 DEF PlaybookTypes, PlaybookTypeOK, CopyOf, Copies

(* Copies are of playbooks that are there, each once. *)
LEMMA CopiesTyped ==
  ASSUME PlaybookTypes, NEW bs \in SUBSET DOMAIN playbooks, NEW copies \in CopiesOf(bs)
  PROVE  /\ copies \in Seq(Copies)
         /\ \A i \in DOMAIN copies : /\ copies[i].id \in DOMAIN playbooks
                                     /\ copies[i] = CopyOf(copies[i].id)
         /\ \A i, j \in DOMAIN copies : i # j => copies[i].id # copies[j].id
<1>. DEFINE on == {b \in bs : playbooks[b].enabled}
<1>1. PICK s \in Ordered(on) : copies = [i \in DOMAIN s |-> CopyOf(s[i])]
  BY DEF CopiesOf
<1>2. s \in Seq(on) /\ \A i, j \in DOMAIN s : i # j => s[i] # s[j]
  BY OrderedOnce
<1>3. \A i \in DOMAIN s : s[i] \in DOMAIN playbooks
  BY <1>2, ElementOfSeq, LenProperties
<1>4. /\ DOMAIN copies = DOMAIN s
      /\ \A i \in DOMAIN s : copies[i] = CopyOf(s[i]) /\ copies[i].id = s[i]
  BY <1>1 DEF CopyOf
<1>5. copies \in Seq(Copies)
  <2>1. copies \in [1..Len(s) -> Copies]
    BY <1>1, <1>2, <1>3, CopyTyped, LenProperties
  <2>2. QED
    BY <1>2, <2>1, IsASeq, LenProperties
<1>6. QED
  BY <1>2, <1>3, <1>4, <1>5
----------------------------------------------------------------------------
(* The listing without a playbook, and with it in front. *)
LEMMA OthersListed ==
  ASSUME PlaybookTypes, NEW b \in DOMAIN playbooks
  PROVE  /\ OthersThan(b) \in Seq(Ids)
         /\ \A i, j \in DOMAIN OthersThan(b) : i # j => OthersThan(b)[i] # OthersThan(b)[j]
         /\ Elems(OthersThan(b)) = DOMAIN playbooks \ {b}
<1>. DEFINE n == Len(listing)
            p == PlaceOf(b)
            from(i) == IF i < p THEN i ELSE i + 1
<1>1. listing \in Seq(Ids) /\ n \in Nat /\ DOMAIN listing = 1..n
      /\ \A i, j \in 1..n : i # j => listing[i] # listing[j]
  BY LenProperties DEF PlaybookTypes, PlaybookTypeOK
<1>2. DOMAIN playbooks = Elems(listing)
  BY DEF PlaybookTypes, PlaybookTypeOK
<1>3. p \in 1..n /\ listing[p] = b
  BY <1>1, <1>2 DEF Elems, PlaceOf
<1>4. /\ DOMAIN OthersThan(b) = 1..(n - 1)
      /\ \A i \in 1..(n - 1) : OthersThan(b)[i] = listing[from(i)] /\ from(i) \in (1..n) \ {p}
  BY <1>1, <1>3 DEF OthersThan
<1>5. OthersThan(b) \in Seq(Ids)
  <2>1. OthersThan(b) \in [1..(n - 1) -> Ids]
    BY <1>1, <1>3, <1>4, ElementOfSeq DEF OthersThan
  <2>2. n - 1 \in Nat
    BY <1>1, <1>3
  <2>3. QED
    BY <2>1, <2>2, IsASeq
<1>6. \A i, j \in 1..(n - 1) : i # j => OthersThan(b)[i] # OthersThan(b)[j]
  <2>1. \A i, j \in 1..(n - 1) : i # j => from(i) # from(j)
    BY <1>1, <1>3
  <2>2. QED
    BY <1>1, <1>4, <2>1
<1>7. ASSUME NEW c \in DOMAIN playbooks \ {b}
      PROVE  c \in Elems(OthersThan(b))
  <2>1. PICK k \in 1..n : listing[k] = c
    BY <1>1, <1>2 DEF Elems
  <2>2. PICK i \in 1..(n - 1) : from(i) = k
    <3>1. k # p
      BY <1>3, <2>1
    <3>2. CASE k < p
      BY <1>1, <1>3, <2>1, <3>2
    <3>3. CASE k > p
      <4>1. k - 1 \in 1..(n - 1) /\ from(k - 1) = k
        BY <1>1, <1>3, <2>1, <3>3
      <4>2. QED
        BY <4>1
    <3>4. QED
      BY <1>1, <1>3, <3>1, <3>2, <3>3
  <2>3. QED
    BY <1>4, <2>1, <2>2 DEF Elems
<1>8. ASSUME NEW c \in Elems(OthersThan(b))
      PROVE  c \in DOMAIN playbooks \ {b}
  <2>1. PICK i \in 1..(n - 1) : c = listing[from(i)] /\ from(i) \in (1..n) \ {p}
    BY <1>4, <1>8 DEF Elems
  <2>2. c # b
    BY <1>1, <1>3, <2>1
  <2>3. QED
    BY <1>1, <1>2, <2>1, <2>2 DEF Elems
<1>9. QED
  BY <1>4, <1>5, <1>6, <1>7, <1>8

(* A playbook put before others. *)
LEMMA InFront ==
  ASSUME NEW s \in Seq(Ids), NEW b \in Ids \ Elems(s),
         \A i, j \in DOMAIN s : i # j => s[i] # s[j]
  PROVE  /\ <<b>> \o s \in Seq(Ids)
         /\ \A i, j \in DOMAIN (<<b>> \o s) : i # j => (<<b>> \o s)[i] # (<<b>> \o s)[j]
         /\ Elems(<<b>> \o s) = Elems(s) \cup {b}
<1>. DEFINE t == <<b>> \o s
            n == Len(s)
<1>1. n \in Nat /\ DOMAIN s = 1..n
  BY LenProperties
<1>2. t \in Seq(Ids) /\ DOMAIN t = 1..(n + 1)
  BY <1>1
<1>3. t[1] = b /\ \A i \in 2..(n + 1) : t[i] = s[i - 1]
  BY <1>1
<1>4. \A i, j \in 1..(n + 1) : i # j => t[i] # t[j]
  <2>1. \A i \in 2..(n + 1) : i - 1 \in 1..n /\ t[i] # b
    BY <1>1, <1>3 DEF Elems
  <2>2. ASSUME NEW i \in 2..(n + 1), NEW j \in 2..(n + 1), i # j
        PROVE  t[i] # t[j]
    <3>1. t[i] = s[i - 1] /\ t[j] = s[j - 1] /\ i - 1 \in 1..n /\ j - 1 \in 1..n
      BY <1>3, <2>1
    <3>2. i - 1 # j - 1
      BY <2>2
    <3>3. QED
      BY <1>1, <3>1, <3>2
  <2>3. \A i \in 1..(n + 1) : i = 1 \/ i \in 2..(n + 1)
    BY <1>1
  <2>4. QED
    BY <1>3, <2>1, <2>2, <2>3
<1>5. Elems(t) = Elems(s) \cup {b}
  <2>1. ASSUME NEW c \in Elems(t)
        PROVE  c \in Elems(s) \cup {b}
    <3>1. PICK i \in 1..(n + 1) : c = t[i]
      BY <1>2, <2>1 DEF Elems
    <3>2. i = 1 \/ (i \in 2..(n + 1) /\ i - 1 \in 1..n)
      BY <1>1
    <3>3. QED
      BY <1>1, <1>3, <3>1, <3>2 DEF Elems
  <2>2. ASSUME NEW i \in 1..n
        PROVE  s[i] \in Elems(t)
    <3>1. i + 1 \in 2..(n + 1) /\ (i + 1) - 1 = i
      BY <1>1
    <3>2. t[i + 1] = s[i]
      BY <1>3, <3>1
    <3>3. \A k \in 1..(n + 1) : t[k] \in Elems(t)
      BY <1>2 DEF Elems
    <3>4. i + 1 \in 1..(n + 1)
      BY <1>1
    <3>5. QED
      BY <3>2, <3>3, <3>4
  <2>3. b \in Elems(t)
    BY <1>1, <1>2, <1>3 DEF Elems
  <2>4. QED
    BY <1>1, <2>1, <2>2, <2>3 DEF Elems
<1>6. QED
  BY <1>2, <1>4, <1>5

LEMMA FrontListed ==
  ASSUME PlaybookTypes, NEW b \in DOMAIN playbooks
  PROVE  /\ MoveToFront(b) \in Seq(Ids)
         /\ \A i, j \in DOMAIN MoveToFront(b) : i # j => MoveToFront(b)[i] # MoveToFront(b)[j]
         /\ Elems(MoveToFront(b)) = DOMAIN playbooks
BY OthersListed, InFront, CopyTyped DEF MoveToFront
----------------------------------------------------------------------------
(* Every step keeps the types. *)
LEMMA BeginTypes ==
  ASSUME PlaybookTypes, NEW r \in Runs, NEW copies \in Seq(Copies), NEW sev \in 0..4,
         at[r] \in {"new", "found"}, Begin(r, copies, sev),
         about' \in [Runs -> Events \cup {NoEvent}], read' \in [Runs -> 0..4],
         \A q \in Runs \ {r} : about'[q] = about[q],
         UNCHANGED <<result, database, rows, peak, edits>>, tested' \subseteq Events
  PROVE  PlaybookTypes'
<1>1. /\ at' = [at EXCEPT ![r] = IF copies = <<>> THEN "done" ELSE "acting"]
      /\ todo' = [todo EXCEPT ![r] = copies]
      /\ step' = [step EXCEPT ![r] = 1]
      /\ context' = [context EXCEPT ![r] = sev]
      /\ tally' = [tally EXCEPT ![r] = <<0, 0>>]
  BY DEF Begin
<1>2. contested' \subseteq Ids /\ inherited' \subseteq Ids
  <2>1. \A c \in Elems(copies) : c \in Copies
    BY ElementOfSeq DEF Elems
  <2>2. QED
    BY <2>1 DEF Begin, Copies, PlaybookTypes, PlaybookTypeOK
<1>3. RunTypes'
  <2>1. /\ at' \in [Runs -> Stages] /\ step' \in [Runs -> Nat] /\ context' \in [Runs -> 0..4]
        /\ tally' \in [Runs -> Nat \X Nat] /\ result' \in [Runs -> Statuses]
    BY <1>1 DEF PlaybookTypes, PlaybookTypeOK, Stages
  <2>2. todo' \in [Runs -> Seq(Copies)]
    BY <1>1 DEF PlaybookTypes, PlaybookTypeOK
  <2>3. Placed'
    <3>1. ASSUME NEW q \in Runs \ {r}
          PROVE  /\ at'[q] = at[q] /\ todo'[q] = todo[q] /\ step'[q] = step[q]
                 /\ about'[q] = about[q]
      BY <1>1 DEF PlaybookTypes, PlaybookTypeOK
    <3>2. /\ todo'[r] = copies /\ step'[r] = 1
          /\ at'[r] = IF copies = <<>> THEN "done" ELSE "acting"
      BY <1>1 DEF PlaybookTypes, PlaybookTypeOK
    <3>3. QED
      BY <3>1, <3>2 DEF PlaybookTypes, Placed
  <2>4. QED
    BY <2>1, <2>2, <2>3 DEF RunTypes
<1>4. TableTypes'
  BY DEF PlaybookTypes, PlaybookTypeOK, TableTypes, IdsGiven, database
<1>5. HistoryTypes'
  BY <1>2 DEF PlaybookTypes, PlaybookTypeOK, HistoryTypes, database, Begin, past
<1>6. QED
  BY <1>3, <1>4, <1>5, TypesPartsAfter

LEMMA StartTypes ==
  ASSUME PlaybookTypes, UNCHANGED edits, NEW r \in Runs,
         \/ \E e \in Events : FindEvent(r, e)
         \/ MatchPlaybooks(r)
         \/ \E sev \in Samples : RunForCase(r, sev)
         \/ \E b \in Ids, e \in Events, sev \in Samples : RunTest(r, b, e, sev)
  PROVE  PlaybookTypes'
<1>1. /\ about \in [Runs -> Events \cup {NoEvent}] /\ read \in [Runs -> 0..4]
      /\ severity \in [Events -> 0..4] /\ tested \subseteq Events
      /\ Samples \subseteq 0..4
  BY PlaybookAssumption DEF PlaybookTypes, PlaybookTypeOK, Severities
<1>2. ASSUME NEW e \in Events, FindEvent(r, e)
      PROVE  PlaybookTypes'
  <2>1. RunTypes'
    BY <1>1, <1>2 DEF PlaybookTypes, PlaybookTypeOK, RunTypes, Placed, FindEvent, Stages
  <2>2. TableTypes' /\ HistoryTypes'
    BY <1>2 DEF PlaybookTypes, PlaybookTypeOK, TableTypes, HistoryTypes, IdsGiven, FindEvent,
                database, history, past
  <2>3. QED
    BY <2>1, <2>2, TypesPartsAfter
<1>3. CASE MatchPlaybooks(r)
  <2>1. PICK copies \in CopiesOf({b \in DOMAIN playbooks : Matches(b, read[r])}) :
          Begin(r, copies, read[r])
    BY <1>3 DEF MatchPlaybooks
  <2>2. copies \in Seq(Copies)
    BY CopiesTyped
  <2>3. read[r] \in 0..4
    BY <1>1
  <2>4. QED
    BY <1>1, <1>3, <2>1, <2>2, <2>3, BeginTypes DEF MatchPlaybooks
<1>4. ASSUME NEW sev \in Samples, RunForCase(r, sev)
      PROVE  PlaybookTypes'
  <2>1. PICK copies \in CopiesOf(DOMAIN playbooks) : Begin(r, copies, sev)
    BY <1>4 DEF RunForCase
  <2>2. copies \in Seq(Copies)
    BY CopiesTyped
  <2>3. read' \in [Runs -> 0..4] /\ sev \in 0..4
    BY <1>1, <1>4 DEF RunForCase
  <2>4. QED
    BY <1>1, <1>4, <2>1, <2>2, <2>3, BeginTypes DEF RunForCase
<1>5. ASSUME NEW b \in Ids, NEW e \in Events, NEW sev \in Samples, RunTest(r, b, e, sev)
      PROVE  PlaybookTypes'
  <2>1. <<CopyOf(b)>> \in Seq(Copies)
    BY <1>5, CopyTyped DEF RunTest
  <2>2. read' \in [Runs -> 0..4] /\ about' \in [Runs -> Events \cup {NoEvent}] /\ sev \in 0..4
        /\ \A q \in Runs \ {r} : about'[q] = about[q]
    BY <1>1, <1>5 DEF RunTest
  <2>3. QED
    BY <1>1, <1>5, <2>1, <2>2, BeginTypes DEF RunTest
<1>6. QED
  BY <1>2, <1>3, <1>4, <1>5

LEMMA ActionTypes ==
  ASSUME PlaybookTypes, UNCHANGED edits, NEW r \in Runs,
         \/ Escalate(r) \/ SkipEscalation(r) \/ EscalationFails(r)
         \/ \E status \in Statuses : OtherAction(r, status)
  PROVE  PlaybookTypes'
<1>1. PICK status \in Statuses : Having(r, status)
  BY DEF Escalate, SkipEscalation, EscalationFails, OtherAction, Statuses
<1>2. /\ severity' \in [Events -> 0..4] /\ peak' \in [Events -> Severities]
      /\ context' \in [Runs -> 0..4]
  <2>1. /\ severity \in [Events -> 0..4] /\ peak \in [Events -> Severities]
        /\ context \in [Runs -> 0..4]
    BY DEF PlaybookTypes, PlaybookTypeOK
  <2>2. CASE Escalate(r)
    <3>1. ActionOf(r) \in Severities /\ ActionOf(r) \in 0..4
      BY <2>2, ActionTyped DEF Escalate, Having, Severities
    <3>2. QED
      BY <2>1, <2>2, <3>1 DEF Escalate
  <2>3. QED
    BY <2>1, <2>2 DEF SkipEscalation, EscalationFails, OtherAction
<1>3. RunTypes'
  BY <1>1, <1>2 DEF PlaybookTypes, PlaybookTypeOK, RunTypes, Placed, Having, Stages
<1>4. TableTypes' /\ HistoryTypes'
  BY <1>1, <1>2 DEF PlaybookTypes, PlaybookTypeOK, TableTypes, HistoryTypes, IdsGiven, Having, past
<1>5. QED
  BY <1>3, <1>4, TypesPartsAfter
LEMMA RecordTypes ==
  ASSUME PlaybookTypes, UNCHANGED edits, NEW r \in Runs, Record(r)
  PROVE  PlaybookTypes'
<1>1. Current(r).id \in Ids
  BY CurrentTyped DEF Record, Copies
<1>2. rows' \in [Ids -> [Statuses -> Nat]]
  <2>1. rows \in [Ids -> [Statuses -> Nat]] /\ result[r] \in Statuses
    BY DEF PlaybookTypes, PlaybookTypeOK
  <2>2. QED
    BY <1>1, <2>1 DEF Record
<1>3. tally' \in [Runs -> Nat \X Nat]
  BY DEF PlaybookTypes, PlaybookTypeOK, Record
<1>4. RunTypes'
  BY <1>3 DEF PlaybookTypes, PlaybookTypeOK, RunTypes, Placed, Record, Stages
<1>5. TableTypes' /\ HistoryTypes'
  BY <1>2 DEF PlaybookTypes, PlaybookTypeOK, TableTypes, HistoryTypes, IdsGiven, Record, database,
              past
<1>6. QED
  BY <1>4, <1>5, TypesPartsAfter

LEMMA CountTypes ==
  ASSUME PlaybookTypes, UNCHANGED edits, NEW r \in Runs, Count(r)
  PROVE  PlaybookTypes'
<1>. DEFINE b == Current(r).id
            successes == Current(r).success + tally[r][1]
            failures == Current(r).failure + tally[r][2]
<1>1. at[r] = "acting"
  BY DEF Count, WriteCounters
<1>2. successes \in Nat /\ failures \in Nat
  <2>1. Current(r) \in Copies /\ tally[r] \in Nat \X Nat
    BY <1>1, CurrentTyped DEF PlaybookTypes, PlaybookTypeOK
  <2>2. QED
    BY <2>1 DEF Copies
<1>3. TableTypes'
  <2>1. CASE b \notin DOMAIN playbooks
    <3>1. UNCHANGED <<playbooks, listing, given>>
      BY <2>1 DEF Count, WriteCounters
    <3>2. QED
      BY <3>1 DEF PlaybookTypes, PlaybookTypeOK, TableTypes, IdsGiven
  <2>2. CASE b \in DOMAIN playbooks
    <3>1. /\ playbooks' = [playbooks EXCEPT ![b].success = successes, ![b].failure = failures]
          /\ listing' = MoveToFront(b) /\ given' = given
      BY <2>2 DEF Count, WriteCounters
    <3>2. \A c \in DOMAIN playbooks' :
            playbooks'[c] \in [form : Form, enabled : BOOLEAN, success : Nat, failure : Nat]
      BY <1>2, <3>1 DEF PlaybookTypes, PlaybookTypeOK
    <3>3. /\ listing' \in Seq(Ids)
          /\ \A i, j \in DOMAIN listing' : i # j => listing'[i] # listing'[j]
          /\ Elems(listing') = DOMAIN playbooks' /\ Elems(listing') = Elems(listing)
      BY <2>2, <3>1, FrontListed DEF PlaybookTypes, PlaybookTypeOK
    <3>4. given' \in Nat /\ IdsGiven'
      <4>1. \A c \in Elems(listing) : c <= given
        BY DEF PlaybookTypes, IdsGiven, Elems
      <4>2. \A i \in DOMAIN listing' : listing'[i] \in Elems(listing)
        BY <3>3 DEF Elems
      <4>3. QED
        BY <3>1, <4>1, <4>2 DEF PlaybookTypes, PlaybookTypeOK, IdsGiven
    <3>5. QED
      BY <3>2, <3>3, <3>4 DEF TableTypes, Elems
  <2>3. QED
    BY <2>1, <2>2
<1>4. HistoryTypes'
  BY DEF PlaybookTypes, PlaybookTypeOK, HistoryTypes, Count, WriteCounters, history, past
<1>5. RunTypes'
  <2>1. /\ at' = [at EXCEPT ![r] = IF Len(todo[r]) = 1 THEN "done" ELSE "acting"]
        /\ todo' = [todo EXCEPT ![r] = Tail(@)]
        /\ step' = [step EXCEPT ![r] = 1]
        /\ context' = [context EXCEPT ![r] = read[r]]
        /\ tally' = [tally EXCEPT ![r] = <<0, 0>>]
        /\ UNCHANGED <<about, read, result>>
    BY DEF Count, WriteCounters, NextPlaybook
  <2>2. /\ at' \in [Runs -> Stages] /\ step' \in [Runs -> Nat] /\ context' \in [Runs -> 0..4]
        /\ tally' \in [Runs -> Nat \X Nat]
    BY <2>1 DEF PlaybookTypes, PlaybookTypeOK, Stages
  <2>3. /\ Tail(todo[r]) \in Seq(Copies) /\ Len(Tail(todo[r])) = Len(todo[r]) - 1
        /\ Len(todo[r]) \in Nat \ {0}
    BY <1>1, CurrentTyped
  <2>4. todo' \in [Runs -> Seq(Copies)]
    BY <2>1, <2>3 DEF PlaybookTypes, PlaybookTypeOK
  <2>5. Placed'
    <3>1. ASSUME NEW q \in Runs \ {r}
          PROVE  at'[q] = at[q] /\ todo'[q] = todo[q] /\ step'[q] = step[q]
      BY <2>1 DEF PlaybookTypes, PlaybookTypeOK
    <3>2. /\ todo'[r] = Tail(todo[r]) /\ step'[r] = 1
          /\ at'[r] = IF Len(todo[r]) = 1 THEN "done" ELSE "acting"
      BY <2>1, <1>1, CurrentTyped DEF PlaybookTypes, PlaybookTypeOK
    <3>3. at'[r] # "done" => todo'[r] # <<>>
      <4>1. HAVE at'[r] # "done"
      <4>2. Len(Tail(todo[r])) \in Nat \ {0}
        BY <2>3, <3>2, <4>1
      <4>3. QED
        BY <2>3, <3>2, <4>2, EmptySeq
    <3>4. QED
      BY <2>1, <3>1, <3>2, <3>3 DEF PlaybookTypes, Placed
  <2>6. QED
    BY <2>1, <2>2, <2>4, <2>5 DEF PlaybookTypes, PlaybookTypeOK, RunTypes
<1>6. QED
  BY <1>3, <1>4, <1>5, TypesPartsAfter

LEMMA StopTypes ==
  ASSUME PlaybookTypes, UNCHANGED edits, NEW r \in Runs,
         NoActions(r) \/ CaseGone(r) \/ DatabaseRaises(r)
  PROVE  PlaybookTypes'
<1>1. /\ at[r] \in {"acting", "recording"} /\ at' = [at EXCEPT ![r] = "aborted"]
      /\ UNCHANGED <<database, about, read, todo, step, context, result, tally, tested,
                     contested, inherited, peak, past>>
      /\ rows' \in {rows, [rows EXCEPT ![Current(r).id][result[r]] = @ + 1]}
  BY DEF NoActions, CaseGone, DatabaseRaises, history
<1>2. rows' \in [Ids -> [Statuses -> Nat]]
  <2>1. rows \in [Ids -> [Statuses -> Nat]] /\ result[r] \in Statuses /\ Current(r).id \in Ids
    BY <1>1, CurrentTyped DEF PlaybookTypes, PlaybookTypeOK, Copies
  <2>2. QED
    BY <1>1, <2>1
<1>3. RunTypes'
  BY <1>1 DEF PlaybookTypes, PlaybookTypeOK, RunTypes, Placed, Stages
<1>4. TableTypes' /\ HistoryTypes'
  BY <1>1, <1>2 DEF PlaybookTypes, PlaybookTypeOK, TableTypes, HistoryTypes, IdsGiven, database,
              past
<1>5. QED
  BY <1>3, <1>4, TypesPartsAfter
(* An edit leaves the runs where they are. *)
LEMMA EditRunTypes ==
  ASSUME PlaybookTypes, UNCHANGED local
  PROVE  RunTypes'
BY DEF PlaybookTypes, PlaybookTypeOK, RunTypes, Placed, local

LEMMA EditCounted ==
  ASSUME PlaybookTypes, Edit
  PROVE  edits' \in 0..MaxEdits
BY PlaybookAssumption DEF PlaybookTypes, PlaybookTypeOK, Edit

LEMMA WriteTypes ==
  ASSUME PlaybookTypes, NEW b \in DOMAIN playbooks, NEW form \in Form, NEW on \in BOOLEAN,
         Write(b, form, on)
  PROVE  PlaybookTypes'
<1>1. /\ listing' \in Seq(Ids)
      /\ \A i, j \in DOMAIN listing' : i # j => listing'[i] # listing'[j]
      /\ DOMAIN playbooks' = Elems(listing') /\ Elems(listing') = Elems(listing)
  BY FrontListed DEF PlaybookTypes, PlaybookTypeOK, Write
<1>2. \A c \in DOMAIN playbooks' :
        playbooks'[c] \in [form : Form, enabled : BOOLEAN, success : Nat, failure : Nat]
  BY DEF PlaybookTypes, PlaybookTypeOK, Write
<1>3. IdsGiven'
  <2>1. \A c \in Elems(listing) : c <= given
    BY DEF PlaybookTypes, IdsGiven, Elems
  <2>2. \A i \in DOMAIN listing' : listing'[i] \in Elems(listing)
    BY <1>1 DEF Elems
  <2>3. QED
    BY <2>1, <2>2 DEF IdsGiven, Write
<1>4. TableTypes'
  BY <1>1, <1>2, <1>3 DEF PlaybookTypes, PlaybookTypeOK, TableTypes, Write, Elems
<1>5. HistoryTypes'
  BY EditCounted DEF PlaybookTypes, PlaybookTypeOK, HistoryTypes, Write, history, past
<1>6. QED
  BY <1>4, <1>5, EditRunTypes, TypesPartsAfter DEF Write

LEMMA DeleteTypes ==
  ASSUME PlaybookTypes, NEW b \in Ids, DeletePlaybook(b)
  PROVE  PlaybookTypes'
<1>0. b \in DOMAIN playbooks
  BY DEF DeletePlaybook
<1>1. /\ listing' \in Seq(Ids)
      /\ \A i, j \in DOMAIN listing' : i # j => listing'[i] # listing'[j]
      /\ DOMAIN playbooks' = Elems(listing') /\ Elems(listing') \subseteq Elems(listing)
  BY <1>0, OthersListed DEF PlaybookTypes, PlaybookTypeOK, DeletePlaybook
<1>2. \A c \in DOMAIN playbooks' :
        playbooks'[c] \in [form : Form, enabled : BOOLEAN, success : Nat, failure : Nat]
  BY DEF PlaybookTypes, PlaybookTypeOK, DeletePlaybook
<1>3. IdsGiven'
  <2>1. \A c \in Elems(listing) : c <= given
    BY DEF PlaybookTypes, IdsGiven, Elems
  <2>2. \A i \in DOMAIN listing' : listing'[i] \in Elems(listing)
    BY <1>1 DEF Elems
  <2>3. QED
    BY <2>1, <2>2 DEF IdsGiven, DeletePlaybook
<1>4. TableTypes'
  BY <1>1, <1>2, <1>3 DEF PlaybookTypes, PlaybookTypeOK, TableTypes, DeletePlaybook, Elems
<1>5. HistoryTypes'
  BY EditCounted DEF PlaybookTypes, PlaybookTypeOK, HistoryTypes, DeletePlaybook, history, past
<1>6. QED
  BY <1>4, <1>5, EditRunTypes, TypesPartsAfter DEF DeletePlaybook

LEMMA NewId ==
  ASSUME PlaybookTypes, NEW b \in Ids, NextId(b)
  PROVE  b \notin DOMAIN playbooks
<1>1. DOMAIN playbooks = Elems(listing) /\ \A c \in Elems(listing) : c \in Nat /\ c <= given
  BY PlaybookAssumption, ElementOfSeq DEF PlaybookTypes, PlaybookTypeOK, IdsGiven, Elems
<1>2. b \in Nat /\ given \in Nat
  BY PlaybookAssumption DEF PlaybookTypes, PlaybookTypeOK
<1>3. QED
  BY <1>1, <1>2 DEF NextId

LEMMA CreateTypes ==
  ASSUME PlaybookTypes, NEW b \in Ids, NEW form \in Drafts, NEW on \in BOOLEAN,
         CreatePlaybook(b, form, on)
  PROVE  PlaybookTypes'
<1>1. /\ b \notin Elems(listing) /\ DOMAIN playbooks = Elems(listing) /\ listing \in Seq(Ids)
      /\ \A i, j \in DOMAIN listing : i # j => listing[i] # listing[j]
  BY NewId DEF PlaybookTypes, PlaybookTypeOK, CreatePlaybook
<1>2. /\ listing' \in Seq(Ids)
      /\ \A i, j \in DOMAIN listing' : i # j => listing'[i] # listing'[j]
      /\ DOMAIN playbooks' = Elems(listing') /\ Elems(listing') = Elems(listing) \cup {b}
  <2>1. listing' = <<b>> \o listing /\ DOMAIN playbooks' = DOMAIN playbooks \cup {b}
    BY DEF CreatePlaybook
  <2>2. QED
    BY <1>1, <2>1, InFront
<1>3. \A c \in DOMAIN playbooks' :
        playbooks'[c] \in [form : Form, enabled : BOOLEAN, success : Nat, failure : Nat]
  BY PlaybookAssumption DEF PlaybookTypes, PlaybookTypeOK, CreatePlaybook, NewRow
<1>4. given' \in Nat /\ IdsGiven'
  <2>1. b \in Nat /\ given \in Nat /\ \A c \in Elems(listing) : c \in Nat /\ c <= given
    BY PlaybookAssumption, ElementOfSeq DEF PlaybookTypes, PlaybookTypeOK, IdsGiven, Elems
  <2>2. given' \in Nat /\ \A c \in Elems(listing) \cup {b} : c <= given'
    BY <2>1 DEF CreatePlaybook
  <2>3. \A i \in DOMAIN listing' : listing'[i] \in Elems(listing) \cup {b}
    BY <1>2 DEF Elems
  <2>4. QED
    BY <2>2, <2>3 DEF IdsGiven
<1>5. TableTypes'
  BY <1>2, <1>3, <1>4 DEF TableTypes, Elems
<1>6. HistoryTypes'
  <2>1. rows' \in [Ids -> [Statuses -> Nat]] /\ inherited' \subseteq Ids
    BY DEF PlaybookTypes, PlaybookTypeOK, CreatePlaybook, NoRows
  <2>2. QED
    BY <2>1, EditCounted DEF PlaybookTypes, PlaybookTypeOK, HistoryTypes, CreatePlaybook, past
<1>7. QED
  BY <1>5, <1>6, EditRunTypes, TypesPartsAfter DEF CreatePlaybook

LEMMA DeleteEventTypes ==
  ASSUME PlaybookTypes, NEW e \in Events, DeleteEvent(e)
  PROVE  PlaybookTypes'
<1>1. HistoryTypes'
  BY EditCounted DEF PlaybookTypes, PlaybookTypeOK, HistoryTypes, DeleteEvent, history, past
<1>2. TableTypes'
  BY DEF PlaybookTypes, PlaybookTypeOK, TableTypes, IdsGiven, DeleteEvent
<1>3. QED
  BY <1>1, <1>2, EditRunTypes, TypesPartsAfter DEF DeleteEvent

LEMMA StoreEventTypes ==
  ASSUME PlaybookTypes, NEW e \in Events, NEW sev \in Reported, StoreEvent(e, sev)
  PROVE  PlaybookTypes'
<1>1. sev \in Severities /\ sev \in 0..4
  BY PlaybookAssumption DEF Severities
<1>2. HistoryTypes'
  <2>1. /\ severity' \in [Events -> 0..4] /\ reported' \in [Events -> Severities]
        /\ peak' \in [Events -> Severities]
    BY <1>1 DEF PlaybookTypes, PlaybookTypeOK, StoreEvent
  <2>2. tested' \subseteq Events /\ mistaken' \subseteq Events
    BY DEF PlaybookTypes, PlaybookTypeOK, StoreEvent
  <2>3. QED
    BY <2>1, <2>2, EditCounted DEF PlaybookTypes, PlaybookTypeOK, HistoryTypes, StoreEvent
<1>3. TableTypes'
  BY DEF PlaybookTypes, PlaybookTypeOK, TableTypes, IdsGiven, StoreEvent
<1>4. QED
  BY <1>2, <1>3, EditRunTypes, TypesPartsAfter DEF StoreEvent

LEMMA NextTypes == PlaybookTypes /\ [PlaybookNext]_playbookVars => PlaybookTypes'
<1>. SUFFICES ASSUME PlaybookTypes, [PlaybookNext]_playbookVars
              PROVE  PlaybookTypes'
  OBVIOUS
<1>1. ASSUME NEW r \in Runs, RunStep(r), UNCHANGED edits
      PROVE  PlaybookTypes'
  BY <1>1, StartTypes, ActionTypes, RecordTypes, CountTypes, StopTypes DEF RunStep
<1>2. ASSUME NEW b \in Ids, Toggle(b) \/ DeletePlaybook(b)
      PROVE  PlaybookTypes'
  <2>1. CASE Toggle(b)
    <3>1. b \in DOMAIN playbooks /\ Write(b, playbooks[b].form, ~playbooks[b].enabled)
      BY <2>1 DEF Toggle
    <3>2. playbooks[b].form \in Form /\ (~playbooks[b].enabled) \in BOOLEAN
      BY <3>1 DEF PlaybookTypes, PlaybookTypeOK
    <3>3. QED
      BY <3>1, <3>2, WriteTypes
  <2>2. QED
    BY <1>2, <2>1, DeleteTypes
<1>3. ASSUME NEW b \in Ids, NEW form \in Drafts, NEW on \in BOOLEAN,
             CreatePlaybook(b, form, on) \/ UpdatePlaybook(b, form, on)
      PROVE  PlaybookTypes'
  <2>1. form \in Form
    BY PlaybookAssumption
  <2>2. QED
    BY <1>3, <2>1, CreateTypes, WriteTypes DEF UpdatePlaybook
<1>4. ASSUME NEW e \in Events, DeleteEvent(e) \/ \E sev \in Reported : StoreEvent(e, sev)
      PROVE  PlaybookTypes'
  BY <1>4, DeleteEventTypes, StoreEventTypes
<1>5. CASE UNCHANGED playbookVars
  BY <1>5 DEF playbookVars, database, local, history, past, PlaybookTypes, PlaybookTypeOK, Placed,
              IdsGiven
<1>6. QED
  BY <1>1, <1>2, <1>3, <1>4, <1>5 DEF PlaybookNext

(* Tables, histories and runs keep their types, whatever runs and administrators do to
   the same playbooks: every playbook stays listed, and once. *)
THEOREM PlaybooksTypeCorrect == PlaybookSpec => []PlaybookTypeOK
<1>1. PlaybookTypes => PlaybookTypeOK
  BY DEF PlaybookTypes
<1>2. QED
  BY <1>1, InitTypes, NextTypes, PTL DEF PlaybookSpec
----------------------------------------------------------------------------
(* No event below its report. *)
LEMMA SeverityTyped ==
  ASSUME PlaybookTypes
  PROVE  /\ reported \in [Events -> Nat] /\ severity \in [Events -> Nat]
         /\ read \in [Runs -> Nat] /\ context \in [Runs -> Nat]
         /\ at \in [Runs -> Stages] /\ about \in [Runs -> Events \cup {NoEvent}]
         /\ NoEvent \notin Events
<1>1. /\ severity \in [Events -> 0..4] /\ read \in [Runs -> 0..4] /\ context \in [Runs -> 0..4]
      /\ at \in [Runs -> Stages] /\ about \in [Runs -> Events \cup {NoEvent}]
  BY DEF PlaybookTypes, PlaybookTypeOK
<1>2. reported \in [Events -> 1..4] /\ NoEvent \notin Events
  BY PlaybookAssumption DEF PlaybookTypes, PlaybookTypeOK, Severities
<1>3. 0..4 \subseteq Nat /\ 1..4 \subseteq Nat
  OBVIOUS
<1>4. severity \in [Events -> Nat] /\ reported \in [Events -> Nat]
  BY <1>1, <1>2, <1>3
<1>5. read \in [Runs -> Nat] /\ context \in [Runs -> Nat]
  BY <1>1, <1>3
<1>6. QED
  BY <1>1, <1>2, <1>4, <1>5

LEMMA SeverityStart ==
  ASSUME SeverityInv, NEW r \in Runs,
         \/ \E e \in Events : FindEvent(r, e)
         \/ MatchPlaybooks(r)
         \/ \E sev \in Samples : RunForCase(r, sev)
         \/ \E b \in Ids, e \in Events, sev \in Samples : RunTest(r, b, e, sev)
  PROVE  ReadsReport' /\ NeverBelowReport'
<1>. USE SeverityTyped DEF SeverityInv
<1>1. /\ severity' = severity /\ tested \subseteq tested'
      /\ reported' = reported /\ mistaken' = mistaken
  BY DEF FindEvent, MatchPlaybooks, RunForCase, RunTest, Begin, database, history, past
<1>2. NeverBelowReport'
  BY <1>1 DEF NeverBelowReport
<1>3. \A q \in Runs \ {r} : /\ at'[q] = at[q] /\ about'[q] = about[q] /\ read'[q] = read[q]
                            /\ context'[q] = context[q]
  BY DEF FindEvent, MatchPlaybooks, RunForCase, RunTest, Begin
<1>4. \A e \in Events \ (tested' \cup mistaken) :
        about'[r] = e /\ at'[r] \notin {"done", "aborted"} =>
          /\ read'[r] >= reported[e]
          /\ at'[r] # "found" => context'[r] >= reported[e]
  <2>1. ASSUME NEW e \in Events, FindEvent(r, e)
        PROVE  /\ about'[r] = e /\ read'[r] = severity[e] /\ tested' = tested
               /\ at'[r] = IF severity[e] = 0 THEN "aborted" ELSE "found"
    BY <2>1 DEF FindEvent, history
  <2>2. CASE \E e \in Events : FindEvent(r, e)
    BY <2>1, <2>2 DEF NeverBelowReport
  <2>3. CASE MatchPlaybooks(r)
    <3>1. /\ at[r] = "found" /\ about'[r] = about[r] /\ read'[r] = read[r]
          /\ context'[r] = read[r] /\ tested' = tested
      BY <2>3 DEF MatchPlaybooks, Begin
    <3>2. QED
      BY <1>1, <3>1 DEF ReadsReport, Holds
  <2>4. CASE \E sev \in Samples : RunForCase(r, sev)
    <3>1. about'[r] = NoEvent
      BY <2>4 DEF RunForCase, PlaybookTypes, Placed
    <3>2. QED
      BY <3>1
  <2>5. CASE \E b \in Ids, e \in Events, sev \in Samples : RunTest(r, b, e, sev)
    <3>1. about'[r] \in tested'
      BY <2>5 DEF RunTest
    <3>2. QED
      BY <3>1
  <2>6. QED
    BY <2>2, <2>3, <2>4, <2>5
<1>5. QED
  BY <1>1, <1>2, <1>3, <1>4 DEF ReadsReport, Holds

(* An escalation goes above the severity in its context. *)
LEMMA SeverityRaised ==
  ASSUME SeverityInv, NEW r \in Runs, Escalate(r)
  PROVE  ReadsReport' /\ NeverBelowReport'
<1>. USE SeverityTyped DEF SeverityInv
<1>. DEFINE e == about[r]
            to == ActionOf(r)
<1>1. /\ at[r] = "acting" /\ e \in Events /\ context[r] < to /\ to \in Nat
      /\ severity' = [severity EXCEPT ![e] = to] /\ context' = [context EXCEPT ![r] = to]
      /\ at' = [at EXCEPT ![r] = "recording"]
      /\ UNCHANGED <<about, read, tested, reported, mistaken>>
  <2>1. /\ at[r] = "acting" /\ step[r] <= Len(Actions(r)) /\ ActionOf(r) # Effect
        /\ e \in Events /\ context[r] < to
        /\ severity' = [severity EXCEPT ![e] = to] /\ context' = [context EXCEPT ![r] = to]
        /\ at' = [at EXCEPT ![r] = "recording"]
        /\ UNCHANGED <<about, read, tested, reported, mistaken>>
    BY DEF Escalate, Having, NeedsEscalation, past
  <2>2. to \in Severities
    BY <2>1, ActionTyped
  <2>3. QED
    BY <2>1, <2>2 DEF Severities
<1>2. e \notin tested \cup mistaken => to >= reported[e]
  BY <1>1 DEF ReadsReport, Holds
<1>3. NeverBelowReport'
  BY <1>1, <1>2 DEF NeverBelowReport
<1>4. ReadsReport'
  BY <1>1, <1>2 DEF ReadsReport, Holds
<1>5. QED
  BY <1>3, <1>4

LEMMA SeverityKept ==
  ASSUME SeverityInv, NEW r \in Runs,
         \/ SkipEscalation(r) \/ EscalationFails(r)
         \/ \E status \in Statuses : OtherAction(r, status)
         \/ Record(r) \/ Count(r) \/ NoActions(r) \/ CaseGone(r) \/ DatabaseRaises(r)
  PROVE  ReadsReport' /\ NeverBelowReport'
<1>. USE SeverityTyped DEF SeverityInv
<1>1. /\ UNCHANGED <<severity, about, read, tested, reported, mistaken>>
      /\ at[r] \in {"acting", "recording"} /\ at'[r] # "found"
      /\ \A q \in Runs \ {r} : at'[q] = at[q] /\ context'[q] = context[q]
      /\ context'[r] \in {context[r], read[r]}
  BY DEF SkipEscalation, EscalationFails, OtherAction, Having, Record, Count, WriteCounters,
         NextPlaybook, NoActions, CaseGone, DatabaseRaises, database, history, past
<1>2. NeverBelowReport'
  BY <1>1 DEF NeverBelowReport
<1>3. ReadsReport'
  BY <1>1 DEF ReadsReport, Holds
<1>4. QED
  BY <1>2, <1>3

LEMMA SeverityEdited ==
  ASSUME SeverityInv,
         \/ \E b \in Ids :
              \/ Toggle(b) \/ DeletePlaybook(b)
              \/ \E form \in Drafts, on \in BOOLEAN : CreatePlaybook(b, form, on)
                                                       \/ UpdatePlaybook(b, form, on)
         \/ \E e \in Events : DeleteEvent(e)
  PROVE  ReadsReport' /\ NeverBelowReport'
<1>. USE SeverityTyped DEF SeverityInv
<1>1. /\ UNCHANGED <<at, about, read, context, tested, reported, mistaken>>
      /\ \A e \in Events : severity'[e] \in {0, severity[e]}
  BY DEF Toggle, DeletePlaybook, CreatePlaybook, UpdatePlaybook, Write, DeleteEvent, local,
         history, past
<1>2. QED
  BY <1>1 DEF ReadsReport, NeverBelowReport, Holds

(* The next event under a deleted one's id: no run that counts holds it. *)
LEMMA SeverityStored ==
  ASSUME SeverityInv, NEW e \in Events, NEW sev \in Reported, StoreEvent(e, sev)
  PROVE  ReadsReport' /\ NeverBelowReport'
<1>. USE SeverityTyped DEF SeverityInv
<1>1. /\ UNCHANGED <<at, about, read, context>> /\ sev \in Nat
      /\ severity' = [severity EXCEPT ![e] = sev] /\ reported' = [reported EXCEPT ![e] = sev]
      /\ tested' = tested \ {e} /\ mistaken \ {e} \subseteq mistaken'
      /\ (\E r \in Runs : Holds(r, e)) => e \in mistaken'
  BY PlaybookAssumption DEF StoreEvent, local, Severities
<1>2. NeverBelowReport'
  BY <1>1 DEF NeverBelowReport
<1>3. ReadsReport'
  <2>1. \A r \in Runs, f \in Events : Holds(r, f)' = Holds(r, f)
    BY <1>1 DEF Holds
  <2>2. QED
    BY <1>1, <2>1 DEF ReadsReport
<1>4. QED
  BY <1>2, <1>3

(* Escalations of overlapping runs, each deciding from a severity that may be stale, updates
   that raise, and deletions of the event or of the playbook in between, never leave an
   event below the severity it was stored with, unless a test run was aimed at it or, as
   SQLite allows, it was given the id of a deleted event that a run still held.  An event
   that gets such an id when no run holds it is not excepted. *)
THEOREM SeverityFloor == PlaybookSpec => []NeverBelowReport
<1>1. PlaybookInit => SeverityInv
  BY InitTypes, SeverityTyped DEF PlaybookInit, SeverityInv, ReadsReport, NeverBelowReport,
                                  Holds
<1>2. SeverityInv /\ [PlaybookNext]_playbookVars => SeverityInv'
  <2>. SUFFICES ASSUME SeverityInv, [PlaybookNext]_playbookVars
                PROVE  SeverityInv'
    OBVIOUS
  <2>1. PlaybookTypes'
    BY NextTypes DEF SeverityInv
  <2>2. ASSUME NEW r \in Runs, RunStep(r)
        PROVE  ReadsReport' /\ NeverBelowReport'
    BY <2>2, SeverityStart, SeverityRaised, SeverityKept DEF RunStep
  <2>3. ASSUME UNCHANGED playbookVars
        PROVE  ReadsReport' /\ NeverBelowReport'
    <3>1. UNCHANGED <<severity, at, about, read, context, tested, reported, mistaken>>
      BY <2>3 DEF playbookVars, database, local, history, past
    <3>2. QED
      BY <3>1 DEF SeverityInv, ReadsReport, NeverBelowReport, Holds
  <2>4. ReadsReport' /\ NeverBelowReport'
    <3>1. CASE \E r \in Runs : RunStep(r) /\ UNCHANGED edits
      BY <2>2, <3>1
    <3>2. QED
      BY <2>3, <3>1, SeverityEdited, SeverityStored DEF PlaybookNext
  <2>5. QED
    BY <2>1, <2>4 DEF SeverityInv
<1>3. SeverityInv => NeverBelowReport
  BY DEF SeverityInv
<1>4. QED
  BY <1>1, <1>2, <1>3, PTL DEF PlaybookSpec
----------------------------------------------------------------------------
(* Counters and executions. *)
Idle(b) == \A r \in Runs : \A i \in DOMAIN todo[r] : todo[r][i].id # b

LEMMA CountersMeaning ==
  CountersTrue <=>
    \A b \in DOMAIN playbooks \ inherited :
      /\ playbooks[b].success <= rows[b]["success"]
      /\ playbooks[b].failure <= rows[b]["failed"]
      /\ b \notin contested /\ Idle(b) => /\ playbooks[b].success = rows[b]["success"]
                                          /\ playbooks[b].failure = rows[b]["failed"]
<1>1. \A b : Idle(b) <=> \A r \in Runs : b \notin Pending(r)
  BY DEF Idle, Pending, Elems
<1>2. QED
  BY <1>1 DEF CountersTrue

LEMMA CountersMeaningAfter ==
  ASSUME \A b \in DOMAIN playbooks' \ inherited' :
           /\ playbooks'[b].success <= rows'[b]["success"]
           /\ playbooks'[b].failure <= rows'[b]["failed"]
           /\ b \notin contested' /\ Idle(b)' => /\ playbooks'[b].success = rows'[b]["success"]
                                                 /\ playbooks'[b].failure = rows'[b]["failed"]
  PROVE  CountersTrue'
<1>1. \A b : Idle(b)' <=> \A r \in Runs : b \notin Pending(r)'
  BY DEF Idle, Pending, Elems
<1>2. QED
  BY <1>1 DEF CountersTrue

LEMMA BooksTyped ==
  ASSUME PlaybookTypes
  PROVE  /\ \A r \in Runs : tally[r][1] \in Nat /\ tally[r][2] \in Nat
         /\ \A r \in Runs : \A i \in DOMAIN todo[r] :
              /\ i \in Nat \ {0} /\ todo[r][i] \in Copies /\ todo[r][i].id \in Ids
              /\ todo[r][i].success \in Nat /\ todo[r][i].failure \in Nat
         /\ \A b \in Ids : rows[b]["success"] \in Nat /\ rows[b]["failed"] \in Nat
         /\ \A b \in DOMAIN playbooks : /\ b \in Ids
                                        /\ playbooks[b].success \in Nat
                                        /\ playbooks[b].failure \in Nat
<1>1. \A r \in Runs : tally[r][1] \in Nat /\ tally[r][2] \in Nat
  BY DEF PlaybookTypes, PlaybookTypeOK
<1>2. ASSUME NEW r \in Runs, NEW i \in DOMAIN todo[r]
      PROVE  i \in Nat \ {0} /\ todo[r][i] \in Copies
  BY ElementOfSeq, LenProperties DEF PlaybookTypes, PlaybookTypeOK
<1>3. \A b \in Ids : rows[b]["success"] \in Nat /\ rows[b]["failed"] \in Nat
  BY DEF PlaybookTypes, PlaybookTypeOK, Statuses
<1>4. \A b \in DOMAIN playbooks : /\ b \in Ids
                                  /\ playbooks[b].success \in Nat
                                  /\ playbooks[b].failure \in Nat
  BY CopyTyped DEF PlaybookTypes, PlaybookTypeOK
<1>5. QED
  BY <1>1, <1>2, <1>3, <1>4 DEF Copies

(* A step that neither runs nor counts anything. *)
LEMMA BooksKept ==
  ASSUME PlaybookTypes, Books, UNCHANGED <<todo, tally, rows, contested, inherited>>,
         \A r \in Runs : at'[r] # "aborted" => at[r] # "aborted",
         DOMAIN playbooks' \subseteq DOMAIN playbooks,
         \A b \in DOMAIN playbooks' : /\ playbooks'[b].success = playbooks[b].success
                                      /\ playbooks'[b].failure = playbooks[b].failure
  PROVE  Books'
<1>1. \A b : Idle(b)' <=> Idle(b)
  BY DEF Idle
<1>2. CountersTrue'
  BY <1>1, CountersMeaning, CountersMeaningAfter DEF Books
<1>3. CopiesCovered' /\ CopiesExact' /\ Sole'
  BY DEF Books, CopiesCovered, CopiesExact, Sole, Adds
<1>4. QED
  BY <1>2, <1>3 DEF Books

(* A run begins: nothing in its list is in its own hands already, and what is in the hands
   of others is contested from now on. *)
LEMMA BooksBegun ==
  ASSUME PlaybookTypes, Books, NEW r \in Runs, NEW copies \in Seq(Copies), NEW sev,
         at[r] \in {"new", "found"}, Begin(r, copies, sev), UNCHANGED <<playbooks, rows>>,
         \A i \in DOMAIN copies : /\ copies[i].id \in DOMAIN playbooks
                                  /\ copies[i] = CopyOf(copies[i].id),
         \A i, j \in DOMAIN copies : i # j => copies[i].id # copies[j].id
  PROVE  Books'
<1>1. todo[r] = <<>> /\ DOMAIN todo[r] = {}
  BY DEF PlaybookTypes, Placed
<1>2. /\ todo'[r] = copies /\ tally'[r] = <<0, 0>> /\ inherited' = inherited
      /\ \A q \in Runs \ {r} : todo'[q] = todo[q] /\ tally'[q] = tally[q] /\ at'[q] = at[q]
  BY DEF Begin, PlaybookTypes, PlaybookTypeOK
<1>3. /\ contested \subseteq contested'
      /\ \A i \in DOMAIN copies : \A q \in Runs \ {r} : \A j \in DOMAIN todo[q] :
           copies[i].id = todo[q][j].id => copies[i].id \in contested'
  BY DEF Begin, Pending, Elems
<1>4. \A b : Idle(b)' => Idle(b)
  BY <1>1, <1>2 DEF Idle
<1>5. \A i \in DOMAIN copies : copies[i].id \notin contested' => Idle(copies[i].id)
  BY <1>1, <1>3 DEF Idle
<1>6. \A i \in DOMAIN copies : /\ copies[i].success = playbooks[copies[i].id].success
                               /\ copies[i].failure = playbooks[copies[i].id].failure
  BY DEF CopyOf
<1>7. CountersTrue'
  BY <1>2, <1>3, <1>4, CountersMeaning, CountersMeaningAfter DEF Books
<1>8. ASSUME NEW i \in DOMAIN copies, copies[i].id \notin inherited
      PROVE  LET c == copies[i] IN
             /\ c.success + 0 <= rows[c.id]["success"] /\ c.failure + 0 <= rows[c.id]["failed"]
             /\ c.id \notin contested' => /\ c.success + 0 = rows[c.id]["success"]
                                          /\ c.failure + 0 = rows[c.id]["failed"]
  BY <1>3, <1>5, <1>6, <1>8, BooksTyped, CountersMeaning DEF Books
<1>9. \A i \in DOMAIN copies : Adds(r, i, 1)' = 0 /\ Adds(r, i, 2)' = 0
  BY <1>2 DEF Adds
<1>10. \A q \in Runs \ {r} : \A i, k : Adds(q, i, k)' = Adds(q, i, k)
  BY <1>2 DEF Adds
<1>11. CopiesCovered' /\ CopiesExact'
  BY <1>2, <1>3, <1>8, <1>9, <1>10 DEF Books, CopiesCovered, CopiesExact
<1>12. Sole'
  BY <1>2, <1>3 DEF Books, Sole
<1>13. QED
  BY <1>7, <1>11, <1>12 DEF Books
(* An execution is recorded: of the playbooks that runs hold, its own alone may be one
   nobody else has, and there the run counts what it recorded. *)
LEMMA BooksRecorded ==
  ASSUME PlaybookTypes, Books, NEW r \in Runs, Record(r)
  PROVE  Books'
<1>. DEFINE b == Current(r).id
            s == IF result[r] = "success" THEN 1 ELSE 0
            f == IF result[r] = "failed" THEN 1 ELSE 0
<1>1. /\ at[r] = "recording" /\ at'[r] = "acting" /\ \A q \in Runs \ {r} : at'[q] = at[q]
      /\ UNCHANGED <<playbooks, todo, contested, inherited>>
  BY DEF Record, PlaybookTypes, PlaybookTypeOK, database
<1>2. 1 \in DOMAIN todo[r] /\ b = todo[r][1].id /\ b \in Ids
  BY <1>1, CurrentTyped DEF Copies
<1>3. /\ rows'[b]["success"] = rows[b]["success"] + s
      /\ rows'[b]["failed"] = rows[b]["failed"] + f
      /\ \A c \in Ids \ {b} : rows'[c] = rows[c]
  BY <1>2, BooksTyped DEF Record, PlaybookTypes, PlaybookTypeOK, Statuses
<1>4. /\ tally'[r][1] = tally[r][1] + s /\ tally'[r][2] = tally[r][2] + f
      /\ \A q \in Runs \ {r} : tally'[q] = tally[q]
  BY BooksTyped DEF Record, PlaybookTypes, PlaybookTypeOK
<1>5. s \in Nat /\ f \in Nat
  OBVIOUS
<1>6. \A c \in Ids : /\ rows[c]["success"] <= rows'[c]["success"]
                     /\ rows[c]["failed"] <= rows'[c]["failed"]
  BY <1>2, <1>3, <1>5, BooksTyped
<1>7. ~Idle(b) /\ \A c : Idle(c)' <=> Idle(c)
  BY <1>1, <1>2 DEF Idle
<1>8. CountersTrue'
  <2>1. ASSUME NEW c \in DOMAIN playbooks \ inherited
        PROVE  /\ playbooks[c].success <= rows'[c]["success"]
               /\ playbooks[c].failure <= rows'[c]["failed"]
               /\ c \notin contested /\ Idle(c) => /\ playbooks[c].success = rows'[c]["success"]
                                                   /\ playbooks[c].failure = rows'[c]["failed"]
    <3>1. /\ c \in Ids /\ playbooks[c].success \in Nat /\ playbooks[c].failure \in Nat
          /\ rows[c]["success"] \in Nat /\ rows[c]["failed"] \in Nat
      BY BooksTyped
    <3>2. CASE c = b
      BY <1>3, <1>5, <1>7, <3>1, <3>2, CountersMeaning DEF Books
    <3>3. CASE c # b
      BY <1>3, <3>1, <3>3, CountersMeaning DEF Books
    <3>4. QED
      BY <3>2, <3>3
  <2>2. QED
    BY <1>1, <1>7, <2>1, CountersMeaningAfter
<1>9. /\ Adds(r, 1, 1)' = Adds(r, 1, 1) + s /\ Adds(r, 1, 2)' = Adds(r, 1, 2) + f
      /\ \A q \in Runs : \A i, k :
           q # r \/ i # 1 => Adds(q, i, k)' = Adds(q, i, k)
  BY <1>4 DEF Adds
<1>10. \A q \in Runs : \A i : Adds(q, i, 1) \in Nat /\ Adds(q, i, 2) \in Nat
  BY BooksTyped DEF Adds
<1>11. ASSUME NEW q \in Runs, NEW i \in DOMAIN todo[q], todo[q][i].id \notin inherited
       PROVE  LET c == todo[q][i] IN
              /\ c.success + Adds(q, i, 1)' <= rows'[c.id]["success"]
              /\ c.failure + Adds(q, i, 2)' <= rows'[c.id]["failed"]
              /\ c.id \notin contested /\ at'[q] # "aborted" =>
                   /\ c.success + Adds(q, i, 1)' = rows'[c.id]["success"]
                   /\ c.failure + Adds(q, i, 2)' = rows'[c.id]["failed"]
  <2>. DEFINE c == todo[q][i]
  <2>1. /\ c.id \in Ids /\ c.success \in Nat /\ c.failure \in Nat
        /\ rows[c.id]["success"] \in Nat /\ rows[c.id]["failed"] \in Nat
        /\ Adds(q, i, 1) \in Nat /\ Adds(q, i, 2) \in Nat
    BY <1>10, BooksTyped
  <2>2. /\ c.success + Adds(q, i, 1) <= rows[c.id]["success"]
        /\ c.failure + Adds(q, i, 2) <= rows[c.id]["failed"]
        /\ c.id \notin contested /\ at'[q] # "aborted" =>
             /\ c.success + Adds(q, i, 1) = rows[c.id]["success"]
             /\ c.failure + Adds(q, i, 2) = rows[c.id]["failed"]
    BY <1>1, <1>11 DEF Books, CopiesCovered, CopiesExact
  <2>3. CASE q = r /\ i = 1
    <3>1. Adds(q, i, 1)' = Adds(q, i, 1) + s /\ Adds(q, i, 2)' = Adds(q, i, 2) + f
      BY <1>4, <2>3 DEF Adds
    <3>2. c.id = b
      BY <1>2, <2>3
    <3>3. at'[q] # "aborted" /\ at[q] # "aborted"
      BY <1>1, <2>3
    <3>4. /\ rows'[c.id]["success"] = rows[c.id]["success"] + s
          /\ rows'[c.id]["failed"] = rows[c.id]["failed"] + f
      BY <1>3, <3>2
    <3>. HIDE DEF s, f, b
    <3>5. \A k, m, n, t \in Nat : /\ k + m <= t => k + (m + n) <= t + n
                                  /\ k + m = t => k + (m + n) = t + n
      OBVIOUS
    <3>6. /\ c.success + Adds(q, i, 1)' <= rows'[c.id]["success"]
          /\ c.failure + Adds(q, i, 2)' <= rows'[c.id]["failed"]
      BY <1>5, <2>1, <2>2, <3>1, <3>4, <3>5
    <3>7. ASSUME c.id \notin contested
          PROVE  /\ c.success + Adds(q, i, 1)' = rows'[c.id]["success"]
                 /\ c.failure + Adds(q, i, 2)' = rows'[c.id]["failed"]
      <4>1. /\ c.success + Adds(q, i, 1) = rows[c.id]["success"]
            /\ c.failure + Adds(q, i, 2) = rows[c.id]["failed"]
        BY <2>2, <3>3, <3>7
      <4>2. QED
        BY <1>5, <2>1, <3>1, <3>4, <3>5, <4>1
    <3>8. QED
      BY <3>6, <3>7
  <2>4. CASE ~(q = r /\ i = 1)
    <3>1. Adds(q, i, 1)' = Adds(q, i, 1) /\ Adds(q, i, 2)' = Adds(q, i, 2)
      BY <1>9, <2>4
    <3>2. c.id \notin contested => c.id # b
      BY <1>2, <2>4 DEF Books, Sole
    <3>3. CASE c.id = b
      BY <1>3, <1>5, <2>1, <2>2, <3>1, <3>2, <3>3
    <3>4. CASE c.id # b
      BY <1>3, <2>1, <2>2, <3>1, <3>4
    <3>5. QED
      BY <3>3, <3>4
  <2>5. QED
    BY <2>3, <2>4
<1>12. CopiesCovered' /\ CopiesExact'
  BY <1>1, <1>11 DEF CopiesCovered, CopiesExact
<1>13. Sole'
  BY <1>1 DEF Books, Sole
<1>14. QED
  BY <1>8, <1>12, <1>13 DEF Books

(* The database raised after the row was there: nothing is exact for that run any more. *)
LEMMA BooksAborted ==
  ASSUME PlaybookTypes, Books, NEW r \in Runs, DatabaseRaises(r)
  PROVE  Books'
<1>. DEFINE b == Current(r).id
<1>1. /\ at[r] \in {"acting", "recording"} /\ at'[r] = "aborted"
      /\ \A q \in Runs \ {r} : at'[q] = at[q]
      /\ UNCHANGED <<playbooks, todo, tally, contested, inherited>>
      /\ rows' \in {rows, [rows EXCEPT ![b][result[r]] = @ + 1]}
  BY DEF DatabaseRaises, PlaybookTypes, PlaybookTypeOK, database
<1>2. 1 \in DOMAIN todo[r] /\ b = todo[r][1].id /\ b \in Ids
  BY <1>1, CurrentTyped DEF Copies
<1>3. \A c \in Ids : /\ rows[c]["success"] <= rows'[c]["success"]
                     /\ rows[c]["failed"] <= rows'[c]["failed"]
                     /\ rows'[c]["success"] \in Nat /\ rows'[c]["failed"] \in Nat
                     /\ c # b => rows'[c] = rows[c]
  <2>1. rows \in [Ids -> [Statuses -> Nat]] /\ result[r] \in Statuses
    BY DEF PlaybookTypes, PlaybookTypeOK
  <2>2. CASE rows' = [rows EXCEPT ![b][result[r]] = @ + 1]
    BY <1>2, <2>1, <2>2 DEF Statuses
  <2>3. CASE rows' = rows
    BY <2>3, BooksTyped
  <2>4. QED
    BY <1>1, <2>2, <2>3
<1>4. ~Idle(b) /\ \A c : Idle(c)' <=> Idle(c)
  BY <1>1, <1>2 DEF Idle
<1>5. CountersTrue'
  <2>1. \A c \in DOMAIN playbooks \ inherited :
           /\ playbooks[c].success <= rows'[c]["success"]
           /\ playbooks[c].failure <= rows'[c]["failed"]
           /\ c \notin contested /\ Idle(c) => /\ playbooks[c].success = rows'[c]["success"]
                                               /\ playbooks[c].failure = rows'[c]["failed"]
    BY <1>3, <1>4, BooksTyped, CountersMeaning DEF Books
  <2>2. QED
    BY <1>1, <1>4, <2>1, CountersMeaningAfter
<1>6. \A q \in Runs : \A i, k : Adds(q, i, k)' = Adds(q, i, k)
  BY <1>1 DEF Adds
<1>7. \A q \in Runs : \A i : Adds(q, i, 1) \in Nat /\ Adds(q, i, 2) \in Nat
  BY BooksTyped DEF Adds
<1>8. ASSUME NEW q \in Runs, NEW i \in DOMAIN todo[q], todo[q][i].id \notin inherited
      PROVE  LET c == todo[q][i] IN
             /\ c.success + Adds(q, i, 1) <= rows'[c.id]["success"]
             /\ c.failure + Adds(q, i, 2) <= rows'[c.id]["failed"]
             /\ c.id \notin contested /\ at'[q] # "aborted" =>
                  /\ c.success + Adds(q, i, 1) = rows'[c.id]["success"]
                  /\ c.failure + Adds(q, i, 2) = rows'[c.id]["failed"]
  <2>. DEFINE c == todo[q][i]
  <2>1. /\ c.id \in Ids /\ c.success \in Nat /\ c.failure \in Nat
        /\ rows[c.id]["success"] \in Nat /\ rows[c.id]["failed"] \in Nat
        /\ Adds(q, i, 1) \in Nat /\ Adds(q, i, 2) \in Nat
    BY <1>7, BooksTyped
  <2>2. /\ c.success + Adds(q, i, 1) <= rows[c.id]["success"]
        /\ c.failure + Adds(q, i, 2) <= rows[c.id]["failed"]
        /\ c.id \notin contested /\ at[q] # "aborted" =>
             /\ c.success + Adds(q, i, 1) = rows[c.id]["success"]
             /\ c.failure + Adds(q, i, 2) = rows[c.id]["failed"]
    BY <1>8 DEF Books, CopiesCovered, CopiesExact
  <2>3. at'[q] # "aborted" => q # r /\ at[q] # "aborted"
    BY <1>1
  <2>4. q # r /\ c.id \notin contested => c.id # b
    BY <1>2 DEF Books, Sole
  <2>5. QED
    BY <1>3, <2>1, <2>2, <2>3, <2>4
<1>9. CopiesCovered' /\ CopiesExact'
  BY <1>1, <1>6, <1>8 DEF CopiesCovered, CopiesExact
<1>10. Sole'
  BY <1>1 DEF Books, Sole
<1>11. QED
  BY <1>5, <1>9, <1>10 DEF Books
(* The end of a playbook: what was read and counted is written, the copy is dropped. *)
LEMMA BooksCounted ==
  ASSUME PlaybookTypes, Books, NEW r \in Runs, Count(r)
  PROVE  Books'
<1>. DEFINE b == Current(r).id
            successes == Current(r).success + tally[r][1]
            failures == Current(r).failure + tally[r][2]
<1>1. /\ at[r] = "acting" /\ at'[r] # "aborted" /\ todo'[r] = Tail(todo[r])
      /\ tally'[r] = <<0, 0>>
      /\ \A q \in Runs \ {r} : at'[q] = at[q] /\ todo'[q] = todo[q] /\ tally'[q] = tally[q]
      /\ UNCHANGED <<rows, contested, inherited>>
  BY DEF Count, WriteCounters, NextPlaybook, PlaybookTypes, PlaybookTypeOK, history
<1>2. /\ 1 \in DOMAIN todo[r] /\ Current(r) = todo[r][1]
      /\ \A i \in DOMAIN Tail(todo[r]) : /\ i \in Nat \ {0} /\ i + 1 \in DOMAIN todo[r]
                                         /\ Tail(todo[r])[i] = todo[r][i + 1]
      /\ \A i \in DOMAIN todo[r] \ {1} : \E j \in DOMAIN Tail(todo[r]) : i = j + 1
  <2>1. /\ todo[r] \in Seq(Copies) /\ Tail(todo[r]) \in Seq(Copies)
        /\ Len(Tail(todo[r])) = Len(todo[r]) - 1 /\ Len(todo[r]) \in Nat \ {0}
        /\ 1 \in DOMAIN todo[r] /\ Current(r) = todo[r][1]
        /\ \A i \in DOMAIN Tail(todo[r]) : /\ i \in Nat \ {0} /\ i + 1 \in DOMAIN todo[r]
                                           /\ Tail(todo[r])[i] = todo[r][i + 1]
    BY <1>1, CurrentTyped DEF PlaybookTypes, PlaybookTypeOK
  <2>2. ASSUME NEW i \in DOMAIN todo[r] \ {1}
        PROVE  i - 1 \in DOMAIN Tail(todo[r]) /\ i = (i - 1) + 1
    BY <2>1, LenProperties
  <2>3. QED
    BY <2>1, <2>2
<1>3. \A c : Idle(c)' /\ c # b => Idle(c)
  <2>1. ASSUME NEW c, Idle(c)', c # b, NEW i \in DOMAIN todo[r]
        PROVE  todo[r][i].id # c
    <3>1. CASE i = 1
      BY <1>2, <2>1, <3>1
    <3>2. CASE i # 1
      <4>1. PICK j \in DOMAIN Tail(todo[r]) : i = j + 1
        BY <1>2, <3>2
      <4>2. j \in DOMAIN todo'[r] /\ todo'[r][j] = todo[r][i]
        BY <1>1, <1>2, <4>1
      <4>3. todo'[r][j].id # c
        BY <2>1, <4>2 DEF Idle
      <4>4. QED
        BY <4>2, <4>3
    <3>3. QED
      BY <3>1, <3>2
  <2>2. ASSUME NEW c, Idle(c)', NEW q \in Runs \ {r}, NEW i \in DOMAIN todo[q]
        PROVE  todo[q][i].id # c
    BY <1>1, <2>2 DEF Idle
  <2>3. QED
    BY <2>1, <2>2 DEF Idle
<1>4. b \notin inherited => /\ successes <= rows[b]["success"] /\ failures <= rows[b]["failed"]
                            /\ b \notin contested => /\ successes = rows[b]["success"]
                                                     /\ failures = rows[b]["failed"]
  <2>1. Adds(r, 1, 1) = tally[r][1] /\ Adds(r, 1, 2) = tally[r][2]
    BY DEF Adds
  <2>2. QED
    BY <1>1, <1>2, <2>1 DEF Books, CopiesCovered, CopiesExact
<1>5. /\ DOMAIN playbooks' = DOMAIN playbooks
      /\ \A c \in DOMAIN playbooks :
           /\ playbooks'[c].success = IF c = b THEN successes ELSE playbooks[c].success
           /\ playbooks'[c].failure = IF c = b THEN failures ELSE playbooks[c].failure
  BY DEF Count, WriteCounters, PlaybookTypes, PlaybookTypeOK
<1>6. CountersTrue'
  <2>1. ASSUME NEW c \in DOMAIN playbooks \ inherited
        PROVE  /\ playbooks'[c].success <= rows[c]["success"]
               /\ playbooks'[c].failure <= rows[c]["failed"]
               /\ c \notin contested /\ Idle(c)' =>
                    /\ playbooks'[c].success = rows[c]["success"]
                    /\ playbooks'[c].failure = rows[c]["failed"]
    <3>1. CASE c = b
      BY <1>4, <1>5, <3>1
    <3>2. CASE c # b
      BY <1>3, <1>5, <3>2, CountersMeaning DEF Books
    <3>3. QED
      BY <3>1, <3>2
  <2>2. QED
    BY <1>1, <1>5, <2>1, CountersMeaningAfter
<1>7. ASSUME NEW i \in DOMAIN Tail(todo[r])
      PROVE  /\ todo'[r][i] = todo[r][i + 1] /\ i + 1 \in DOMAIN todo[r] /\ i + 1 # 1
             /\ Adds(r, i, 1)' = 0 /\ Adds(r, i, 2)' = 0
             /\ Adds(r, i + 1, 1) = 0 /\ Adds(r, i + 1, 2) = 0
  BY <1>1, <1>2 DEF Adds
<1>8. \A q \in Runs \ {r} : \A i, k : Adds(q, i, k)' = Adds(q, i, k)
  BY <1>1 DEF Adds
<1>9. CopiesCovered' /\ CopiesExact'
  <2>1. ASSUME NEW q \in Runs, NEW i \in DOMAIN todo'[q], todo'[q][i].id \notin inherited
        PROVE  LET c == todo'[q][i] IN
               /\ c.success + Adds(q, i, 1)' <= rows[c.id]["success"]
               /\ c.failure + Adds(q, i, 2)' <= rows[c.id]["failed"]
               /\ c.id \notin contested /\ at'[q] # "aborted" =>
                    /\ c.success + Adds(q, i, 1)' = rows[c.id]["success"]
                    /\ c.failure + Adds(q, i, 2)' = rows[c.id]["failed"]
    <3>1. CASE q = r
      <4>1. i \in DOMAIN Tail(todo[r])
        BY <1>1, <3>1
      <4>2. /\ todo'[q][i] = todo[q][i + 1] /\ i + 1 \in DOMAIN todo[q] /\ i + 1 # 1
            /\ at[q] # "aborted" /\ tally'[q][1] = 0 /\ tally'[q][2] = 0
        <5>1. /\ Tail(todo[r])[i] = todo[r][i + 1] /\ i + 1 \in DOMAIN todo[r] /\ i + 1 # 1
          BY <1>2, <4>1
        <5>2. at[r] # "aborted" /\ tally'[r][1] = 0 /\ tally'[r][2] = 0
          BY <1>1
        <5>3. QED
          BY <1>1, <3>1, <5>1, <5>2
      <4>3. Adds(q, i, 1)' = Adds(q, i + 1, 1) /\ Adds(q, i, 2)' = Adds(q, i + 1, 2)
        BY <4>2 DEF Adds
      <4>4. QED
        BY <2>1, <4>2, <4>3 DEF Books, CopiesCovered, CopiesExact
    <3>2. CASE q # r
      <4>1. /\ todo'[q] = todo[q] /\ at'[q] = at[q]
            /\ Adds(q, i, 1)' = Adds(q, i, 1) /\ Adds(q, i, 2)' = Adds(q, i, 2)
        BY <1>1, <1>8, <3>2
      <4>2. QED
        BY <2>1, <4>1 DEF Books, CopiesCovered, CopiesExact
    <3>3. QED
      BY <3>1, <3>2
  <2>2. QED
    BY <1>1, <2>1 DEF CopiesCovered, CopiesExact
<1>10. Sole'
  <2>. DEFINE from(q, i) == IF q = r THEN i + 1 ELSE i
  <2>1. ASSUME NEW q \in Runs, NEW i \in DOMAIN todo'[q]
        PROVE  from(q, i) \in DOMAIN todo[q] /\ todo'[q][i] = todo[q][from(q, i)]
    BY <1>1, <1>7
  <2>2. ASSUME NEW p \in Runs, NEW q \in Runs, NEW i \in DOMAIN todo'[p],
               NEW j \in DOMAIN todo'[q], todo'[p][i].id = todo'[q][j].id,
               todo'[p][i].id \notin contested
        PROVE  p = q /\ i = j
    <3>1. p = q /\ from(p, i) = from(q, j)
      BY <2>1, <2>2 DEF Books, Sole
    <3>2. p = r => i \in Nat /\ j \in Nat
      BY <1>1, <1>2, <3>1
    <3>3. QED
      BY <3>1, <3>2
  <2>3. QED
    BY <1>1, <2>2 DEF Sole
<1>11. QED
  BY <1>6, <1>9, <1>10 DEF Books

(* A playbook is created, perhaps under an id that a run still has in its hands. *)
LEMMA BooksCreated ==
  ASSUME PlaybookTypes, Books, NEW b \in Ids, NEW form \in Drafts, NEW on \in BOOLEAN,
         CreatePlaybook(b, form, on)
  PROVE  Books'
<1>1. /\ UNCHANGED <<todo, tally, at, contested>>
      /\ inherited \subseteq inherited'
      /\ ~Idle(b) => b \in inherited'
  BY DEF CreatePlaybook, local, Idle, Pending, Elems
<1>2. /\ DOMAIN playbooks' = DOMAIN playbooks \cup {b}
      /\ playbooks'[b].success = 0 /\ playbooks'[b].failure = 0
      /\ \A c \in DOMAIN playbooks \ {b} : playbooks'[c] = playbooks[c]
  BY DEF CreatePlaybook, NewRow
<1>3. /\ rows'[b]["success"] = 0 /\ rows'[b]["failed"] = 0
      /\ \A c \in Ids \ {b} : rows'[c] = rows[c]
  BY DEF CreatePlaybook, NoRows, Statuses, PlaybookTypes, PlaybookTypeOK
<1>4. \A c : Idle(c)' <=> Idle(c)
  BY <1>1 DEF Idle
<1>5. CountersTrue'
  <2>1. ASSUME NEW c \in DOMAIN playbooks' \ inherited'
        PROVE  /\ playbooks'[c].success <= rows'[c]["success"]
               /\ playbooks'[c].failure <= rows'[c]["failed"]
               /\ c \notin contested /\ Idle(c) =>
                    /\ playbooks'[c].success = rows'[c]["success"]
                    /\ playbooks'[c].failure = rows'[c]["failed"]
    <3>1. CASE c = b
      BY <1>2, <1>3, <3>1
    <3>2. CASE c # b
      <4>1. c \in DOMAIN playbooks \ inherited /\ c \in Ids
        BY <1>1, <1>2, <3>2, BooksTyped
      <4>2. playbooks'[c] = playbooks[c] /\ rows'[c] = rows[c]
        BY <1>2, <1>3, <3>2, <4>1
      <4>3. QED
        BY <4>1, <4>2, CountersMeaning DEF Books
    <3>3. QED
      BY <3>1, <3>2
  <2>2. QED
    BY <1>1, <1>4, <2>1, CountersMeaningAfter
<1>6. \A q \in Runs : \A i, k : Adds(q, i, k)' = Adds(q, i, k)
  BY <1>1 DEF Adds
<1>7. \A q \in Runs : \A i \in DOMAIN todo[q] :
        todo[q][i].id \notin inherited' => /\ todo[q][i].id \notin inherited
                                           /\ rows'[todo[q][i].id] = rows[todo[q][i].id]
  BY <1>1, <1>3, BooksTyped DEF Idle
<1>8. CopiesCovered' /\ CopiesExact' /\ Sole'
  BY <1>1, <1>6, <1>7 DEF Books, CopiesCovered, CopiesExact, Sole
<1>9. QED
  BY <1>5, <1>8 DEF Books
LEMMA BooksStarted ==
  ASSUME PlaybookTypes, Books, NEW r \in Runs,
         \/ \E e \in Events : FindEvent(r, e)
         \/ MatchPlaybooks(r)
         \/ \E sev \in Samples : RunForCase(r, sev)
         \/ \E b \in Ids, e \in Events, sev \in Samples : RunTest(r, b, e, sev)
  PROVE  Books'
<1>1. CASE \E e \in Events : FindEvent(r, e)
  <2>1. /\ UNCHANGED <<playbooks, todo, tally, rows, contested, inherited>>
        /\ \A q \in Runs : at'[q] # "aborted" => at[q] # "aborted"
    BY <1>1 DEF FindEvent, database, history, PlaybookTypes, PlaybookTypeOK
  <2>2. QED
    BY <2>1, BooksKept
<1>2. CASE MatchPlaybooks(r) \/ \E sev \in Samples : RunForCase(r, sev)
  <2>1. PICK bs \in SUBSET DOMAIN playbooks : \E copies \in CopiesOf(bs), sev \in 0..4 :
          Begin(r, copies, sev)
    <3>1. read[r] \in 0..4 /\ Samples \subseteq 0..4
      BY PlaybookAssumption DEF PlaybookTypes, PlaybookTypeOK, Severities
    <3>2. CASE MatchPlaybooks(r)
      BY <3>1, <3>2 DEF MatchPlaybooks
    <3>3. CASE \E sev \in Samples : RunForCase(r, sev)
      BY <3>1, <3>3 DEF RunForCase
    <3>4. QED
      BY <1>2, <3>2, <3>3
  <2>2. PICK copies \in CopiesOf(bs), sev \in 0..4 : Begin(r, copies, sev)
    BY <2>1
  <2>3. at[r] \in {"new", "found"} /\ UNCHANGED <<playbooks, rows>>
    BY <1>2 DEF MatchPlaybooks, RunForCase, database
  <2>4. QED
    BY <2>2, <2>3, CopiesTyped, BooksBegun
<1>3. ASSUME NEW b \in Ids, NEW e \in Events, NEW sev \in Samples, RunTest(r, b, e, sev)
      PROVE  Books'
  <2>. DEFINE copies == <<CopyOf(b)>>
  <2>1. b \in DOMAIN playbooks /\ at[r] = "new" /\ UNCHANGED <<playbooks, rows>>
        /\ Begin(r, copies, sev)
    BY <1>3 DEF RunTest, database
  <2>2. copies \in Seq(Copies) /\ DOMAIN copies = {1} /\ copies[1] = CopyOf(b)
    BY <2>1, CopyTyped
  <2>3. CopyOf(b).id = b
    BY DEF CopyOf
  <2>4. /\ \A i \in DOMAIN copies : /\ copies[i].id \in DOMAIN playbooks
                                    /\ copies[i] = CopyOf(copies[i].id)
        /\ \A i, j \in DOMAIN copies : i # j => copies[i].id # copies[j].id
    BY <2>1, <2>2, <2>3
  <2>. HIDE DEF copies
  <2>5. QED
    BY <2>1, <2>2, <2>4, BooksBegun
<1>4. QED
  BY <1>1, <1>2, <1>3

LEMMA BooksActed ==
  ASSUME PlaybookTypes, Books, NEW r \in Runs,
         \/ Escalate(r) \/ SkipEscalation(r) \/ EscalationFails(r)
         \/ \E status \in Statuses : OtherAction(r, status)
         \/ NoActions(r) \/ CaseGone(r)
  PROVE  Books'
<1>1. /\ UNCHANGED <<playbooks, todo, tally, rows, contested, inherited>>
      /\ \A q \in Runs : at'[q] # "aborted" => at[q] # "aborted"
  BY DEF Escalate, SkipEscalation, EscalationFails, OtherAction, Having, NoActions, CaseGone,
         database, history, PlaybookTypes, PlaybookTypeOK
<1>2. QED
  BY <1>1, BooksKept

LEMMA BooksEdited ==
  ASSUME PlaybookTypes, Books,
         \/ \E b \in Ids, form \in Drafts, on \in BOOLEAN : UpdatePlaybook(b, form, on)
         \/ \E b \in Ids : Toggle(b) \/ DeletePlaybook(b)
         \/ \E e \in Events : DeleteEvent(e) \/ \E sev \in Reported : StoreEvent(e, sev)
         \/ UNCHANGED playbookVars
  PROVE  Books'
<1>1. UNCHANGED <<at, todo, tally, rows, contested, inherited>>
  BY DEF UpdatePlaybook, Toggle, Write, DeletePlaybook, DeleteEvent, StoreEvent, playbookVars,
         local, history
<1>2. /\ DOMAIN playbooks' \subseteq DOMAIN playbooks
      /\ \A c \in DOMAIN playbooks' : /\ playbooks'[c].success = playbooks[c].success
                                      /\ playbooks'[c].failure = playbooks[c].failure
  <2>1. ASSUME NEW b \in Ids, NEW form, NEW on, Write(b, form, on)
        PROVE  /\ DOMAIN playbooks' \subseteq DOMAIN playbooks
               /\ \A c \in DOMAIN playbooks' : /\ playbooks'[c].success = playbooks[c].success
                                               /\ playbooks'[c].failure = playbooks[c].failure
    BY <2>1 DEF Write, PlaybookTypes, PlaybookTypeOK
  <2>2. CASE \E b \in Ids : DeletePlaybook(b)
    BY <2>2 DEF DeletePlaybook
  <2>3. CASE UNCHANGED playbooks
    BY <2>3
  <2>4. QED
    BY <2>1, <2>2, <2>3 DEF UpdatePlaybook, Toggle, DeleteEvent, StoreEvent, playbookVars,
                              database
<1>3. QED
  BY <1>1, <1>2, BooksKept

(* Whatever runs overlap, fail or are aborted, and whatever is edited meanwhile, counters
   never exceed the recorded executions, and a playbook that one run had at a time, with no
   run of it aborted, counts them all. *)
THEOREM CountersExplained == PlaybookSpec => []CountersTrue
<1>1. PlaybookInit => CounterInv
  <2>. SUFFICES ASSUME PlaybookInit
                PROVE  PlaybookTypes /\ Books
    BY DEF CounterInv
  <2>1. \A r \in Runs : DOMAIN todo[r] = {}
    BY DEF PlaybookInit
  <2>2. \A b \in DOMAIN playbooks : /\ playbooks[b].success = 0 /\ playbooks[b].failure = 0
                                    /\ rows[b]["success"] = 0 /\ rows[b]["failed"] = 0
    BY PlaybookAssumption DEF PlaybookInit, NewRow, NoRows, Statuses
  <2>3. QED
    BY <2>1, <2>2, InitTypes, CountersMeaning DEF Books, CopiesCovered, CopiesExact, Sole
<1>2. CounterInv /\ [PlaybookNext]_playbookVars => CounterInv'
  <2>. SUFFICES ASSUME PlaybookTypes, Books, [PlaybookNext]_playbookVars
                PROVE  PlaybookTypes' /\ Books'
    BY DEF CounterInv
  <2>1. ASSUME NEW r \in Runs, RunStep(r)
        PROVE  Books'
    BY <2>1, BooksStarted, BooksActed, BooksRecorded, BooksCounted, BooksAborted DEF RunStep
  <2>2. Books'
    BY <2>1, BooksCreated, BooksEdited DEF PlaybookNext
  <2>3. QED
    BY <2>2, NextTypes
<1>3. CounterInv => CountersTrue
  BY DEF CounterInv, Books
<1>4. QED
  BY <1>1, <1>2, <1>3, PTL DEF PlaybookSpec
=============================================================================
