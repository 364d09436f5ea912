----------------------------- MODULE StoreProofs -----------------------------
(***************************************************************************)
(* Proofs about CaseStore and Retention together, for both databases, any  *)
(* severities and tenants, and any number of events, cases, rules, notes,  *)
(* policies and days.                                                      *)
(***************************************************************************)
EXTENDS Retention, FiniteSetTheorems, SequenceTheorems, TLAPS

PolicyRow == [scope: Scopes, severity: Severities \cup {None}, cold_days: Nat,
              archive_enabled: BOOLEAN, delete_after_days: Nat, enabled: BOOLEAN,
              tenant: Headers]

(* The tables, with what their rows owe to the numbers the database has given: neither an
   id nor a number is ahead of them. *)
Counters ==
  /\ sqlite \in BOOLEAN
  /\ numbered \in [events: 0..MaxEvents, rules: 0..MaxRules]
  /\ unaudited \in 0..MaxFaults
  /\ now \in Nat

EventRows ==
  /\ DOMAIN events \subseteq 1..numbered.events
  /\ \A e \in DOMAIN events : events[e] \in Event /\ events[e].nth <= numbered.events

CaseRows ==
  /\ cases \in Seq(Case) /\ Len(cases) <= MaxCases
  /\ \A c \in DOMAIN cases : cases[c].closed <=> cases[c].status = "CLOSED"
  /\ links \subseteq (1..MaxCases) \X (1..MaxEvents)
  /\ linked \subseteq (1..MaxCases) \X (1..MaxEvents) \X (1..numbered.events)

RuleRows ==
  /\ DOMAIN rules \subseteq 1..numbered.rules
  /\ \A r \in DOMAIN rules : rules[r] \in Rule /\ rules[r].name <= numbered.rules
  /\ loaded \subseteq [id: 1..numbered.rules, name: 1..numbered.rules, version: 1..MaxVersion]
  /\ lost \subseteq 1..numbered.rules

PolicyRows == policies \in Seq(PolicyRow)

StoreTypes == Counters /\ EventRows /\ CaseRows /\ RuleRows /\ PolicyRows

(* Every link was made by a user for the event that is under its id, or for an earlier one;
   on PostgreSQL it has its case and its event. *)
LinksMeant ==
  \A l \in links : \E k \in linked :
    /\ k[1] = l[1] /\ k[2] = l[2]
    /\ l[2] \in DOMAIN events =>
         k[3] = events[l[2]].nth \/ (sqlite /\ k[3] < events[l[2]].nth)

NothingDangles == ~sqlite => \A l \in links : l[1] \in DOMAIN cases /\ l[2] \in DOMAIN events

CaseInv == StoreTypes /\ LinksMeant /\ NothingDangles

(* On PostgreSQL a rule has the id it was numbered with, and so has the engine's copy. *)
NamesAreIds ==
  ~sqlite => /\ \A r \in DOMAIN rules : rules[r].name = r
             /\ \A copy \in loaded : copy.name = copy.id

RuleInv == StoreTypes /\ NamesAreIds /\ StaleRulesExplain
----------------------------------------------------------------------------
LEMMA TypesImplied == ASSUME StoreTypes PROVE StoreTypeOK
  BY CaseStoreAssumption
     DEF StoreTypes, Counters, EventRows, CaseRows, RuleRows, StoreTypeOK

LEMMA TypesInitially == ASSUME RetentionInit PROVE StoreTypes
<1>1. Counters
  BY CaseStoreAssumption DEF RetentionInit, StoreInit, Counters
<1>2. EventRows /\ RuleRows
  BY DEF RetentionInit, StoreInit, EventRows, RuleRows
<1>3. CaseRows /\ PolicyRows
  BY CaseStoreAssumption DEF RetentionInit, StoreInit, CaseRows, PolicyRows
<1> QED
  BY <1>1, <1>2, <1>3 DEF StoreTypes
----------------------------------------------------------------------------
(* What OnEventDetected does to the events: one row more, under an id no row has, or, if
   the database refuses the rule, none. *)
Logged(severity, tenant, copy) ==
  \E id \in 1..numbered.events + 1 :
    /\ id \notin DOMAIN events
    /\ DOMAIN events' = DOMAIN events \cup {id}
    /\ \A k \in DOMAIN events : events'[k] = events[k]
    /\ ~sqlite => id = numbered.events + 1
    /\ events'[id] = [nth |-> numbered.events + 1, severity |-> severity, tenant |-> tenant,
                      at |-> now, rule |-> copy.id, raisedBy |-> copy.name,
                      stale |-> IsStale(copy), archived |-> FALSE, acknowledged |-> FALSE]

LEMMA EventLogged ==
  ASSUME StoreTypes, NEW severity \in Severities, NEW tenant \in Tenants \cup {None},
         NEW copy \in loaded \cup {NoRule}, OnEventDetected(severity, tenant, copy)
  PROVE  /\ numbered.events + 1 \in 1..MaxEvents
         /\ numbered' = [numbered EXCEPT !.events = numbered.events + 1]
         /\ \/ /\ sqlite \/ copy.id \in DOMAIN rules \cup {0}
               /\ lost' = lost
               /\ Logged(severity, tenant, copy)
            \/ /\ ~sqlite /\ copy.id \notin DOMAIN rules \cup {0}
               /\ lost' = lost \cup {copy.name}
               /\ events' = events
<1> DEFINE n == numbered.events + 1
           row == [nth |-> n, severity |-> severity, tenant |-> tenant, at |-> now,
                   rule |-> copy.id, raisedBy |-> copy.name, stale |-> IsStale(copy),
                   archived |-> FALSE, acknowledged |-> FALSE]
<1>1. /\ n \in 1..MaxEvents /\ n \in Nat \ {0}
      /\ numbered' = [numbered EXCEPT !.events = n]
      /\ DOMAIN events \subseteq 1..n - 1
  BY CaseStoreAssumption
     DEF StoreTypes, Counters, EventRows, OnEventDetected, LogIntrusionEvent
<1>2. CASE sqlite \/ copy.id \in DOMAIN rules \cup {0}
  <2>1. lost' = lost /\ Insert(events, n, row)
    BY <1>2 DEF OnEventDetected, LogIntrusionEvent
  <2>2. PICK id \in 1..n : NextId(events, n, id) /\ events' = With(events, id, row)
    BY <2>1 DEF Insert
  <2>3. /\ id \notin DOMAIN events
        /\ DOMAIN events' = DOMAIN events \cup {id}
        /\ events'[id] = row
        /\ \A k \in DOMAIN events : events'[k] = events[k]
        /\ ~sqlite => id = n
    <3> HIDE DEF n, row
    <3> QED  BY <1>1, <2>2 DEF NextId, With
  <2> QED
    BY <1>1, <1>2, <2>1, <2>3 DEF Logged
<1>3. CASE ~(sqlite \/ copy.id \in DOMAIN rules \cup {0})
  BY <1>1, <1>3 DEF OnEventDetected, LogIntrusionEvent
<1> QED
  BY <1>2, <1>3

LEMMA RuleInserted ==
  ASSUME StoreTypes, NEW lifecycle \in Lifecycles, CreateRule(lifecycle)
  PROVE  /\ numbered.rules + 1 \in 1..MaxRules
         /\ numbered' = [numbered EXCEPT !.rules = numbered.rules + 1]
         /\ \E id \in 1..numbered.rules + 1 :
              /\ id \notin DOMAIN rules
              /\ DOMAIN rules' = DOMAIN rules \cup {id}
              /\ \A k \in DOMAIN rules : rules'[k] = rules[k]
              /\ ~sqlite => id = numbered.rules + 1
              /\ rules'[id] = [name |-> numbered.rules + 1, enabled |-> TRUE,
                               lifecycle |-> lifecycle, version |-> 1, trigger |-> 0]
<1> DEFINE n == numbered.rules + 1
           row == [name |-> n, enabled |-> TRUE, lifecycle |-> lifecycle, version |-> 1,
                   trigger |-> 0]
<1>1. /\ n \in 1..MaxRules
      /\ numbered' = [numbered EXCEPT !.rules = n]
      /\ DOMAIN rules \subseteq 1..n - 1
  BY CaseStoreAssumption DEF StoreTypes, Counters, RuleRows, CreateRule
<1>2. PICK id \in 1..n : NextId(rules, n, id) /\ rules' = With(rules, id, row)
  BY DEF CreateRule, Insert
<1>3. /\ id \notin DOMAIN rules
      /\ DOMAIN rules' = DOMAIN rules \cup {id}
      /\ rules'[id] = row
      /\ \A k \in DOMAIN rules : rules'[k] = rules[k]
      /\ ~sqlite => id = n
  <2> HIDE DEF n, row
  <2> QED  BY <1>1, <1>2 DEF NextId, With
<1> QED
  BY <1>1, <1>3

(* What the engine may raise an event for. *)
LEMMA CopyTypes ==
  ASSUME StoreTypes, NEW copy \in loaded \cup {NoRule}
  PROVE  /\ copy.id \in 0..numbered.rules /\ copy.name \in 0..numbered.rules
         /\ copy.id # 0 => copy \in loaded /\ copy.name \in 1..numbered.rules
  BY DEF StoreTypes, Counters, RuleRows, NoRule

LEMMA EventNumbers ==
  ASSUME StoreTypes, NEW e \in DOMAIN events
  PROVE  events[e] \in Event /\ events[e].nth \in 1..numbered.events /\ e \in Nat
  BY DEF StoreTypes, Counters, EventRows, Event

(* A case is changed and stays a case. *)
LEMMA CaseChanged ==
  ASSUME StoreTypes, NEW c \in DOMAIN cases, NEW case \in Case,
         case.closed <=> case.status = "CLOSED", cases' = [cases EXCEPT ![c] = case],
         UNCHANGED <<links, linked, numbered>>
  PROVE  CaseRows'
<1>1. cases \in Seq(Case) /\ c \in 1..Len(cases)
  BY DEF StoreTypes, CaseRows
<1>2. cases' \in Seq(Case) /\ Len(cases') = Len(cases)
  BY <1>1, ExceptSeq
<1>3. \A k \in DOMAIN cases' : cases'[k].closed <=> cases'[k].status = "CLOSED"
  BY <1>1, <1>2 DEF StoreTypes, CaseRows
<1> QED
  BY <1>2, <1>3 DEF StoreTypes, CaseRows

LEMMA DetectionTypes ==
  ASSUME StoreTypes, NEW severity \in Severities, NEW tenant \in Tenants \cup {None},
         NEW copy \in loaded \cup {NoRule}, OnEventDetected(severity, tenant, copy),
         UNCHANGED policies
  PROVE  StoreTypes'
<1>1. /\ numbered.events + 1 \in 1..MaxEvents
      /\ numbered' = [numbered EXCEPT !.events = numbered.events + 1]
      /\ \/ /\ lost' = lost
            /\ Logged(severity, tenant, copy)
         \/ /\ ~sqlite /\ copy.id \notin DOMAIN rules \cup {0}
            /\ lost' = lost \cup {copy.name}
            /\ events' = events
  BY EventLogged
<1>2. /\ copy.id \in 0..numbered.rules /\ copy.name \in 0..numbered.rules
      /\ copy.id # 0 => copy.name \in 1..numbered.rules
  BY CopyTypes
<1>e. \A e \in DOMAIN events : events[e] \in Event /\ events[e].nth \in 1..numbered.events
  BY EventNumbers
<1> USE DEF StoreTypes
<1>3. /\ numbered \in [events: 0..MaxEvents, rules: 0..MaxRules]
      /\ numbered'.events = numbered.events + 1 /\ numbered'.rules = numbered.rules
      /\ numbered' \in [events: 0..MaxEvents, rules: 0..MaxRules]
      /\ MaxRules \in Nat /\ MaxEvents \in Nat
  BY <1>1, CaseStoreAssumption DEF Counters
<1>4. /\ UNCHANGED <<sqlite, cases, links, linked, loaded, unaudited, now>>
      /\ UpdateRuleLastTrigger(copy)
  BY DEF OnEventDetected, caseVars
<1>5. Counters'
  BY <1>3, <1>4 DEF Counters
<1>6. EventRows'
  <2>1. CASE events' = events
    BY <2>1, <1>3, <1>e DEF EventRows
  <2>2. CASE Logged(severity, tenant, copy)
    <3>1. PICK id \in 1..numbered.events + 1 :
            /\ DOMAIN events' = DOMAIN events \cup {id}
            /\ \A k \in DOMAIN events : events'[k] = events[k]
            /\ events'[id] = [nth |-> numbered.events + 1, severity |-> severity,
                              tenant |-> tenant, at |-> now, rule |-> copy.id,
                              raisedBy |-> copy.name, stale |-> IsStale(copy),
                              archived |-> FALSE, acknowledged |-> FALSE]
      BY <2>2 DEF Logged
    <3>2. IsStale(copy) \in BOOLEAN
      BY DEF IsStale
    <3>3. events'[id] \in Event /\ events'[id].nth = numbered.events + 1
      BY <1>1, <1>2, <1>3, <3>1, <3>2 DEF Event, Counters
    <3>4. DOMAIN events' \subseteq 1..numbered.events + 1
      BY <1>3, <3>1 DEF EventRows
    <3>5. \A e \in DOMAIN events' : events'[e] \in Event /\ events'[e].nth <= numbered.events + 1
      <4>1. numbered.events \in Nat
        BY <1>3
      <4> SUFFICES ASSUME NEW e \in DOMAIN events'
                   PROVE  events'[e] \in Event /\ events'[e].nth <= numbered.events + 1
        OBVIOUS
      <4>2. CASE e = id
        BY <4>1, <4>2, <3>3
      <4>3. CASE e \in DOMAIN events
        <5>1. events'[e] = events[e] /\ events[e] \in Event /\ events[e].nth \in 1..numbered.events
          BY <1>e, <3>1, <4>3
        <5> QED  BY <4>1, <5>1
      <4> QED
        BY <3>1, <4>2, <4>3
    <3> QED
      BY <1>3, <3>4, <3>5 DEF EventRows
  <2> QED
    BY <2>1, <2>2, <1>1
<1>7. CaseRows'
  BY <1>3, <1>4 DEF CaseRows
<1>8. RuleRows'
  <2>1. lost' \subseteq 1..numbered.rules
    BY <1>1, <1>2 DEF RuleRows
  <2>2. /\ DOMAIN rules' = DOMAIN rules
        /\ \A r \in DOMAIN rules : rules'[r] \in Rule /\ rules'[r].name = rules[r].name
    BY <1>2, <1>3, <1>4 DEF UpdateRuleLastTrigger, RuleRows, Rule
  <2> QED
    BY <1>3, <1>4, <2>1, <2>2 DEF RuleRows
<1>9. PolicyRows'
  BY DEF PolicyRows
<1> QED
  BY <1>5, <1>6, <1>7, <1>8, <1>9

(* An endpoint may fail to write its audit row. *)
LEMMA AuditTypes ==
  ASSUME Counters, Audited
  PROVE  unaudited' \in 0..MaxFaults
  BY CaseStoreAssumption DEF Counters, Audited

LEMMA EventEditTypes ==
  ASSUME StoreTypes, NEW e \in DOMAIN events, UNCHANGED policies,
         AcknowledgeEventEndpoint(e) \/ DeleteEventEndpoint(e)
  PROVE  StoreTypes'
<1> USE DEF StoreTypes, AcknowledgeEventEndpoint, DeleteEventEndpoint
<1>1. Counters'
  BY AuditTypes DEF AcknowledgeEvent, DeleteEvent, Counters
<1>2. EventRows'
  <2>1. numbered' = numbered
    BY DEF AcknowledgeEvent, DeleteEvent
  <2>2. CASE AcknowledgeEvent(e)
    <3>1. /\ DOMAIN events' = DOMAIN events
          /\ events'[e] = [events[e] EXCEPT !.acknowledged = TRUE]
          /\ \A k \in DOMAIN events \ {e} : events'[k] = events[k]
      BY <2>2 DEF AcknowledgeEvent
    <3>2. events'[e] \in Event /\ events'[e].nth = events[e].nth
      BY <3>1 DEF EventRows, Event
    <3> QED
      BY <2>1, <3>1, <3>2 DEF EventRows
  <2>3. CASE DeleteEvent(e)
    BY <2>1, <2>3 DEF DeleteEvent, EventRows, Without, Restrict
  <2> QED
    BY <2>2, <2>3
<1>3. CaseRows'
  BY DEF AcknowledgeEvent, DeleteEvent, CaseRows, caseVars, AfterDelete
<1>4. RuleRows' /\ PolicyRows'
  BY DEF AcknowledgeEvent, DeleteEvent, RuleRows, ruleVars, PolicyRows
<1> QED
  BY <1>1, <1>2, <1>3, <1>4

LEMMA CaseStepTypes ==
  ASSUME StoreTypes, CaseStep, UNCHANGED policies
  PROVE  StoreTypes'
<1> USE DEF StoreTypes
<1> DEFINE Rest == UNCHANGED <<sqlite, events, rules, loaded, numbered, now, lost>> /\ Audited
<1>1. ASSUME Rest, CaseRows'
      PROVE  StoreTypes'
  <2>1. Counters'
    BY <1>1, AuditTypes DEF Counters
  <2>2. EventRows' /\ RuleRows' /\ PolicyRows'
    BY <1>1 DEF EventRows, RuleRows, PolicyRows
  <2> QED
    BY <1>1, <2>1, <2>2
<1>2. ASSUME NEW ids \in SUBSET (1..MaxEvents), CreateCaseEndpoint(ids)
      PROVE  StoreTypes'
  <2>1. Rest
    BY <1>2 DEF CreateCaseEndpoint, CreateCase, ruleVars
  <2> DEFINE new == [status |-> "OPEN", closed |-> FALSE, notes |-> 0]
             c == Len(cases) + 1
  <2>2. c \in 1..MaxCases /\ cases' = Append(cases, new) /\ new \in Case
    BY <1>2, CaseStoreAssumption
       DEF CreateCaseEndpoint, CreateCase, CaseRows, Case, Statuses
  <2>3. cases' \in Seq(Case) /\ Len(cases') = c /\ \A k \in 1..Len(cases) : cases'[k] = cases[k]
    BY <2>2 DEF CaseRows
  <2>4. \A k \in DOMAIN cases' : cases'[k].closed <=> cases'[k].status = "CLOSED"
    BY <2>2, <2>3 DEF CaseRows
  <2>5. \A e \in ids \cap DOMAIN events : events[e].nth \in 1..numbered.events
    BY DEF EventRows, Event, Counters
  <2>6. /\ links' = links \cup ({c} \X (ids \cap DOMAIN events))
        /\ linked' = linked \cup {<<c, e, events[e].nth>> : e \in ids \cap DOMAIN events}
    BY <1>2 DEF CreateCaseEndpoint, CreateCase, Link
  <2>7. /\ links' \subseteq (1..MaxCases) \X (1..MaxEvents)
        /\ linked' \subseteq (1..MaxCases) \X (1..MaxEvents) \X (1..numbered.events)
    <3> HIDE DEF c
    <3> QED  BY <2>2, <2>5, <2>6 DEF CaseRows
  <2> HIDE DEF new
  <2>8. CaseRows'
    BY <2>1, <2>2, <2>3, <2>4, <2>7 DEF CaseRows
  <2> QED
    BY <1>1, <2>1, <2>8
<1>3. ASSUME NEW c \in DOMAIN cases, NEW status \in Statuses, UpdateCaseEndpoint(c, status)
      PROVE  StoreTypes'
  <2>1. Rest
    BY <1>3 DEF UpdateCaseEndpoint, UpdateCase, ruleVars
  <2>2. cases' = [cases EXCEPT ![c].status = status, ![c].closed = (status = "CLOSED")]
    BY <1>3 DEF UpdateCaseEndpoint, UpdateCase
  <2> DEFINE case == [cases[c] EXCEPT !.status = status, !.closed = (status = "CLOSED")]
  <2>3. cases[c] \in Case
    BY DEF CaseRows
  <2>4. case \in Case /\ (case.closed <=> case.status = "CLOSED")
    BY <2>3 DEF Case
  <2>5. cases' = [cases EXCEPT ![c] = case]
    BY <2>2
  <2>6. UNCHANGED <<links, linked, numbered>>
    BY <1>3 DEF UpdateCaseEndpoint, UpdateCase
  <2>7. CaseRows'
    <3> HIDE DEF case, StoreTypes
    <3> QED  BY <2>4, <2>5, <2>6, CaseChanged
  <2> QED
    BY <1>1, <2>1, <2>7
<1>4. ASSUME NEW c \in DOMAIN cases, AddCaseNoteEndpoint(c)
      PROVE  StoreTypes'
  <2>1. Rest
    BY <1>4 DEF AddCaseNoteEndpoint, AddCaseNote, ruleVars
  <2>2. cases[c].notes < MaxNotes /\ cases' = [cases EXCEPT ![c].notes = @ + 1]
    BY <1>4 DEF AddCaseNoteEndpoint, AddCaseNote
  <2> DEFINE case == [cases[c] EXCEPT !.notes = @ + 1]
  <2>3. cases[c] \in Case /\ (cases[c].closed <=> cases[c].status = "CLOSED")
    BY DEF CaseRows
  <2>4. case \in Case /\ (case.closed <=> case.status = "CLOSED")
    BY <2>2, <2>3, CaseStoreAssumption DEF Case
  <2>5. cases' = [cases EXCEPT ![c] = case]
    BY <2>2
  <2>6. UNCHANGED <<links, linked, numbered>>
    BY <1>4 DEF AddCaseNoteEndpoint, AddCaseNote
  <2>7. CaseRows'
    <3> HIDE DEF case, StoreTypes
    <3> QED  BY <2>4, <2>5, <2>6, CaseChanged
  <2> QED
    BY <1>1, <2>1, <2>7
<1>5. ASSUME NEW c \in DOMAIN cases, NEW e \in 1..MaxEvents, LinkCaseEventEndpoint(c, e)
      PROVE  StoreTypes'
  <2>1. Rest
    BY <1>5 DEF LinkCaseEventEndpoint, LinkCaseEvent, ruleVars
  <2>2. e \in DOMAIN events /\ events[e].nth \in 1..numbered.events
    BY <1>5 DEF LinkCaseEventEndpoint, LinkCaseEvent, EventRows, Event, Counters
  <2>3. c \in 1..MaxCases
    BY CaseStoreAssumption DEF CaseRows
  <2>4. CaseRows'
    BY <1>5, <2>2, <2>3
       DEF LinkCaseEventEndpoint, LinkCaseEvent, Link, CaseRows
  <2> QED
    BY <1>1, <2>1, <2>4
<1>6. ASSUME NEW c \in DOMAIN cases, NEW e \in 1..MaxEvents, UnlinkCaseEventEndpoint(c, e)
      PROVE  StoreTypes'
  <2>1. Rest
    BY <1>6 DEF UnlinkCaseEventEndpoint, UnlinkCaseEvent, ruleVars
  <2>2. CaseRows'
    BY <1>6 DEF UnlinkCaseEventEndpoint, UnlinkCaseEvent, CaseRows
  <2> QED
    BY <1>1, <2>1, <2>2
<1> QED
  BY <1>2, <1>3, <1>4, <1>5, <1>6 DEF CaseStep

LEMMA RuleStepTypes ==
  ASSUME StoreTypes, RuleStep, UNCHANGED policies
  PROVE  StoreTypes'
<1>e. \A e \in DOMAIN events : events[e] \in Event
  BY EventNumbers
<1> DEFINE Rest == UNCHANGED <<sqlite, cases, links, linked, now, lost>>
           Count == unaudited' \in 0..MaxFaults /\ numbered'.events = numbered.events
                    /\ numbered' \in [events: 0..MaxEvents, rules: 0..MaxRules]
<1>1. ASSUME Rest, Count, EventRows', RuleRows'
      PROVE  StoreTypes'
  BY <1>1 DEF StoreTypes, Counters, CaseRows, PolicyRows
<1>2. ASSUME Audited PROVE unaudited' \in 0..MaxFaults
  BY <1>2, AuditTypes DEF StoreTypes
<1>3. ASSUME NEW lifecycle \in Lifecycles, CreateRuleEndpoint(lifecycle)
      PROVE  StoreTypes'
  <2>1. CreateRule(lifecycle) /\ Rest /\ UNCHANGED <<events, loaded>> /\ unaudited' \in 0..MaxFaults
    BY <1>2, <1>3 DEF CreateRuleEndpoint, CreateRule, caseVars
  <2>2. /\ numbered.rules + 1 \in 1..MaxRules
        /\ numbered' = [numbered EXCEPT !.rules = numbered.rules + 1]
    BY <2>1, RuleInserted
  <2>3. PICK id \in 1..numbered.rules + 1 :
              /\ DOMAIN rules' = DOMAIN rules \cup {id}
              /\ \A k \in DOMAIN rules : rules'[k] = rules[k]
              /\ rules'[id] = [name |-> numbered.rules + 1, enabled |-> TRUE,
                               lifecycle |-> lifecycle, version |-> 1, trigger |-> 0]
    BY <2>1, RuleInserted
  <2>4. /\ numbered.rules \in Nat /\ numbered'.rules = numbered.rules + 1
        /\ numbered'.events = numbered.events
        /\ numbered' \in [events: 0..MaxEvents, rules: 0..MaxRules]
    BY <2>2, CaseStoreAssumption DEF StoreTypes, Counters
  <2>5. rules'[id] \in Rule
    BY <2>2, <2>3, CaseStoreAssumption DEF Rule, Lifecycles
  <2>r. /\ \A r \in DOMAIN rules : rules[r] \in Rule /\ rules[r].name \in 1..numbered.rules
        /\ DOMAIN rules \subseteq 1..numbered.rules
    BY DEF StoreTypes, RuleRows, Rule, Counters
  <2>l. loaded' \subseteq [id: 1..numbered'.rules, name: 1..numbered'.rules,
                           version: 1..MaxVersion] /\ lost' \subseteq 1..numbered'.rules
    BY <2>1, <2>4 DEF StoreTypes, RuleRows
  <2>6. RuleRows'
    <3>1. DOMAIN rules' \subseteq 1..numbered'.rules
      BY <2>3, <2>4, <2>r
    <3>2. ASSUME NEW r \in DOMAIN rules'
          PROVE  rules'[r] \in Rule /\ rules'[r].name <= numbered'.rules
      <4>1. CASE r = id
        <5>1. rules'[id].name = numbered.rules + 1
          BY <2>3
        <5> QED  BY <2>4, <2>5, <4>1, <5>1
      <4>2. CASE r \in DOMAIN rules
        <5>1. rules'[r] = rules[r] /\ rules[r] \in Rule /\ rules[r].name \in 1..numbered.rules
          BY <2>3, <2>r, <4>2
        <5> QED  BY <2>4, <5>1
      <4> QED
        BY <2>3, <4>1, <4>2
    <3> QED
      BY <2>l, <3>1, <3>2 DEF RuleRows
  <2>7. EventRows'
    BY <2>1, <2>4 DEF StoreTypes, EventRows
  <2> QED
    BY <1>1, <2>1, <2>4, <2>6, <2>7
<1>4. ASSUME NEW r \in DOMAIN rules, NEW row \in Rule, row.name = rules[r].name,
             rules' = [rules EXCEPT ![r] = row],
             Rest, UNCHANGED <<events, loaded, numbered>>, Audited
      PROVE  StoreTypes'
  <2>1. EventRows' /\ Count
    BY <1>2, <1>4 DEF StoreTypes, Counters, EventRows
  <2>2. RuleRows'
    BY <1>4 DEF StoreTypes, RuleRows
  <2> QED
    BY <1>1, <1>4, <2>1, <2>2
<1>5. ASSUME NEW r \in DOMAIN rules, NEW on \in BOOLEAN, NEW lifecycle \in Lifecycles,
             UpdateRule(r, on, lifecycle), Audited
      PROVE  StoreTypes'
  <2> DEFINE row == [rules[r] EXCEPT !.enabled = on, !.lifecycle = lifecycle, !.version = @ + 1]
  <2>1. rules[r] \in Rule /\ rules[r].version < MaxVersion
    BY <1>5 DEF StoreTypes, RuleRows, UpdateRule
  <2>2. row \in Rule /\ row.name = rules[r].name
    <3>1. rules[r].version + 1 \in 1..MaxVersion
      BY <2>1, CaseStoreAssumption DEF Rule
    <3> QED  BY <2>1, <3>1 DEF Rule
  <2>3. rules' = [rules EXCEPT ![r] = row] /\ Rest /\ UNCHANGED <<events, loaded, numbered>>
    BY <1>5 DEF UpdateRule, caseVars
  <2> HIDE DEF row
  <2> QED
    BY <1>4, <1>5, <2>2, <2>3
<1>6. ASSUME NEW r \in DOMAIN rules, ToggleRuleEndpoint(r)
      PROVE  StoreTypes'
  <2> DEFINE row == [rules[r] EXCEPT !.enabled = ~@]
  <2>1. rules[r] \in Rule
    BY DEF StoreTypes, RuleRows
  <2>2. row \in Rule /\ row.name = rules[r].name
    BY <2>1 DEF Rule
  <2>3. /\ rules' = [rules EXCEPT ![r] = row] /\ Rest /\ Audited
        /\ UNCHANGED <<events, loaded, numbered>>
    BY <1>6 DEF ToggleRuleEndpoint, ToggleRule, caseVars
  <2> HIDE DEF row
  <2> QED
    BY <1>4, <2>2, <2>3
<1>7. ASSUME NEW r \in DOMAIN rules, DeleteRuleEndpoint(r)
      PROVE  StoreTypes'
  <2>1. Rest /\ UNCHANGED <<loaded, numbered>> /\ unaudited' \in 0..MaxFaults
    BY <1>2, <1>7 DEF DeleteRuleEndpoint, DeleteRule, caseVars
  <2>2. RuleRows'
    BY <1>7, <2>1 DEF DeleteRuleEndpoint, DeleteRule, Without, Restrict, StoreTypes, RuleRows
  <2>3. events' = [e \in DOMAIN events |->
                     IF events[e].rule = r THEN [events[e] EXCEPT !.rule = 0] ELSE events[e]]
    BY <1>7 DEF DeleteRuleEndpoint, DeleteRule
  <2>4. \A e \in DOMAIN events :
          /\ [events[e] EXCEPT !.rule = 0] \in Event
          /\ [events[e] EXCEPT !.rule = 0].nth = events[e].nth
    BY <1>e, CaseStoreAssumption DEF Event
  <2>5. EventRows'
    BY <2>1, <2>3, <2>4 DEF StoreTypes, EventRows
  <2>6. Count
    BY <2>1 DEF StoreTypes, Counters
  <2> QED
    BY <1>1, <2>1, <2>2, <2>5, <2>6
<1>8. ASSUME LoadRules, Rest, UNCHANGED <<events, rules, numbered>>, unaudited' \in 0..MaxFaults
      PROVE  StoreTypes'
  <2>1. loaded' \subseteq [id: 1..numbered.rules, name: 1..numbered.rules, version: 1..MaxVersion]
    BY <1>8 DEF LoadRules, Active, CopyOf, StoreTypes, Counters, RuleRows, Rule
  <2>2. RuleRows' /\ EventRows' /\ Count
    BY <1>8, <2>1 DEF StoreTypes, Counters, RuleRows, EventRows
  <2> QED
    BY <1>1, <1>8, <2>2
<1>9. CASE ReloadRules
  BY <1>2, <1>8, <1>9 DEF ReloadRules, caseVars
<1>10. CASE Restart
  BY <1>8, <1>10 DEF Restart, caseVars, StoreTypes, Counters
<1>11. ASSUME NEW r \in DOMAIN rules, NEW on \in BOOLEAN, NEW l \in Lifecycles,
              UpdateRuleEndpoint(r, on, l)
       PROVE  StoreTypes'
  BY <1>5, <1>11 DEF UpdateRuleEndpoint
<1>12. ASSUME NEW r \in DOMAIN rules, NEW l \in Lifecycles, PromoteRuleLifecycle(r, l)
       PROVE  StoreTypes'
  <2>1. rules[r].enabled \in BOOLEAN
    BY DEF StoreTypes, RuleRows, Rule
  <2> QED
    BY <1>5, <1>12, <2>1 DEF PromoteRuleLifecycle
<1> QED
  BY <1>3, <1>6, <1>7, <1>9, <1>10, <1>11, <1>12 DEF RuleStep

LEMMA FormRow ==
  ASSUME NEW form \in Forms, NEW tenant \in Headers
  PROVE  WithTenant(form, tenant) \in PolicyRow
  BY RetentionAssumption DEF Form, PolicyRow, WithTenant

LEMMA RetentionStepTypes ==
  ASSUME StoreTypes, RetentionStep
  PROVE  StoreTypes'
<1> DEFINE Rest == UNCHANGED <<sqlite, cases, linked, rules, loaded, numbered, now, lost>>
                   /\ Audited
<1>1. ASSUME Rest, EventRows', PolicyRows', links' \subseteq links
      PROVE  StoreTypes'
  <2>1. unaudited' \in 0..MaxFaults
    BY <1>1, AuditTypes DEF StoreTypes
  <2> QED
    BY <1>1, <2>1 DEF StoreTypes, Counters, CaseRows, RuleRows
<1>2. ASSUME NEW header \in Headers, NEW apply \in BOOLEAN, NEW confirm \in BOOLEAN,
             RetentionExecute(header, apply, confirm)
      PROVE  StoreTypes'
  <2> DEFINE gone == Deleted(header, apply)
             aged == Archived(header)
  <2>1. /\ Rest /\ UNCHANGED policies /\ links' = AfterDelete(gone)
        /\ events' = [e \in DOMAIN events \ gone |->
                        IF e \in aged THEN [events[e] EXCEPT !.archived = TRUE] ELSE events[e]]
    BY <1>2 DEF RetentionExecute, ExecuteRetention, ruleVars
  <2>2. links' \subseteq links
    BY <2>1 DEF AfterDelete
  <2> HIDE DEF gone, aged
  <2>3. \A e \in DOMAIN events :
          /\ [events[e] EXCEPT !.archived = TRUE] \in Event
          /\ [events[e] EXCEPT !.archived = TRUE].nth = events[e].nth
    BY EventNumbers DEF Event
  <2>4. EventRows'
    BY <2>1, <2>3 DEF StoreTypes, EventRows
  <2>5. PolicyRows'
    BY <2>1 DEF StoreTypes, PolicyRows
  <2> QED
    BY <1>1, <2>1, <2>2, <2>4, <2>5
<1>3. ASSUME UNCHANGED <<sqlite, events, caseVars, ruleVars, numbered, now, lost>>, Audited,
             PolicyRows'
      PROVE  StoreTypes'
  <2>1. EventRows' /\ Rest /\ links' = links
    BY <1>3 DEF StoreTypes, EventRows, caseVars, ruleVars
  <2> QED
    BY <1>1, <1>3, <2>1
<1>4. ASSUME NEW header \in Headers, NEW form \in Forms,
             CreateRetentionPolicyEndpoint(form, header)
      PROVE  StoreTypes'
  <2>1. policies' = Append(policies, WithTenant(form, header))
    BY <1>4 DEF CreateRetentionPolicyEndpoint, CreateRetentionPolicy
  <2>2. PolicyRows'
    BY <2>1, FormRow DEF StoreTypes, PolicyRows
  <2> QED
    BY <1>3, <1>4, <2>2 DEF CreateRetentionPolicyEndpoint, CreateRetentionPolicy
<1>5. ASSUME NEW header \in Headers, NEW form \in Forms, NEW i \in DOMAIN policies,
             UpdateRetentionPolicyEndpoint(i, form, header)
      PROVE  StoreTypes'
  <2>1. policies' = [policies EXCEPT ![i] = WithTenant(form, policies[i].tenant)]
    BY <1>5 DEF UpdateRetentionPolicyEndpoint, UpdateRetentionPolicy
  <2>2. policies \in Seq(PolicyRow) /\ i \in 1..Len(policies)
    BY DEF StoreTypes, PolicyRows
  <2>3. policies[i].tenant \in Headers
    <3>1. policies[i] \in PolicyRow
      BY <2>2
    <3> QED  BY <3>1 DEF PolicyRow
  <2>4. WithTenant(form, policies[i].tenant) \in PolicyRow
    BY <2>3, FormRow
  <2>5. PolicyRows'
    BY <2>1, <2>2, <2>4, ExceptSeq DEF PolicyRows
  <2> QED
    BY <1>3, <1>5, <2>5 DEF UpdateRetentionPolicyEndpoint, UpdateRetentionPolicy
<1>6. ASSUME NEW header \in Headers, NEW i \in DOMAIN policies,
             DeleteRetentionPolicyEndpoint(i, header)
      PROVE  StoreTypes'
  <2>1. policies' = SubSeq(policies, 1, i - 1) \o SubSeq(policies, i + 1, Len(policies))
    BY <1>6 DEF DeleteRetentionPolicyEndpoint, DeleteRetentionPolicy, RemoveAt
  <2>2. policies \in Seq(PolicyRow) /\ i \in 1..Len(policies)
    BY DEF StoreTypes, PolicyRows
  <2>3. /\ SubSeq(policies, 1, i - 1) \in Seq(PolicyRow)
        /\ SubSeq(policies, i + 1, Len(policies)) \in Seq(PolicyRow)
    BY <2>2
  <2>4. PolicyRows'
    BY <2>1, <2>3 DEF PolicyRows
  <2> QED
    BY <1>3, <1>6, <2>4 DEF DeleteRetentionPolicyEndpoint, DeleteRetentionPolicy
<1> QED
  BY <1>2, <1>4, <1>5, <1>6 DEF RetentionStep

LEMMA TypesKept ==
  ASSUME StoreTypes, [RetentionNext]_retentionVars
  PROVE  StoreTypes'
<1>1. CASE EventStep /\ UNCHANGED policies
  BY <1>1, DetectionTypes, EventEditTypes DEF EventStep
<1>2. CASE CaseStep /\ UNCHANGED policies
  BY <1>2, CaseStepTypes
<1>3. CASE RuleStep /\ UNCHANGED policies
  BY <1>3, RuleStepTypes
<1>4. CASE RetentionStep
  BY <1>4, RetentionStepTypes
<1>5. CASE NextDay
  BY <1>5 DEF NextDay, caseVars, ruleVars, StoreTypes, Counters, EventRows, CaseRows, RuleRows,
              PolicyRows
<1>6. CASE UNCHANGED retentionVars
  BY <1>6 DEF retentionVars, storeVars, caseVars, ruleVars, StoreTypes, Counters, EventRows,
              CaseRows, RuleRows, PolicyRows
<1> QED
  BY <1>1, <1>2, <1>3, <1>4, <1>5, <1>6 DEF RetentionNext

LEMMA AlwaysTyped == RetentionSpec => []StoreTypes
  BY TypesInitially, TypesKept, PTL DEF RetentionSpec

(* Every table keeps rows of its kind under the ids the database has given, and closed_at
   is set exactly on closed cases. *)
THEOREM StoreTypeCorrect == RetentionSpec => []StoreTypeOK
<1>1. StoreTypes => StoreTypeOK
  BY TypesImplied
<1> QED
  BY <1>1, AlwaysTyped, PTL
----------------------------------------------------------------------------
(* Links.  Nothing is linked, and no event comes back under an id in use. *)
LEMMA LinksFramed ==
  ASSUME CaseInv, sqlite' = sqlite, links' \subseteq links, linked' = linked,
         DOMAIN cases \subseteq DOMAIN cases',
         DOMAIN events' \subseteq DOMAIN events,
         \A e \in DOMAIN events' : events'[e].nth = events[e].nth,
         ~sqlite => \A l \in links' : l[2] \in DOMAIN events'
  PROVE  LinksMeant' /\ NothingDangles'
<1>1. LinksMeant'
  BY DEF CaseInv, LinksMeant
<1>2. NothingDangles'
  BY DEF CaseInv, NothingDangles
<1> QED
  BY <1>1, <1>2

(* A new event is numbered after all that any link was made for, and on PostgreSQL no link
   waits under its id. *)
LEMMA LinksLogged ==
  ASSUME CaseInv, NEW severity \in Severities, NEW tenant \in Tenants \cup {None},
         NEW copy \in loaded \cup {NoRule}, OnEventDetected(severity, tenant, copy)
  PROVE  LinksMeant' /\ NothingDangles'
<1>1. sqlite' = sqlite /\ cases' = cases /\ links' = links /\ linked' = linked
  BY DEF OnEventDetected, caseVars
<1>2. \/ events' = events
      \/ Logged(severity, tenant, copy)
  BY EventLogged DEF CaseInv
<1>3. CASE events' = events
  BY <1>1, <1>3 DEF CaseInv, LinksMeant, NothingDangles
<1>4. CASE Logged(severity, tenant, copy)
  <2>1. PICK id \in 1..numbered.events + 1 :
          /\ id \notin DOMAIN events
          /\ DOMAIN events' = DOMAIN events \cup {id}
          /\ \A k \in DOMAIN events : events'[k] = events[k]
          /\ events'[id].nth = numbered.events + 1
    BY <1>4 DEF Logged
  <2>2. \A k \in linked : k[3] \in 1..numbered.events
    BY DEF CaseInv, StoreTypes, CaseRows
  <2>3. numbered.events \in Nat
    BY DEF CaseInv, StoreTypes, Counters
  <2>4. ASSUME NEW l \in links
        PROVE  \E k \in linked :
                 /\ k[1] = l[1] /\ k[2] = l[2]
                 /\ l[2] \in DOMAIN events' =>
                      k[3] = events'[l[2]].nth \/ (sqlite /\ k[3] < events'[l[2]].nth)
    <3>1. PICK k \in linked :
            /\ k[1] = l[1] /\ k[2] = l[2]
            /\ l[2] \in DOMAIN events =>
                 k[3] = events[l[2]].nth \/ (sqlite /\ k[3] < events[l[2]].nth)
      BY DEF CaseInv, LinksMeant
    <3>2. CASE l[2] = id
      <4>1. sqlite
        BY <2>1, <3>2 DEF CaseInv, NothingDangles
      <4>2. k[3] < events'[l[2]].nth
        BY <2>1, <2>2, <2>3, <3>2
      <4> QED
        BY <3>1, <4>1, <4>2
    <3>3. CASE l[2] # id
      BY <2>1, <3>1, <3>3
    <3> QED
      BY <3>2, <3>3
  <2>5. LinksMeant'
    BY <1>1, <2>4 DEF LinksMeant
  <2>6. NothingDangles'
    BY <1>1, <2>1 DEF CaseInv, NothingDangles
  <2> QED
    BY <2>5, <2>6
<1> QED
  BY <1>2, <1>3, <1>4

(* A link is made together with its entry in the history, for an event that is there. *)
LEMMA LinksMade ==
  ASSUME CaseInv, NEW c \in DOMAIN cases', NEW ids \in SUBSET DOMAIN events, Link(c, ids),
         UNCHANGED <<sqlite, events>>, DOMAIN cases \subseteq DOMAIN cases'
  PROVE  LinksMeant' /\ NothingDangles'
<1>1. /\ links' = links \cup {<<c, e>> : e \in ids}
      /\ linked' = linked \cup {<<c, e, events[e].nth>> : e \in ids}
  BY DEF Link
<1>2. LinksMeant'
  <2> SUFFICES ASSUME NEW l \in links'
               PROVE  \E k \in linked' :
                        /\ k[1] = l[1] /\ k[2] = l[2]
                        /\ l[2] \in DOMAIN events =>
                             k[3] = events[l[2]].nth \/ (sqlite /\ k[3] < events[l[2]].nth)
    BY DEF LinksMeant
  <2>1. CASE l \in links
    BY <1>1, <2>1 DEF CaseInv, LinksMeant
  <2>2. ASSUME NEW e \in ids, l = <<c, e>>
        PROVE  \E k \in linked' :
                 /\ k[1] = l[1] /\ k[2] = l[2]
                 /\ l[2] \in DOMAIN events => k[3] = events[l[2]].nth
    <3>1. <<c, e, events[e].nth>> \in linked'
      BY <1>1
    <3> QED
      BY <2>2, <3>1
  <2> QED
    BY <1>1, <2>1, <2>2
<1>3. NothingDangles'
  <2> SUFFICES ASSUME ~sqlite, NEW l \in links'
               PROVE  l[1] \in DOMAIN cases' /\ l[2] \in DOMAIN events
    BY DEF NothingDangles
  <2>1. CASE l \in links
    BY <2>1 DEF CaseInv, NothingDangles
  <2>2. CASE l \notin links
    BY <1>1, <2>2
  <2> QED
    BY <2>1, <2>2
<1> QED
  BY <1>2, <1>3

LEMMA LinksUnmade ==
  ASSUME CaseInv, NEW c, NEW e, UnlinkCaseEvent(c, e)
  PROVE  LinksMeant' /\ NothingDangles'
<1>1. /\ links' = links \ {<<c, e>>}
      /\ linked' = {l \in linked : <<l[1], l[2]>> # <<c, e>>}
      /\ UNCHANGED <<sqlite, events, cases>>
  BY DEF UnlinkCaseEvent
<1>2. \A l \in links' : l = <<l[1], l[2]>>
  BY <1>1 DEF CaseInv, StoreTypes, CaseRows
<1>3. LinksMeant'
  <2> SUFFICES ASSUME NEW l \in links'
               PROVE  \E k \in linked' :
                        /\ k[1] = l[1] /\ k[2] = l[2]
                        /\ l[2] \in DOMAIN events =>
                             k[3] = events[l[2]].nth \/ (sqlite /\ k[3] < events[l[2]].nth)
    BY <1>1 DEF LinksMeant
  <2>1. PICK k \in linked :
          /\ k[1] = l[1] /\ k[2] = l[2]
          /\ l[2] \in DOMAIN events =>
               k[3] = events[l[2]].nth \/ (sqlite /\ k[3] < events[l[2]].nth)
    BY <1>1 DEF CaseInv, LinksMeant
  <2>2. k \in linked'
    BY <1>1, <1>2, <2>1
  <2> QED
    BY <2>1, <2>2
<1>4. NothingDangles'
  BY <1>1 DEF CaseInv, NothingDangles
<1> QED
  BY <1>3, <1>4

LEMMA CaseStepLinks ==
  ASSUME CaseInv, StoreTypes', CaseStep
  PROVE  LinksMeant' /\ NothingDangles'
<1>0. cases \in Seq(Case) /\ (~sqlite => \A l \in links : l[2] \in DOMAIN events)
  BY DEF CaseInv, StoreTypes, CaseRows, NothingDangles
<1>1. ASSUME NEW ids \in SUBSET (1..MaxEvents), CreateCaseEndpoint(ids)
      PROVE  LinksMeant' /\ NothingDangles'
  <2>1. /\ Link(Len(cases) + 1, ids \cap DOMAIN events)
        /\ UNCHANGED <<sqlite, events>>
        /\ cases' = Append(cases, [status |-> "OPEN", closed |-> FALSE, notes |-> 0])
    BY <1>1 DEF CreateCaseEndpoint, CreateCase
  <2>2. Len(cases) + 1 \in DOMAIN cases' /\ DOMAIN cases \subseteq DOMAIN cases'
    BY <1>0, <2>1
  <2> QED
    BY <2>1, <2>2, LinksMade
<1>2. ASSUME NEW c \in DOMAIN cases,
             \/ \E status \in Statuses : UpdateCaseEndpoint(c, status)
             \/ AddCaseNoteEndpoint(c)
      PROVE  LinksMeant' /\ NothingDangles'
  <2>1. /\ UNCHANGED <<sqlite, events, links, linked>>
        /\ DOMAIN cases' = DOMAIN cases
    BY <1>2 DEF UpdateCaseEndpoint, UpdateCase, AddCaseNoteEndpoint, AddCaseNote
  <2> QED
    BY <1>0, <2>1, LinksFramed
<1>3. ASSUME NEW c \in DOMAIN cases, NEW e, LinkCaseEventEndpoint(c, e)
      PROVE  LinksMeant' /\ NothingDangles'
  <2>1. Link(c, {e}) /\ e \in DOMAIN events /\ UNCHANGED <<sqlite, events, cases>>
    BY <1>3 DEF LinkCaseEventEndpoint, LinkCaseEvent
  <2> QED
    BY <2>1, LinksMade
<1>4. ASSUME NEW c, NEW e, UnlinkCaseEventEndpoint(c, e)
      PROVE  LinksMeant' /\ NothingDangles'
  BY <1>4, LinksUnmade DEF UnlinkCaseEventEndpoint
<1> QED
  BY <1>1, <1>2, <1>3, <1>4 DEF CaseStep

LEMMA RuleStepLinks ==
  ASSUME CaseInv, RuleStep
  PROVE  LinksMeant' /\ NothingDangles'
<1>1. UNCHANGED <<sqlite, cases, links, linked>>
  BY DEF RuleStep, CreateRuleEndpoint, CreateRule, UpdateRuleEndpoint, PromoteRuleLifecycle,
         UpdateRule, ToggleRuleEndpoint, ToggleRule, DeleteRuleEndpoint, DeleteRule,
         ReloadRules, Restart, caseVars
<1>2. DOMAIN events' = DOMAIN events /\ \A e \in DOMAIN events : events'[e].nth = events[e].nth
  <2>1. CASE \E r \in DOMAIN rules : DeleteRuleEndpoint(r)
    <3>1. PICK r \in DOMAIN rules :
            events' = [e \in DOMAIN events |->
              IF events[e].rule = r THEN [events[e] EXCEPT !.rule = 0] ELSE events[e]]
      BY <2>1 DEF DeleteRuleEndpoint, DeleteRule
    <3>2. \A e \in DOMAIN events : [events[e] EXCEPT !.rule = 0].nth = events[e].nth
      BY EventNumbers DEF CaseInv, Event
    <3> QED
      BY <3>1, <3>2
  <2>2. CASE ~\E r \in DOMAIN rules : DeleteRuleEndpoint(r)
    BY <2>2 DEF RuleStep, CreateRuleEndpoint, CreateRule, UpdateRuleEndpoint,
                PromoteRuleLifecycle, UpdateRule, ToggleRuleEndpoint, ToggleRule,
                ReloadRules, Restart
  <2> QED
    BY <2>1, <2>2
<1> QED
  BY <1>1, <1>2, LinksFramed DEF CaseInv, NothingDangles

(* Events go, and on PostgreSQL their links with them. *)
LEMMA LinksDeleted ==
  ASSUME CaseInv, NEW gone, links' = AfterDelete(gone), DOMAIN events' = DOMAIN events \ gone,
         \A e \in DOMAIN events' : events'[e].nth = events[e].nth,
         UNCHANGED <<sqlite, cases, linked>>
  PROVE  LinksMeant' /\ NothingDangles'
<1>1. links' \subseteq links /\ (~sqlite => \A l \in links' : l[2] \in DOMAIN events')
  BY DEF AfterDelete, CaseInv, NothingDangles
<1> QED
  BY <1>1, LinksFramed

LEMMA EventEditLinks ==
  ASSUME CaseInv, NEW e \in DOMAIN events,
         AcknowledgeEventEndpoint(e) \/ DeleteEventEndpoint(e)
  PROVE  LinksMeant' /\ NothingDangles'
<1>1. CASE AcknowledgeEvent(e)
  <2>1. /\ UNCHANGED <<sqlite, cases, links, linked>>
        /\ DOMAIN events' = DOMAIN events
        /\ \A k \in DOMAIN events : events'[k].nth = events[k].nth
    BY <1>1, EventNumbers DEF AcknowledgeEvent, caseVars, CaseInv, Event
  <2> QED
    BY <2>1, LinksFramed DEF CaseInv, NothingDangles
<1>2. CASE DeleteEvent(e)
  BY <1>2, LinksDeleted DEF DeleteEvent, Without, Restrict
<1> QED
  BY <1>1, <1>2 DEF AcknowledgeEventEndpoint, DeleteEventEndpoint

LEMMA RetentionStepLinks ==
  ASSUME CaseInv, RetentionStep
  PROVE  LinksMeant' /\ NothingDangles'
<1>1. ASSUME NEW header \in Headers, NEW apply \in BOOLEAN, NEW confirm \in BOOLEAN,
             RetentionExecute(header, apply, confirm)
      PROVE  LinksMeant' /\ NothingDangles'
  <2> DEFINE gone == Deleted(header, apply)
             aged == Archived(header)
  <2>1. /\ links' = AfterDelete(gone) /\ UNCHANGED <<sqlite, cases, linked>>
        /\ events' = [e \in DOMAIN events \ gone |->
                        IF e \in aged THEN [events[e] EXCEPT !.archived = TRUE] ELSE events[e]]
    BY <1>1 DEF RetentionExecute, ExecuteRetention
  <2> HIDE DEF gone, aged
  <2>2. \A e \in DOMAIN events : [events[e] EXCEPT !.archived = TRUE].nth = events[e].nth
    BY EventNumbers DEF CaseInv, Event
  <2> QED
    BY <2>1, <2>2, LinksDeleted
<1>2. CASE UNCHANGED <<sqlite, events, caseVars>>
  BY <1>2, LinksFramed DEF CaseInv, NothingDangles, caseVars
<1> QED
  BY <1>1, <1>2
     DEF RetentionStep, CreateRetentionPolicyEndpoint, CreateRetentionPolicy,
         UpdateRetentionPolicyEndpoint, UpdateRetentionPolicy, DeleteRetentionPolicyEndpoint,
         DeleteRetentionPolicy

LEMMA CaseInvKept ==
  ASSUME CaseInv, [RetentionNext]_retentionVars
  PROVE  CaseInv'
<1>1. StoreTypes'
  BY TypesKept DEF CaseInv
<1>2. CASE EventStep
  BY <1>1, <1>2, LinksLogged, EventEditLinks DEF EventStep, CaseInv
<1>3. CASE CaseStep
  BY <1>1, <1>3, CaseStepLinks DEF CaseInv
<1>4. CASE RuleStep
  BY <1>1, <1>4, RuleStepLinks DEF CaseInv
<1>5. CASE RetentionStep
  BY <1>1, <1>5, RetentionStepLinks DEF CaseInv
<1>6. CASE NextDay \/ UNCHANGED retentionVars
  BY <1>1, <1>6
     DEF NextDay, retentionVars, storeVars, caseVars, CaseInv, LinksMeant, NothingDangles
<1> QED
  BY <1>2, <1>3, <1>4, <1>5, <1>6 DEF RetentionNext

(* A case shows only events its users linked to it or, where the database gave the id of a
   deleted event again, a later one in its place; on PostgreSQL no link is left without its
   case or event. *)
THEOREM CasesShowTheirEvents == RetentionSpec => []CaseShowsItsEvents
<1>1. RetentionInit => CaseInv
  BY TypesInitially DEF RetentionInit, StoreInit, CaseInv, LinksMeant, NothingDangles
<1>2. CaseInv => CaseShowsItsEvents
  BY DEF CaseInv, LinksMeant, NothingDangles, CaseShowsItsEvents, GetCaseDetail, ListCaseEvents
<1> QED
  BY <1>1, <1>2, CaseInvKept, PTL DEF RetentionSpec
----------------------------------------------------------------------------
(* Rules.  No rule comes or goes, and events keep theirs or go. *)
LEMMA RulesFramed ==
  ASSUME RuleInv, sqlite' = sqlite, lost' = lost,
         DOMAIN rules' = DOMAIN rules,
         \A r \in DOMAIN rules : rules'[r].name = rules[r].name
                                 /\ rules'[r].trigger = rules[r].trigger,
         DOMAIN events' \subseteq DOMAIN events,
         \A e \in DOMAIN events' : /\ events'[e].rule = events[e].rule
                                   /\ events'[e].raisedBy = events[e].raisedBy
                                   /\ events'[e].stale = events[e].stale,
         \A copy \in loaded' \ loaded : copy.id \in DOMAIN rules
                                      /\ copy.name = rules[copy.id].name
  PROVE  NamesAreIds' /\ StaleRulesExplain'
<1>1. NamesAreIds'
  BY DEF RuleInv, NamesAreIds
<1>2. StaleRulesExplain'
  BY DEF RuleInv, StaleRulesExplain
<1> QED
  BY <1>1, <1>2

(* The engine raises an event for a rule it has, which may be gone. *)
LEMMA RulesLogged ==
  ASSUME RuleInv, NEW severity \in Severities, NEW tenant \in Tenants \cup {None},
         NEW copy \in loaded \cup {NoRule}, OnEventDetected(severity, tenant, copy)
  PROVE  NamesAreIds' /\ StaleRulesExplain'
<1>1. /\ sqlite' = sqlite /\ loaded' = loaded
      /\ rules' = IF copy.id \in DOMAIN rules
                  THEN [rules EXCEPT ![copy.id].trigger = copy.name] ELSE rules
  BY DEF OnEventDetected, UpdateRuleLastTrigger
<1>2. \/ /\ sqlite \/ copy.id \in DOMAIN rules \cup {0}
         /\ lost' = lost
         /\ Logged(severity, tenant, copy)
      \/ /\ ~sqlite /\ copy.id \notin DOMAIN rules \cup {0}
         /\ lost' = lost \cup {copy.name}
         /\ events' = events
  BY EventLogged DEF RuleInv
<1>3. copy.id # 0 => copy \in loaded
  BY CopyTypes DEF RuleInv
<1>4. ASSUME ~sqlite, copy.id # 0
      PROVE  copy.name = copy.id /\ \A r \in DOMAIN rules : rules[r].name = r
  BY <1>3, <1>4 DEF RuleInv, NamesAreIds
<1>5. 0 \notin DOMAIN rules
  BY DEF RuleInv, StoreTypes, RuleRows
<1>r. \A r \in DOMAIN rules : rules[r] \in Rule
  BY DEF RuleInv, StoreTypes, RuleRows
<1>6. /\ DOMAIN rules' = DOMAIN rules
      /\ \A r \in DOMAIN rules : rules'[r].name = rules[r].name
      /\ \A r \in DOMAIN rules : rules'[r].trigger = rules[r].trigger
                                 \/ (r = copy.id /\ rules'[r].trigger = copy.name)
  <2>1. CASE copy.id \notin DOMAIN rules
    <3>1. rules' = rules
      BY <1>1, <2>1
    <3> QED
      BY <3>1
  <2>2. CASE copy.id \in DOMAIN rules
    <3>1. rules' = [rules EXCEPT ![copy.id] = [rules[copy.id] EXCEPT !.trigger = copy.name]]
      BY <1>1, <2>2
    <3>2. /\ [rules[copy.id] EXCEPT !.trigger = copy.name].name = rules[copy.id].name
          /\ [rules[copy.id] EXCEPT !.trigger = copy.name].trigger = copy.name
      BY <1>r, <2>2 DEF Rule
    <3>3. /\ rules'[copy.id].name = rules[copy.id].name
          /\ rules'[copy.id].trigger = copy.name
      BY <2>2, <3>1, <3>2
    <3>4. \A r \in DOMAIN rules : r # copy.id => rules'[r] = rules[r]
      BY <2>2, <3>1
    <3>5. DOMAIN rules' = DOMAIN rules
      BY <3>1
    <3>6. \A r \in DOMAIN rules :
            /\ rules'[r].name = rules[r].name
            /\ rules'[r].trigger = rules[r].trigger
               \/ (r = copy.id /\ rules'[r].trigger = copy.name)
      BY <3>3, <3>4
    <3> QED
      BY <3>5, <3>6
  <2> QED
    BY <2>1, <2>2
<1>7. NamesAreIds'
  BY <1>1, <1>6 DEF RuleInv, NamesAreIds
<1>8. \A r \in DOMAIN rules' : rules'[r].trigger \in {0, rules'[r].name} \/ sqlite'
  <2>1. \A r \in DOMAIN rules : rules[r].trigger \in {0, rules[r].name} \/ sqlite
    BY DEF RuleInv, StaleRulesExplain
  <2> QED
    BY <1>1, <1>4, <1>5, <1>6, <2>1
<1>9. lost' # {} => ~sqlite' /\ \A n \in lost' : \A r \in DOMAIN rules' : rules'[r].name # n
  <2>1. lost # {} => ~sqlite /\ \A n \in lost : \A r \in DOMAIN rules : rules[r].name # n
    BY DEF RuleInv, StaleRulesExplain
  <2>2. ASSUME ~sqlite, copy.id \notin DOMAIN rules \cup {0}
        PROVE  \A r \in DOMAIN rules : rules[r].name # copy.name
    BY <1>4, <2>2
  <2> QED
    BY <1>1, <1>2, <1>6, <2>1, <2>2
<1>10. \A e \in DOMAIN events' :
         events'[e].rule # 0 =>
           \/ /\ events'[e].rule \in DOMAIN rules'
              /\ rules'[events'[e].rule].name = events'[e].raisedBy
           \/ sqlite' /\ events'[e].stale
  <2>1. \A e \in DOMAIN events :
          events[e].rule # 0 =>
            \/ events[e].rule \in DOMAIN rules /\ rules[events[e].rule].name = events[e].raisedBy
            \/ sqlite /\ events[e].stale
    BY DEF RuleInv, StaleRulesExplain
  <2>2. CASE events' = events
    BY <1>1, <1>6, <2>1, <2>2
  <2>3. CASE Logged(severity, tenant, copy) /\ (sqlite \/ copy.id \in DOMAIN rules \cup {0})
    <3>1. PICK id \in 1..numbered.events + 1 :
            /\ DOMAIN events' = DOMAIN events \cup {id}
            /\ \A k \in DOMAIN events : events'[k] = events[k]
            /\ events'[id].rule = copy.id
            /\ events'[id].raisedBy = copy.name
            /\ events'[id].stale = IsStale(copy)
      BY <2>3 DEF Logged
    <3>2. copy.id # 0 =>
            \/ copy.id \in DOMAIN rules /\ rules[copy.id].name = copy.name
            \/ sqlite /\ IsStale(copy)
      BY <1>4, <2>3 DEF IsStale, NoRule
    <3>3. \A k \in DOMAIN events :
            events'[k].rule # 0 =>
              \/ /\ events'[k].rule \in DOMAIN rules'
                 /\ rules'[events'[k].rule].name = events'[k].raisedBy
              \/ sqlite' /\ events'[k].stale
      BY <1>1, <1>6, <2>1, <3>1
    <3>4. events'[id].rule # 0 =>
              \/ /\ events'[id].rule \in DOMAIN rules'
                 /\ rules'[events'[id].rule].name = events'[id].raisedBy
              \/ sqlite' /\ events'[id].stale
      BY <1>1, <1>6, <3>1, <3>2
    <3> QED
      BY <3>1, <3>3, <3>4
  <2> QED
    BY <1>2, <2>2, <2>3
<1> QED
  BY <1>7, <1>8, <1>9, <1>10 DEF StaleRulesExplain

(* A rule is created under a name nothing has, and on PostgreSQL under that number. *)
LEMMA RulesCreated ==
  ASSUME RuleInv, NEW lifecycle \in Lifecycles, CreateRule(lifecycle)
  PROVE  NamesAreIds' /\ StaleRulesExplain'
<1> DEFINE n == numbered.rules + 1
<1>1. UNCHANGED <<sqlite, events, loaded, lost>>
  BY DEF CreateRule
<1>2. PICK id \in 1..n :
        /\ id \notin DOMAIN rules
        /\ DOMAIN rules' = DOMAIN rules \cup {id}
        /\ \A k \in DOMAIN rules : rules'[k] = rules[k]
        /\ ~sqlite => id = n
        /\ rules'[id] = [name |-> n, enabled |-> TRUE, lifecycle |-> lifecycle, version |-> 1,
                         trigger |-> 0]
  BY RuleInserted DEF RuleInv
<1>i. rules'[id].name = n /\ rules'[id].trigger = 0
  BY <1>2
<1>3. n \notin lost
  BY DEF RuleInv, StoreTypes, Counters, RuleRows
<1> HIDE DEF n
<1>4. NamesAreIds'
  BY <1>1, <1>2, <1>i DEF RuleInv, NamesAreIds
<1>5. \A e \in DOMAIN events :
        events[e].rule # 0 =>
          \/ /\ events[e].rule \in DOMAIN rules
             /\ rules[events[e].rule].name = events[e].raisedBy
          \/ sqlite /\ events[e].stale
  BY DEF RuleInv, StaleRulesExplain
<1>6. lost # {} => ~sqlite /\ \A m \in lost : \A r \in DOMAIN rules : rules[r].name # m
  BY DEF RuleInv, StaleRulesExplain
<1>7. \A r \in DOMAIN rules : rules[r].trigger \in {0, rules[r].name} \/ sqlite
  BY DEF RuleInv, StaleRulesExplain
<1>8. /\ lost' # {} => ~sqlite' /\ \A m \in lost' : \A r \in DOMAIN rules' : rules'[r].name # m
      /\ \A r \in DOMAIN rules' : rules'[r].trigger \in {0, rules'[r].name} \/ sqlite'
  BY <1>1, <1>2, <1>i, <1>3, <1>6, <1>7
<1>9. \A e \in DOMAIN events' :
        events'[e].rule # 0 =>
          \/ /\ events'[e].rule \in DOMAIN rules'
             /\ rules'[events'[e].rule].name = events'[e].raisedBy
          \/ sqlite' /\ events'[e].stale
  BY <1>1, <1>2, <1>5
<1> QED
  BY <1>4, <1>8, <1>9 DEF StaleRulesExplain

(* No event is left under a rule that is deleted. *)
LEMMA RulesDeleted ==
  ASSUME RuleInv, NEW r, DeleteRule(r)
  PROVE  NamesAreIds' /\ StaleRulesExplain'
<1>1. /\ UNCHANGED <<sqlite, loaded, lost>>
      /\ DOMAIN rules' = DOMAIN rules \ {r}
      /\ \A k \in DOMAIN rules' : rules'[k] = rules[k]
      /\ events' = [e \in DOMAIN events |->
                      IF events[e].rule = r THEN [events[e] EXCEPT !.rule = 0] ELSE events[e]]
  BY DEF DeleteRule, Without, Restrict
<1>2. \A e \in DOMAIN events : [events[e] EXCEPT !.rule = 0].rule = 0
  BY EventNumbers DEF RuleInv, Event
<1>3. \A e \in DOMAIN events' :
        events'[e].rule # 0 => events'[e] = events[e] /\ events[e].rule # r
  BY <1>1, <1>2
<1>4. NamesAreIds'
  BY <1>1 DEF RuleInv, NamesAreIds
<1>5. StaleRulesExplain'
  BY <1>1, <1>3 DEF RuleInv, StaleRulesExplain
<1> QED
  BY <1>4, <1>5

LEMMA RuleStepRules ==
  ASSUME RuleInv, RuleStep
  PROVE  NamesAreIds' /\ StaleRulesExplain'
<1>r. \A r \in DOMAIN rules : rules[r] \in Rule
  BY DEF RuleInv, StoreTypes, RuleRows
<1>1. ASSUME NEW r \in DOMAIN rules, NEW on, NEW l, UpdateRule(r, on, l)
      PROVE  NamesAreIds' /\ StaleRulesExplain'
  <2>1. /\ UNCHANGED <<sqlite, events, loaded, lost>>
        /\ DOMAIN rules' = DOMAIN rules
        /\ \A k \in DOMAIN rules : rules'[k].name = rules[k].name
                                   /\ rules'[k].trigger = rules[k].trigger
    BY <1>1, <1>r DEF UpdateRule, Rule
  <2>2. \A copy \in loaded' \ loaded : copy.id \in DOMAIN rules
                                      /\ copy.name = rules[copy.id].name
    BY <2>1
  <2>3. /\ sqlite' = sqlite /\ lost' = lost
        /\ DOMAIN events' \subseteq DOMAIN events
        /\ \A e \in DOMAIN events' : /\ events'[e].rule = events[e].rule
                                     /\ events'[e].raisedBy = events[e].raisedBy
                                     /\ events'[e].stale = events[e].stale
    BY <2>1
  <2> QED
    BY <2>1, <2>2, <2>3, RulesFramed
<1>2. ASSUME NEW r \in DOMAIN rules, ToggleRule(r)
      PROVE  NamesAreIds' /\ StaleRulesExplain'
  <2>1. /\ UNCHANGED <<sqlite, events, loaded, lost>>
        /\ DOMAIN rules' = DOMAIN rules
        /\ \A k \in DOMAIN rules : rules'[k].name = rules[k].name
                                   /\ rules'[k].trigger = rules[k].trigger
    BY <1>2, <1>r DEF ToggleRule, Rule
  <2>2. \A copy \in loaded' \ loaded : copy.id \in DOMAIN rules
                                      /\ copy.name = rules[copy.id].name
    BY <2>1
  <2>3. /\ sqlite' = sqlite /\ lost' = lost
        /\ DOMAIN events' \subseteq DOMAIN events
        /\ \A e \in DOMAIN events' : /\ events'[e].rule = events[e].rule
                                     /\ events'[e].raisedBy = events[e].raisedBy
                                     /\ events'[e].stale = events[e].stale
    BY <2>1
  <2> QED
    BY <2>1, <2>2, <2>3, RulesFramed
<1>3. CASE ReloadRules \/ Restart
  <2>1. UNCHANGED <<sqlite, events, rules, lost>> /\ LoadRules
    BY <1>3 DEF ReloadRules, Restart
  <2>2. \A copy \in loaded' \ loaded : copy.id \in DOMAIN rules
                                      /\ copy.name = rules[copy.id].name
    BY <2>1 DEF LoadRules, Active, CopyOf
  <2>3. /\ sqlite' = sqlite /\ lost' = lost /\ DOMAIN rules' = DOMAIN rules
        /\ \A k \in DOMAIN rules : rules'[k].name = rules[k].name
                                  /\ rules'[k].trigger = rules[k].trigger
        /\ DOMAIN events' \subseteq DOMAIN events
        /\ \A e \in DOMAIN events' : /\ events'[e].rule = events[e].rule
                                     /\ events'[e].raisedBy = events[e].raisedBy
                                     /\ events'[e].stale = events[e].stale
    BY <2>1
  <2> QED
    BY <2>2, <2>3, RulesFramed
<1> QED
  BY <1>1, <1>2, <1>3, RulesCreated, RulesDeleted
     DEF RuleStep, CreateRuleEndpoint, UpdateRuleEndpoint, PromoteRuleLifecycle,
         ToggleRuleEndpoint, DeleteRuleEndpoint

(* What an acknowledgement or an archiving leaves of an event, and what a deletion. *)
LEMMA RulesAside ==
  ASSUME RuleInv, UNCHANGED <<sqlite, rules, loaded, lost>>,
         DOMAIN events' \subseteq DOMAIN events,
         \A e \in DOMAIN events' :
           events'[e] \in {events[e], [events[e] EXCEPT !.acknowledged = TRUE],
                           [events[e] EXCEPT !.archived = TRUE]}
  PROVE  NamesAreIds' /\ StaleRulesExplain'
<1>1. \A e \in DOMAIN events' : /\ events'[e].rule = events[e].rule
                                /\ events'[e].raisedBy = events[e].raisedBy
                                /\ events'[e].stale = events[e].stale
  BY EventNumbers DEF RuleInv, Event
<1>2. \A copy \in loaded' \ loaded : copy.id \in DOMAIN rules
                                    /\ copy.name = rules[copy.id].name
  OBVIOUS
<1>3. /\ sqlite' = sqlite /\ lost' = lost /\ DOMAIN rules' = DOMAIN rules
      /\ \A r \in DOMAIN rules : rules'[r].name = rules[r].name
                                /\ rules'[r].trigger = rules[r].trigger
  OBVIOUS
<1> QED
  BY <1>1, <1>2, <1>3, RulesFramed

LEMMA RuleInvKept ==
  ASSUME RuleInv, [RetentionNext]_retentionVars
  PROVE  RuleInv'
<1>1. StoreTypes'
  BY TypesKept DEF RuleInv
<1>2. CASE EventStep
  <2>1. ASSUME NEW e \in DOMAIN events, AcknowledgeEventEndpoint(e)
        PROVE  RuleInv'
    BY <1>1, <2>1, RulesAside DEF AcknowledgeEventEndpoint, AcknowledgeEvent, ruleVars, RuleInv
  <2>2. ASSUME NEW e \in DOMAIN events, DeleteEventEndpoint(e)
        PROVE  RuleInv'
    BY <1>1, <2>2, RulesAside
       DEF DeleteEventEndpoint, DeleteEvent, Without, Restrict, ruleVars, RuleInv
  <2> QED
    BY <1>1, <1>2, <2>1, <2>2, RulesLogged DEF EventStep, RuleInv
<1>3. CASE RuleStep
  BY <1>1, <1>3, RuleStepRules DEF RuleInv
<1>4. CASE UNCHANGED <<sqlite, events, ruleVars, lost>>
  BY <1>1, <1>4, RulesAside DEF RuleInv, ruleVars
<1>5. CASE CaseStep
  BY <1>4, <1>5
     DEF CaseStep, CreateCaseEndpoint, CreateCase, UpdateCaseEndpoint, UpdateCase,
         AddCaseNoteEndpoint, AddCaseNote, LinkCaseEventEndpoint, LinkCaseEvent,
         UnlinkCaseEventEndpoint, UnlinkCaseEvent
<1>6. ASSUME NEW header \in Headers, NEW apply \in BOOLEAN, NEW confirm \in BOOLEAN,
             RetentionExecute(header, apply, confirm)
      PROVE  RuleInv'
  BY <1>1, <1>6, RulesAside DEF RetentionExecute, ExecuteRetention, ruleVars, RuleInv
<1>7. CASE RetentionStep
  BY <1>4, <1>6, <1>7
     DEF RetentionStep, CreateRetentionPolicyEndpoint, CreateRetentionPolicy,
         UpdateRetentionPolicyEndpoint, UpdateRetentionPolicy, DeleteRetentionPolicyEndpoint,
         DeleteRetentionPolicy
<1>8. CASE NextDay \/ UNCHANGED retentionVars
  BY <1>4, <1>8 DEF NextDay, retentionVars, storeVars
<1> QED
  BY <1>2, <1>3, <1>5, <1>7, <1>8 DEF RetentionNext

(* An event is refused, or stands under another rule than its own, only because the engine
   went on with a rule deleted since it was loaded: refused on PostgreSQL, under the wrong
   rule on SQLite, where alone a rule's trigger may be another's. *)
THEOREM StaleRulesOnly == RetentionSpec => []StaleRulesExplain
<1>1. RetentionInit => RuleInv
  BY TypesInitially DEF RetentionInit, StoreInit, RuleInv, NamesAreIds, StaleRulesExplain
<1>2. RuleInv => StaleRulesExplain
  BY DEF RuleInv
<1> QED
  BY <1>1, <1>2, RuleInvKept, PTL DEF RetentionSpec
----------------------------------------------------------------------------
(* Tenants.  A policy of a tenant for all its events comes before any other. *)
LEMMA TenantFirst ==
  ASSUME PolicyRows, NEW event \in Event, NEW header \in Headers,
         Visible(event, header),
         NEW i \in DOMAIN policies, policies[i].enabled, policies[i].scope = "tenant",
         policies[i].tenant # None, policies[i].tenant = event.tenant,
         NEW chosen \in PolicyFor(event, header)
  PROVE  policies[chosen].scope = "tenant"
<1>1. i \in Enabled(header) /\ Applies(policies[i], event)
  BY DEF Visible, Enabled, Applies
<1>2. chosen = i \/ Precedes(chosen, i)
  BY <1>1 DEF PolicyFor
<1>3. policies[chosen].scope \in Scopes
  <2>1. policies[chosen] \in PolicyRow
    BY DEF PolicyFor, Enabled, PolicyRows
  <2> QED
    BY <2>1 DEF PolicyRow
<1> QED
  BY <1>2, <1>3 DEF Precedes, Rank, Scopes

(* Maintenance for a tenant archives and deletes events of that tenant or of none, each
   under a policy of its own tenant or of none, and under the tenant's own policy for all
   its events where there is one. *)
THEOREM TenantsStayApart == RetentionSpec => []TenantsApart
<1>1. ASSUME StoreTypes PROVE TenantsApart
  <2> SUFFICES ASSUME NEW header \in Headers,
                      NEW e \in Archived(header) \cup Deleted(header, TRUE)
               PROVE  /\ header # None => events[e].tenant \in {header, None}
                      /\ \A chosen \in PolicyFor(events[e], header) :
                           /\ policies[chosen].tenant \in {events[e].tenant, None}
                           /\ (\E i \in DOMAIN policies :
                                 policies[i].enabled /\ policies[i].scope = "tenant"
                                 /\ policies[i].tenant # None
                                 /\ policies[i].tenant = events[e].tenant)
                                => policies[chosen].scope = "tenant"
    BY DEF TenantsApart
  <2>1. e \in DOMAIN events /\ Visible(events[e], header)
    BY DEF Archived, Deleted, Reviewed
  <2>2. events[e] \in Event
    BY <1>1, <2>1, EventNumbers
  <2>3. header # None => events[e].tenant \in {header, None}
    BY <2>1 DEF Visible
  <2>4. ASSUME NEW chosen \in PolicyFor(events[e], header)
        PROVE  policies[chosen].tenant \in {events[e].tenant, None}
    BY DEF PolicyFor, Applies
  <2>5. ASSUME NEW chosen \in PolicyFor(events[e], header), NEW i \in DOMAIN policies,
               policies[i].enabled, policies[i].scope = "tenant", policies[i].tenant # None,
               policies[i].tenant = events[e].tenant
        PROVE  policies[chosen].scope = "tenant"
    BY <1>1, <2>1, <2>2, <2>5, TenantFirst DEF StoreTypes
  <2> QED
    BY <2>3, <2>4, <2>5
<1> QED
  BY <1>1, AlwaysTyped, PTL
----------------------------------------------------------------------------
(* The dry run.  What an execution makes of an event: its archived_at, and nothing that a
   policy looks at. *)
LEMMA ExecutedEvents ==
  ASSUME StoreTypes, NEW header \in Headers, NEW apply \in BOOLEAN,
         ExecuteRetention(header, apply)
  PROVE  /\ UNCHANGED <<policies, now>>
         /\ DOMAIN events' = DOMAIN events \ Deleted(header, apply)
         /\ \A e \in DOMAIN events' :
              /\ events'[e].archived = (events[e].archived \/ e \in Archived(header))
              /\ events'[e].severity = events[e].severity
              /\ events'[e].tenant = events[e].tenant
              /\ events'[e].at = events[e].at
<1>1. /\ UNCHANGED <<policies, now>>
      /\ events' = [e \in DOMAIN events \ Deleted(header, apply) |->
                      IF e \in Archived(header) THEN [events[e] EXCEPT !.archived = TRUE]
                                                ELSE events[e]]
  BY DEF ExecuteRetention
<1>2. \A e \in DOMAIN events : events[e] \in Event
  BY DEF StoreTypes, EventRows
<1> QED
  BY <1>1, <1>2 DEF Event

LEMMA SameRuling ==
  ASSUME UNCHANGED <<policies, now>>, NEW header, NEW e,
         events'[e].severity = events[e].severity, events'[e].tenant = events[e].tenant,
         events'[e].at = events[e].at
  PROVE  /\ PolicyFor(events[e], header)' = PolicyFor(events[e], header)
         /\ Visible(events[e], header)' = Visible(events[e], header)
         /\ Age(events[e])' = Age(events[e])
<1>1. \A policy : Applies(policy, events'[e]) = Applies(policy, events[e])
  BY DEF Applies
<1>2. Enabled(header)' = Enabled(header)
  BY DEF Enabled, Visible
<1>3. \A i, j : Precedes(i, j)' = Precedes(i, j)
  BY DEF Precedes
<1>4. PolicyFor(events[e], header)' = PolicyFor(events[e], header)
  BY <1>1, <1>2, <1>3 DEF PolicyFor
<1> QED
  BY <1>4 DEF Visible, Age

(* Both transcriptions look at an event alike. *)
LEMMA CandidatesAre ==
  ASSUME NEW header
  PROVE  /\ ArchiveCandidates(header) = Archived(header)
         /\ DeleteCandidates(header) = Deleted(header, TRUE)
         /\ Deleted(header, FALSE) = {}
BY DEF ArchiveCandidates, DeleteCandidates, Archivable, Deletable, Archived, Deleted

LEMMA NothingLeft ==
  ASSUME StoreTypes, NEW header \in Headers, NEW apply \in BOOLEAN,
         ExecuteRetention(header, apply)
  PROVE  /\ ArchiveCandidates(header)' = {}
         /\ apply => DeleteCandidates(header)' = {}
<1>1. ASSUME NEW e \in Reviewed(header)'
      PROVE  /\ e \in Reviewed(header) /\ e \in DOMAIN events'
             /\ PolicyFor(events[e], header)' = PolicyFor(events[e], header)
             /\ Age(events[e])' = Age(events[e])
  <2>1. e \in DOMAIN events' /\ Visible(events[e], header)'
    BY <1>1 DEF Reviewed
  <2>2. e \in DOMAIN events
    BY <2>1, ExecutedEvents
  <2>3. /\ UNCHANGED <<policies, now>>
        /\ events'[e].severity = events[e].severity /\ events'[e].tenant = events[e].tenant
        /\ events'[e].at = events[e].at
    BY <2>1, ExecutedEvents
  <2>4. /\ PolicyFor(events[e], header)' = PolicyFor(events[e], header)
        /\ Visible(events[e], header)' = Visible(events[e], header)
        /\ Age(events[e])' = Age(events[e])
    BY <2>3, SameRuling
  <2> QED
    BY <2>1, <2>2, <2>4 DEF Reviewed
<1>2. ASSUME NEW e \in ArchiveCandidates(header)'
      PROVE  FALSE
  <2>1. e \in Reviewed(header)'
    BY <1>2 DEF ArchiveCandidates
  <2>2. PICK i \in PolicyFor(events[e], header)' : Archivable(events[e], policies[i])'
    BY <1>2 DEF ArchiveCandidates
  <2>3. /\ i \in PolicyFor(events[e], header) /\ policies' = policies
        /\ policies[i].archive_enabled /\ ~events'[e].archived
        /\ Age(events[e]) >= policies[i].cold_days
    BY <1>1, <2>1, <2>2, ExecutedEvents DEF Archivable
  <2>4. ~events[e].archived /\ e \notin Archived(header)
    BY <1>1, <2>1, <2>3, ExecutedEvents
  <2> QED
    BY <1>1, <2>1, <2>3, <2>4 DEF Archived
<1>3. ASSUME apply, NEW e \in DeleteCandidates(header)'
      PROVE  FALSE
  <2>1. e \in Reviewed(header)'
    BY <1>3 DEF DeleteCandidates
  <2>2. PICK i \in PolicyFor(events[e], header)' : Deletable(events[e], policies[i])'
    BY <1>3 DEF DeleteCandidates
  <2>3. /\ i \in PolicyFor(events[e], header) /\ policies' = policies
        /\ policies[i].delete_after_days > 0
        /\ Age(events[e]) >= policies[i].delete_after_days
    BY <1>1, <2>1, <2>2, ExecutedEvents DEF Deletable
  <2>4. e \in Deleted(header, apply)
    BY <1>1, <1>3, <2>1, <2>3 DEF Deleted
  <2> QED
    BY <1>1, <2>1, <2>4, ExecutedEvents
<1> QED
  BY <1>2, <1>3

LEMMA ExecutionAnnounced ==
  ASSUME StoreTypes, NEW header \in Headers, NEW apply \in BOOLEAN,
         ExecuteRetention(header, apply)
  PROVE  CarriedOut(header, apply)
<1>. DEFINE gone  == DOMAIN events \ DOMAIN events'
            newly == {e \in DOMAIN events' : events'[e].archived /\ ~events[e].archived}
<1>1. IsFiniteSet(DOMAIN events)
  <2>1. DOMAIN events \subseteq 1..numbered.events /\ numbered.events \in Nat
    BY CaseStoreAssumption DEF StoreTypes, Counters, EventRows
  <2>2. IsFiniteSet(1..numbered.events)
    BY <2>1, FS_Interval
  <2> QED
    BY <2>1, <2>2, FS_Subset
<1>2. Archived(header) \subseteq DOMAIN events /\ Deleted(header, apply) \subseteq DOMAIN events
  BY DEF Archived, Deleted, Reviewed
<1>3. IsFiniteSet(Archived(header))
  BY <1>1, <1>2, FS_Subset
<1>4. gone = Deleted(header, apply)
  BY <1>2, ExecutedEvents
<1>5. Cardinality(gone) = IF apply THEN Preview(header).delete_candidates ELSE 0
  BY <1>4, CandidatesAre, FS_EmptySet DEF Preview
<1>6. \A e \in Archived(header) : ~events[e].archived
  BY DEF Archived
<1>7. newly = Archived(header) \ gone
  BY <1>2, <1>4, <1>6, ExecutedEvents
<1>8. Cardinality(newly) <= Preview(header).archive_candidates
  BY <1>3, <1>7, CandidatesAre, FS_Subset DEF Preview
<1>9. gone = {} => Cardinality(newly) = Preview(header).archive_candidates
  BY <1>7, CandidatesAre DEF Preview
<1>10. /\ Preview(header)'.archive_candidates = 0
       /\ apply => Preview(header)'.delete_candidates = 0
  BY NothingLeft, FS_EmptySet DEF Preview
<1> QED
  BY <1>5, <1>8, <1>9, <1>10 DEF CarriedOut

(* Maintenance does what its dry run announced, event for event in deletions, and all the
   archiving it announced where it deletes nothing; a second execution on the same day
   finds nothing to do. *)
THEOREM MaintenanceAsAnnounced == RetentionSpec => PreviewCarriedOut
<1>1. StoreTypes => [\A header \in Headers, apply_delete \in BOOLEAN :
        ExecuteRetention(header, apply_delete) => CarriedOut(header, apply_delete)]_retentionVars
  BY ExecutionAnnounced
<1> QED
  BY <1>1, AlwaysTyped, PTL DEF PreviewCarriedOut
=============================================================================
