------------------------------ MODULE CaseStore ------------------------------
(***************************************************************************)
(* Intrusion events, cases and alert rules: the functions of               *)
(* config/database_v2.py on these tables, the endpoints of api/main.py     *)
(* that call them, and the engine's copy of the rules.                     *)
(*                                                                         *)
(* Every endpoint validates, calls one database function and then          *)
(* audit_action, a transaction of its own; endpoints are coroutines        *)
(* without an await on the way, so each is one step.  A request that is    *)
(* refused changes nothing and is no step.  What overlapping sessions of   *)
(* threads do to a single call is in DatabaseSessions.                     *)
(*                                                                         *)
(* The two databases differ where the code relies on them: PostgreSQL      *)
(* numbers rows from a sequence and enforces foreign keys; SQLite, opened  *)
(* without PRAGMA foreign_keys and without AUTOINCREMENT, gives a new row  *)
(* the greatest id in use plus one and checks no reference.                *)
(***************************************************************************)
EXTENDS Naturals, SequencesExt

CONSTANTS
  Severities,   (* of events and of retention policies                       *)
  Tenants,      (* the tenants a request or an event may name                *)
  None,         (* Python's None                                             *)
  MaxEvents,    (* bound on events the database numbers                      *)
  MaxRules,     (* bound on rules the database numbers                       *)
  MaxCases,     (* bound on cases                                            *)
  MaxNotes,     (* bound on the notes of a case                              *)
  MaxVersion,   (* bound on the version of a rule                            *)
  MaxFaults     (* bound on audit rows that cannot be written                *)

ASSUME CaseStoreAssumption ==
  /\ None \notin Severities \cup Tenants \cup Nat
  /\ {MaxEvents, MaxRules, MaxCases, MaxNotes, MaxVersion, MaxFaults} \subseteq Nat
  /\ MaxVersion # 0

VARIABLES
  sqlite,       (* _is_sqlite                                                *)
  events,       (* intrusion_events, by id                                   *)
  cases,        (* cases, which are never deleted, by id                     *)
  links,        (* case_events: pairs of a case id and an event id           *)
  rules,        (* alert_rules, by id                                        *)
  loaded,       (* the engine's _rules                                       *)
  numbered,     (* events and rules the database has numbered so far         *)
  unaudited,    (* changes whose audit row could not be written              *)
  now,          (* the day                                                   *)
  linked,       (* history: what the users linked: case, event id, event     *)
  lost          (* history: the rules whose events the database refused      *)

caseVars == <<cases, links, linked>>
ruleVars == <<rules, loaded>>
storeVars == <<sqlite, events, caseVars, ruleVars, numbered, unaudited, now, lost>>

Statuses   == {"OPEN", "IN_PROGRESS", "ON_HOLD", "CLOSED"}
Lifecycles == {"draft", "staging", "production"}

(* The nth event the database numbered; its rule as the column has it now, and the name
   of the rule the engine raised it for, if that was none of the table's any more. *)
Event == [nth: 1..MaxEvents, severity: Severities, tenant: Tenants \cup {None}, at: Nat,
          rule: 0..MaxRules, raisedBy: 0..MaxRules, stale: BOOLEAN,
          archived: BOOLEAN, acknowledged: BOOLEAN]
Case  == [status: Statuses, closed: BOOLEAN, notes: 0..MaxNotes]
(* name: the nth rule that was created; trigger: the rule that last updated the trigger. *)
Rule  == [name: 1..MaxRules, enabled: BOOLEAN, lifecycle: Lifecycles,
          version: 1..MaxVersion, trigger: 0..MaxRules]

StoreInit ==
  /\ sqlite \in BOOLEAN
  /\ events = <<>> /\ cases = <<>> /\ links = {} /\ rules = <<>>
  /\ loaded = {}
  /\ numbered = [events |-> 0, rules |-> 0]
  /\ unaudited = 0
  /\ now = 0
  /\ linked = {}
  /\ lost = {}

Without(f, keys) == Restrict(f, DOMAIN f \ keys)
With(f, key, row) == [k \in DOMAIN f \cup {key} |-> IF k = key THEN row ELSE f[k]]

(* The id of the next row, the nth the database numbers. *)
NextId(table, n, id) ==
  IF sqlite THEN id - 1 \in DOMAIN table \cup {0} /\ \A i \in DOMAIN table : i < id
            ELSE id = n

(* table' is the table with its nth row. *)
Insert(table, n, row) == \E id \in 1..n : NextId(table, n, id) /\ table' = With(table, id, row)

(* ON DELETE CASCADE of case_events. *)
AfterDelete(ids) == IF sqlite THEN links ELSE {l \in links : l[2] \notin ids}

(* audit_action: if it raises, the caller gets an error for a change that is stored. *)
Audited ==
  \/ UNCHANGED unaudited
  \/ unaudited < MaxFaults /\ unaudited' = unaudited + 1
----------------------------------------------------------------------------
(* Events.                                                                 *)

(* The engine's load_rules: only what is enabled and in production. *)
Active == {r \in DOMAIN rules : rules[r].enabled /\ rules[r].lifecycle = "production"}
CopyOf(r) == [id |-> r, name |-> rules[r].name, version |-> rules[r].version]
NoRule    == [id |-> 0, name |-> 0, version |-> 0]

(* The rule the engine has is not, or no longer, the one the table has under its id. *)
IsStale(copy) == copy # NoRule
                 /\ ~(copy.id \in DOMAIN rules /\ rules[copy.id].name = copy.name)

(* log_intrusion_event: on PostgreSQL the row's foreign key must name a rule; the
   sequence has moved on even if it does not. *)
LogIntrusionEvent(severity, tenant, copy) ==
  LET n == numbered.events + 1 IN
  /\ n <= MaxEvents
  /\ numbered' = [numbered EXCEPT !.events = n]
  /\ IF sqlite \/ copy.id \in DOMAIN rules \cup {0}
     THEN /\ Insert(events, n,
               [nth |-> n, severity |-> severity, tenant |-> tenant, at |-> now,
                rule |-> copy.id, raisedBy |-> copy.name, stale |-> IsStale(copy),
                archived |-> FALSE, acknowledged |-> FALSE])
          /\ UNCHANGED lost
     ELSE /\ lost' = lost \cup {copy.name}
          /\ UNCHANGED events

(* update_rule_last_trigger, by id. *)
UpdateRuleLastTrigger(copy) ==
  rules' = IF copy.id \in DOMAIN rules
           THEN [rules EXCEPT ![copy.id].trigger = copy.name] ELSE rules

(* on_event_detected for an event of a loaded rule, or of the anomaly detector. *)
OnEventDetected(severity, tenant, copy) ==
  /\ LogIntrusionEvent(severity, tenant, copy)
  /\ UpdateRuleLastTrigger(copy)
  /\ UNCHANGED <<sqlite, caseVars, loaded, unaudited, now>>

AcknowledgeEvent(e) ==
  /\ e \in DOMAIN events
  /\ events' = [events EXCEPT ![e].acknowledged = TRUE]
  /\ UNCHANGED <<sqlite, caseVars, ruleVars, numbered, now, lost>>

DeleteEvent(e) ==
  /\ e \in DOMAIN events
  /\ events' = Without(events, {e})
  /\ links' = AfterDelete({e})
  /\ UNCHANGED <<sqlite, cases, linked, ruleVars, numbered, now, lost>>

AcknowledgeEventEndpoint(e) == AcknowledgeEvent(e) /\ Audited
DeleteEventEndpoint(e)      == DeleteEvent(e) /\ Audited
----------------------------------------------------------------------------
(* Cases.                                                                  *)

Link(c, ids) ==
  /\ links' = links \cup ({c} \X ids)
  /\ linked' = linked \cup {<<c, e, events[e].nth>> : e \in ids}

(* create_case: of the ids the request names, those that are there. *)
CreateCase(ids) ==
  LET c == Len(cases) + 1 IN
  /\ c <= MaxCases
  /\ cases' = Append(cases, [status |-> "OPEN", closed |-> FALSE, notes |-> 0])
  /\ Link(c, ids \cap DOMAIN events)
  /\ UNCHANGED <<sqlite, events, ruleVars, numbered, now, lost>>

(* Mutant of UpdateCase: a case that is reopened keeps closed_at. *)
UpdateCaseKeeps(c, status) ==
  /\ c \in DOMAIN cases
  /\ cases' = [cases EXCEPT ![c].status = status, ![c].closed = @ \/ status = "CLOSED"]
  /\ UNCHANGED <<sqlite, events, links, linked, ruleVars, numbered, now, lost>>

(* update_case; closed_at follows a status that is given. *)
UpdateCase(c, status) ==
  /\ c \in DOMAIN cases
  /\ cases' = [cases EXCEPT ![c].status = status, ![c].closed = (status = "CLOSED")]
  /\ UNCHANGED <<sqlite, events, links, linked, ruleVars, numbered, now, lost>>

AddCaseNote(c) ==
  /\ c \in DOMAIN cases
  /\ cases[c].notes < MaxNotes
  /\ cases' = [cases EXCEPT ![c].notes = @ + 1]
  /\ UNCHANGED <<sqlite, events, links, linked, ruleVars, numbered, now, lost>>

(* Mutant of LinkCaseEvent: the event is not looked up. *)
LinkBlindly(c, e) ==
  /\ c \in DOMAIN cases
  /\ links' = links \cup {<<c, e>>}
  /\ linked' = IF e \in DOMAIN events THEN linked \cup {<<c, e, events[e].nth>>} ELSE linked
  /\ UNCHANGED <<sqlite, events, cases, ruleVars, numbered, now, lost>>

(* A link that is there already is answered like a new one. *)
LinkCaseEvent(c, e) ==
  /\ c \in DOMAIN cases
  /\ e \in DOMAIN events
  /\ Link(c, {e})
  /\ UNCHANGED <<sqlite, events, cases, ruleVars, numbered, now, lost>>

UnlinkCaseEvent(c, e) ==
  /\ c \in DOMAIN cases
  /\ <<c, e>> \in links
  /\ links' = links \ {<<c, e>>}
  /\ linked' = {l \in linked : <<l[1], l[2]>> # <<c, e>>}
  /\ UNCHANGED <<sqlite, events, cases, ruleVars, numbered, now, lost>>

(* The join of case_events with intrusion_events, and what an analyst is shown. *)
ListCaseEvents(c) == {e \in DOMAIN events : <<c, e>> \in links}
GetCaseDetail(c)  == [events |-> ListCaseEvents(c), notes |-> cases[c].notes]

CreateCaseEndpoint(ids)        == CreateCase(ids) /\ Audited
UpdateCaseEndpoint(c, status)  == UpdateCase(c, status) /\ Audited
AddCaseNoteEndpoint(c)         == AddCaseNote(c) /\ Audited
LinkCaseEventEndpoint(c, e)    == LinkCaseEvent(c, e) /\ Audited
UnlinkCaseEventEndpoint(c, e)  == UnlinkCaseEvent(c, e) /\ Audited
----------------------------------------------------------------------------
(* Alert rules, and the engine that keeps what it loaded.                  *)

LoadRules == loaded' = {CopyOf(r) : r \in Active}

(* reload_rules; the blocklists it reloads too are in ThreatIntel. *)
ReloadRules ==
  /\ LoadRules
  /\ Audited
  /\ UNCHANGED <<sqlite, events, caseVars, rules, numbered, now, lost>>

(* The process restarts: lifespan loads the rules. *)
Restart ==
  /\ LoadRules
  /\ UNCHANGED <<sqlite, events, caseVars, rules, numbered, unaudited, now, lost>>

CreateRule(lifecycle) ==
  LET n == numbered.rules + 1 IN
  /\ n <= MaxRules
  /\ numbered' = [numbered EXCEPT !.rules = n]
  /\ Insert(rules, n, [name |-> n, enabled |-> TRUE, lifecycle |-> lifecycle,
                       version |-> 1, trigger |-> 0])
  /\ UNCHANGED <<sqlite, events, caseVars, loaded, now, lost>>

(* update_rule: the fields of the request, a new version, and never the engine. *)
UpdateRule(r, enabled, lifecycle) ==
  /\ r \in DOMAIN rules
  /\ rules[r].version < MaxVersion
  /\ rules' = [rules EXCEPT ![r].enabled = enabled, ![r].lifecycle = lifecycle,
                            ![r].version = @ + 1]
  /\ UNCHANGED <<sqlite, events, caseVars, loaded, numbered, now, lost>>

(* toggle_rule keeps the version. *)
ToggleRule(r) ==
  /\ r \in DOMAIN rules
  /\ rules' = [rules EXCEPT ![r].enabled = ~@]
  /\ UNCHANGED <<sqlite, events, caseVars, loaded, numbered, now, lost>>

(* Mutant of DeleteRule: the rule's events keep its id. *)
DeleteRuleOnly(r) ==
  /\ r \in DOMAIN rules
  /\ rules' = Without(rules, {r})
  /\ UNCHANGED <<sqlite, events, caseVars, loaded, numbered, now, lost>>

(* delete_rule: the ORM first takes the rule's id from the events that have it. *)
DeleteRule(r) ==
  /\ r \in DOMAIN rules
  /\ rules' = Without(rules, {r})
  /\ events' = [e \in DOMAIN events |->
                  IF events[e].rule = r THEN [events[e] EXCEPT !.rule = 0] ELSE events[e]]
  /\ UNCHANGED <<sqlite, caseVars, loaded, numbered, now, lost>>

CreateRuleEndpoint(lifecycle)            == CreateRule(lifecycle) /\ Audited
UpdateRuleEndpoint(r, enabled, lifecycle) == UpdateRule(r, enabled, lifecycle) /\ Audited
DeleteRuleEndpoint(r)                    == DeleteRule(r) /\ Audited
ToggleRuleEndpoint(r)                    == ToggleRule(r) /\ Audited
PromoteRuleLifecycle(r, lifecycle)       ==
  /\ r \in DOMAIN rules
  /\ UpdateRule(r, rules[r].enabled, lifecycle)
  /\ Audited
----------------------------------------------------------------------------
EventStep ==
  \/ \E severity \in Severities, tenant \in Tenants \cup {None}, copy \in loaded \cup {NoRule} :
       OnEventDetected(severity, tenant, copy)
  \/ \E e \in DOMAIN events : AcknowledgeEventEndpoint(e) \/ DeleteEventEndpoint(e)

CaseStep ==
  \/ \E ids \in SUBSET (1..MaxEvents) : CreateCaseEndpoint(ids)
  \/ \E c \in DOMAIN cases :
       \/ \E status \in Statuses : UpdateCaseEndpoint(c, status)
       \/ AddCaseNoteEndpoint(c)
       \/ \E e \in 1..MaxEvents : LinkCaseEventEndpoint(c, e) \/ UnlinkCaseEventEndpoint(c, e)

RuleStep ==
  \/ \E l \in Lifecycles : CreateRuleEndpoint(l)
  \/ \E r \in DOMAIN rules :
       \/ \E on \in BOOLEAN, l \in Lifecycles : UpdateRuleEndpoint(r, on, l)
       \/ \E l \in Lifecycles : PromoteRuleLifecycle(r, l)
       \/ ToggleRuleEndpoint(r)
       \/ DeleteRuleEndpoint(r)
  \/ ReloadRules
  \/ Restart
----------------------------------------------------------------------------
(* Every table holds rows of its kind, and closed_at is set exactly on closed cases. *)
StoreTypeOK ==
  /\ sqlite \in BOOLEAN
  /\ DOMAIN events \subseteq 1..MaxEvents /\ \A e \in DOMAIN events : events[e] \in Event
  /\ cases \in Seq(Case) /\ Len(cases) <= MaxCases
  /\ \A c \in DOMAIN cases : cases[c].closed <=> cases[c].status = "CLOSED"
  /\ links \subseteq (1..MaxCases) \X (1..MaxEvents)
  /\ linked \subseteq (1..MaxCases) \X (1..MaxEvents) \X (1..MaxEvents)
  /\ DOMAIN rules \subseteq 1..MaxRules /\ \A r \in DOMAIN rules : rules[r] \in Rule
  /\ loaded \subseteq [id: 1..MaxRules, name: 1..MaxRules, version: 1..MaxVersion]
  /\ numbered \in [events: 0..MaxEvents, rules: 0..MaxRules]
  /\ lost \subseteq 1..MaxRules
  /\ unaudited \in 0..MaxFaults /\ now \in Nat

(* The events that get_case_detail shows under a case are events its users have linked to
   it, and no link is left without its event.  Where the database reuses ids a link may
   show a later event; the event it was made for has then been deleted. *)
CaseShowsItsEvents ==
  /\ \A c \in DOMAIN cases : \A e \in GetCaseDetail(c).events : \E l \in linked :
       /\ l[1] = c /\ l[2] = e
       /\ l[3] = events[e].nth \/ (sqlite /\ l[3] < events[e].nth)
  /\ ~sqlite => \A l \in links : l[1] \in DOMAIN cases /\ l[2] \in DOMAIN events

(* An event is refused by the database, or appears under another rule than the one that
   raised it, only because the engine went on with a rule deleted since it was loaded:
   refused on PostgreSQL, under the wrong rule on SQLite.  A rule's trigger was updated
   by an event of its own, with the same exception. *)
StaleRulesExplain ==
  /\ lost # {} => ~sqlite /\ \A n \in lost : \A r \in DOMAIN rules : rules[r].name # n
  /\ \A e \in DOMAIN events :
       events[e].rule # 0 =>
         \/ events[e].rule \in DOMAIN rules /\ rules[events[e].rule].name = events[e].raisedBy
         \/ sqlite /\ events[e].stale
  /\ \A r \in DOMAIN rules : rules[r].trigger \in {0, rules[r].name} \/ sqlite
=============================================================================
