--------------------------- MODULE PlaybookEngine ---------------------------
(***************************************************************************)
(* Response playbooks, api/playbook_engine.py with the endpoints that run  *)
(* them and the rows of config/database_v2.py they read and write.         *)
(*                                                                         *)
(* Every run is a thread (asyncio.to_thread) and every database call is a  *)
(* transaction of its own, so runs interleave between any two calls: that  *)
(* is PostgreSQL (docker-compose.yml); what SQLite's shared connection     *)
(* adds is in DatabaseSessions.  A run reads the event once and the        *)
(* playbooks once, with their actions and counters, and decides and counts *)
(* from those copies.  Where the two databases differ, in the ids they     *)
(* give and in what foreign keys refuse, either may happen.                *)
(***************************************************************************)
EXTENDS Integers, Sequences, FiniteSets

CONSTANTS
  Ids,          (* bound: the ids of playbooks                               *)
  Founding,     (* the playbooks of the database at first                    *)
  Drafts,       (* what a playbook may be created with, or changed to        *)
  Effect,       (* an action that is not an escalation: it works or fails    *)
  Events,       (* the ids of the intrusion events runs are about            *)
  Reported,     (* the severities events are stored with                     *)
  Runs,         (* the runs                                                  *)
  NoEvent,      (* a run for a case                                          *)
  Samples,      (* the severities of cases and of sample payloads            *)
  MaxEdits      (* bound on what administrators do to playbooks and events   *)

Severities == 1..4      (* SEVERITY_ORDER: LOW, MEDIUM, HIGH, CRITICAL *)

(* What triggers a playbook, of its severities, rules and event types the first only, and
   its actions: an escalation to a severity, or Effect. *)
Form == [triggers : SUBSET Severities, actions : Seq(Severities \cup {Effect})]

ASSUME PlaybookAssumption ==
  /\ Effect \notin Severities
  /\ Founding \in Seq(Form) /\ Drafts \subseteq Form
  /\ Ids \subseteq Nat \ {0} /\ IsFiniteSet(Ids) /\ DOMAIN Founding \subseteq Ids
  /\ Events \subseteq Nat /\ Reported \subseteq Severities
  /\ NoEvent \notin Events
  /\ Samples \subseteq Severities
  /\ MaxEdits \in Nat

VARIABLES
  playbooks,    (* the rows, by id                                           *)
  listing,      (* list_playbooks(): the most recently updated first         *)
  severity,     (* the stored severity of each event; 0 when it is deleted   *)
  at,           (* where each run is                                         *)
  about,        (* the event of each run, or NoEvent                         *)
  read,         (* the severity the run found                                *)
  todo,         (* the playbooks still to run, as read                       *)
  step,         (* the action of the first of them the run is at             *)
  context,      (* context["severity"] of that playbook's run                *)
  result,       (* the status of the action just made                        *)
  tally,        (* success_count and failure_count of run_playbook           *)
  rows,         (* history: executions of each playbook by status, since the *)
                (* playbook was created                                      *)
  tested,       (* history: the events a test run was aimed at               *)
  edits,        (* counts edits, for the bound                               *)
  given,        (* the largest id given so far                               *)
  contested,    (* history: playbooks that two runs had read at one time     *)
  inherited,    (* history: ids given again while a run had the old playbook *)
  peak,         (* history: the highest severity each event has had          *)
  reported,     (* history: the severity each event was stored with          *)
  mistaken      (* history: events stored under an id that a run still held  *)
                (* for a deleted one                                         *)

database == <<playbooks, listing, severity, given>>
past     == <<reported, mistaken>>
history  == <<rows, tested, contested, inherited, peak, past>>
local    == <<at, about, read, todo, step, context, result, tally>>
playbookVars == <<database, local, history, edits>>

Statuses == {"success", "failed", "skipped"}
Stages   == {"new", "found", "acting", "recording", "done", "aborted"}
Elems(s) == {s[i] : i \in DOMAIN s}
Pending(r) == {c.id : c \in Elems(todo[r])}
NewRow(form, on) == [form |-> form, enabled |-> on, success |-> 0, failure |-> 0]
NoRows == [s \in Statuses |-> 0]

PlaybookInit ==
  /\ playbooks = [b \in DOMAIN Founding |-> NewRow(Founding[b], TRUE)]
  /\ listing \in {s \in [DOMAIN Founding -> DOMAIN Founding] : Elems(s) = DOMAIN Founding}
  /\ given = Len(Founding)
  /\ severity \in [Events -> Reported]
  /\ at = [r \in Runs |-> "new"]
  /\ about = [r \in Runs |-> NoEvent]
  /\ read = [r \in Runs |-> 0]
  /\ todo = [r \in Runs |-> <<>>]
  /\ step = [r \in Runs |-> 0]
  /\ context = [r \in Runs |-> 0]
  /\ result = [r \in Runs |-> "skipped"]
  /\ tally = [r \in Runs |-> <<0, 0>>]
  /\ rows = [b \in Ids |-> NoRows]
  /\ tested = {}
  /\ contested = {} /\ inherited = {}
  /\ edits = 0
  /\ peak = severity /\ reported = severity /\ mistaken = {}
----------------------------------------------------------------------------
CopyOf(b) == [id |-> b, form |-> playbooks[b].form,
              success |-> playbooks[b].success, failure |-> playbooks[b].failure]

(* The playbooks of a set in the order of list_playbooks(): exactly one sequence. *)
Before(b, c) == \E i, j \in DOMAIN listing : i < j /\ listing[i] = b /\ listing[j] = c
Ordered(bs) == {s \in [1..Cardinality(bs) -> bs] :
                  \A i, j \in DOMAIN s : i < j => Before(s[i], s[j])}

(* list_playbooks(enabled=True), those of a set. *)
CopiesOf(bs) == {[i \in DOMAIN s |-> CopyOf(s[i])] :
                   s \in Ordered({b \in bs : playbooks[b].enabled})}

(* A run has its list: contested are the playbooks another run also has. *)
Begin(r, copies, sev) ==
  /\ todo' = [todo EXCEPT ![r] = copies]
  /\ at' = [at EXCEPT ![r] = IF copies = <<>> THEN "done" ELSE "acting"]
  /\ step' = [step EXCEPT ![r] = 1]
  /\ context' = [context EXCEPT ![r] = sev]
  /\ tally' = [tally EXCEPT ![r] = <<0, 0>>]
  /\ contested' = contested \cup
       {c.id : c \in {d \in Elems(copies) : \E q \in Runs \ {r} : d.id \in Pending(q)}}
  /\ UNCHANGED <<inherited, past>>

(* run_playbooks_for_event reads the event, from on_event_detected's task or from
   the endpoint; a deleted event ends the run. *)
FindEvent(r, e) ==
  /\ at[r] = "new"
  /\ about' = [about EXCEPT ![r] = e]
  /\ read' = [read EXCEPT ![r] = severity[e]]
  /\ at' = [at EXCEPT ![r] = IF severity[e] = 0 THEN "aborted" ELSE "found"]
  /\ UNCHANGED <<database, todo, step, context, result, tally, history>>

(* ... then the enabled playbooks, and keeps those whose triggers match; a playbook
   without triggers matches every event. *)
Matches(b, sev) ==
  playbooks[b].form.triggers # {} => sev \in playbooks[b].form.triggers

MatchPlaybooks(r) ==
  /\ at[r] = "found"
  /\ \E copies \in CopiesOf({b \in DOMAIN playbooks : Matches(b, read[r])}) :
       Begin(r, copies, read[r])
  /\ UNCHANGED <<database, about, read, result, rows, tested, peak>>

(* execute/case runs every enabled playbook, without an event. *)
RunForCase(r, sev) ==
  /\ at[r] = "new"
  /\ read' = [read EXCEPT ![r] = sev]
  /\ \E copies \in CopiesOf(DOMAIN playbooks) : Begin(r, copies, sev)
  /\ UNCHANGED <<database, about, result, rows, tested, peak>>

(* playbooks/{id}/test runs one playbook on a sample payload: the severity in it
   is the caller's, whatever the event's is. *)
RunTest(r, b, e, sev) ==
  /\ at[r] = "new"
  /\ b \in DOMAIN playbooks
  /\ about' = [about EXCEPT ![r] = e]
  /\ read' = [read EXCEPT ![r] = sev]
  /\ Begin(r, <<CopyOf(b)>>, sev)
  /\ tested' = tested \cup {e}
  /\ UNCHANGED <<database, result, rows, peak>>
----------------------------------------------------------------------------
Current(r) == Head(todo[r])
Actions(r) == Current(r).form.actions
ActionOf(r) == Actions(r)[step[r]]
Having(r, status) ==
  /\ at[r] = "acting"
  /\ step[r] <= Len(Actions(r))
  /\ at' = [at EXCEPT ![r] = "recording"]
  /\ result' = [result EXCEPT ![r] = status]
  /\ UNCHANGED <<playbooks, listing, given, about, read, todo, step, tally, rows, tested,
                 contested, inherited, past>>

(* Mutant of NeedsEscalation: the target is written without a comparison. *)
AlwaysEscalates(r) == TRUE

(* escalate_event_severity compares with the severity in its context. *)
NeedsEscalation(r) == context[r] < ActionOf(r)

Escalate(r) ==
  /\ Having(r, "success")
  /\ ActionOf(r) # Effect
  /\ about[r] \in Events
  /\ NeedsEscalation(r)
  /\ severity[about[r]] # 0
  /\ severity' = [severity EXCEPT ![about[r]] = ActionOf(r)]
  /\ context' = [context EXCEPT ![r] = ActionOf(r)]
  /\ peak' = [peak EXCEPT ![about[r]] = IF ActionOf(r) > @ THEN ActionOf(r) ELSE @]

SkipEscalation(r) ==
  /\ Having(r, "skipped")
  /\ ActionOf(r) # Effect
  /\ about[r] \in Events
  /\ ~NeedsEscalation(r)
  /\ UNCHANGED <<severity, context, peak>>

(* No event in the context, or the event is gone, or the update raises and is rolled back. *)
EscalationFails(r) ==
  /\ Having(r, "failed")
  /\ ActionOf(r) # Effect
  /\ about[r] \in Events => NeedsEscalation(r)
  /\ UNCHANGED <<severity, context, peak>>

(* add_to_blocklist, create_ticket, notify_channel: not disabled and not failing, or else. *)
OtherAction(r, status) ==
  /\ Having(r, status)
  /\ ActionOf(r) = Effect
  /\ status \in {"success", "failed"}
  /\ UNCHANGED <<severity, context, peak>>

(* create_playbook_execution and log_audit, then the next action. *)
Record(r) ==
  /\ at[r] = "recording"
  /\ at' = [at EXCEPT ![r] = "acting"]
  /\ step' = [step EXCEPT ![r] = @ + 1]
  /\ rows' = [rows EXCEPT ![Current(r).id][result[r]] = @ + 1]
  /\ tally' = [tally EXCEPT ![r] = CASE result[r] = "success" -> <<@[1] + 1, @[2]>>
                                     [] result[r] = "failed"  -> <<@[1], @[2] + 1>>
                                     [] OTHER -> @]
  /\ UNCHANGED <<database, about, read, todo, context, result, tested, contested, inherited,
                 peak, past>>

(* The listing without a playbook that is in it. *)
PlaceOf(b)   == CHOOSE i \in DOMAIN listing : listing[i] = b
OthersThan(b) == [i \in 1..(Len(listing) - 1) |-> listing[IF i < PlaceOf(b) THEN i ELSE i + 1]]

(* updated_at is now: the playbook comes first in list_playbooks(). *)
MoveToFront(b) == <<b>> \o OthersThan(b)

(* The next playbook starts from the context the run began with. *)
NextPlaybook(r) ==
  /\ todo' = [todo EXCEPT ![r] = Tail(@)]
  /\ step' = [step EXCEPT ![r] = 1]
  /\ context' = [context EXCEPT ![r] = read[r]]
  /\ tally' = [tally EXCEPT ![r] = <<0, 0>>]
  /\ at' = [at EXCEPT ![r] = IF Len(todo[r]) = 1 THEN "done" ELSE "acting"]

(* The end of run_playbook: update_playbook writes the row of that id, if there is one, and
   its updated_at brings the playbook to the front. *)
WriteCounters(r, successes, failures) ==
  /\ at[r] = "acting" /\ Actions(r) # <<>> /\ step[r] > Len(Actions(r))
  /\ LET b == Current(r).id
     IN  IF b \in DOMAIN playbooks
         THEN /\ playbooks' = [playbooks EXCEPT ![b].success = successes,
                                                ![b].failure = failures]
              /\ listing' = MoveToFront(b)
         ELSE UNCHANGED <<playbooks, listing>>
  /\ NextPlaybook(r)
  /\ UNCHANGED <<severity, given, about, read, result, history>>

(* Mutant of Count: a status is counted once too often. *)
CountTwice(r) ==
  WriteCounters(r, Current(r).success + 2 * tally[r][1], Current(r).failure + tally[r][2])

(* The counters are those that were read plus this run's. *)
Count(r) ==
  WriteCounters(r, Current(r).success + tally[r][1], Current(r).failure + tally[r][2])

(* "Playbook has no actions": the exception leaves the loop over playbooks too. *)
NoActions(r) ==
  /\ at[r] = "acting"
  /\ Actions(r) = <<>>
  /\ at' = [at EXCEPT ![r] = "aborted"]
  /\ UNCHANGED <<database, about, read, todo, step, context, result, tally, history>>

(* run_playbook_for_case looks for the case before each playbook, and the case may be gone. *)
CaseGone(r) ==
  /\ at[r] = "acting" /\ step[r] = 1
  /\ about[r] = NoEvent
  /\ at' = [at EXCEPT ![r] = "aborted"]
  /\ UNCHANGED <<database, about, read, todo, step, context, result, tally, history>>

(* The database raises where an execution is recorded (before or after the row is
   there, without its audit record) or where the counters are written.  PostgreSQL always
   refuses an execution whose playbook or event is gone; SQLite takes it. *)
DatabaseRaises(r) ==
  /\ \/ /\ at[r] = "recording"
        /\ rows' \in {rows, [rows EXCEPT ![Current(r).id][result[r]] = @ + 1]}
     \/ at[r] = "acting" /\ step[r] > Len(Actions(r)) /\ rows' = rows
  /\ at' = [at EXCEPT ![r] = "aborted"]
  /\ UNCHANGED <<database, about, read, todo, step, context, result, tally, tested, contested,
                 inherited, peak, past>>
----------------------------------------------------------------------------
Edit == edits < MaxEdits /\ edits' = edits + 1

(* create_playbook, with a name no other has.  SQLite gives the id after the largest there
   is, PostgreSQL the one after the last it gave. *)
NextId(b) ==
  \/ b = given + 1
  \/ b - 1 \in Elems(listing) \cup {0} /\ \A c \in Elems(listing) : c < b

CreatePlaybook(b, form, on) ==
  /\ NextId(b)
  /\ playbooks' = [c \in DOMAIN playbooks \cup {b} |->
                    IF c = b THEN NewRow(form, on) ELSE playbooks[c]]
  /\ listing' = <<b>> \o listing
  /\ given' = IF b > given THEN b ELSE given
  /\ rows' = [rows EXCEPT ![b] = NoRows]
  /\ inherited' = IF \E r \in Runs : b \in Pending(r) THEN inherited \cup {b} ELSE inherited
  /\ Edit
  /\ UNCHANGED <<severity, local, tested, contested, peak, past>>

(* update_playbook and toggle_playbook: the form, whether it is enabled, or both. *)
Write(b, form, on) ==
  /\ playbooks' = [playbooks EXCEPT ![b].form = form, ![b].enabled = on]
  /\ listing' = MoveToFront(b)
  /\ Edit
  /\ UNCHANGED <<severity, given, local, history>>

UpdatePlaybook(b, form, on) == b \in DOMAIN playbooks /\ Write(b, form, on)
Toggle(b) ==
  b \in DOMAIN playbooks /\ Write(b, playbooks[b].form, ~playbooks[b].enabled)

(* delete_playbook *)
DeletePlaybook(b) ==
  /\ b \in DOMAIN playbooks
  /\ playbooks' = [c \in DOMAIN playbooks \ {b} |-> playbooks[c]]
  /\ listing' = OthersThan(b)
  /\ Edit
  /\ UNCHANGED <<severity, given, local, history>>

(* delete_event, and the retention's pass over old events. *)
DeleteEvent(e) ==
  /\ severity[e] # 0
  /\ severity' = [severity EXCEPT ![e] = 0]
  /\ Edit
  /\ UNCHANGED <<playbooks, listing, given, local, history>>

(* log_intrusion_event: SQLite gives a deleted event's id to the next event when no later one is
   left, and a run that holds the id does not know.  What tests did to the deleted event
   is not the new one's. *)
Holds(r, e) == about[r] = e /\ at[r] \notin {"done", "aborted"}

StoreEvent(e, sev) ==
  /\ severity[e] = 0 /\ \A f \in Events : f > e => severity[f] = 0
  /\ severity' = [severity EXCEPT ![e] = sev]
  /\ reported' = [reported EXCEPT ![e] = sev]
  /\ peak' = [peak EXCEPT ![e] = sev]
  /\ tested' = tested \ {e}
  /\ mistaken' = IF \E r \in Runs : Holds(r, e) THEN mistaken \cup {e} ELSE mistaken \ {e}
  /\ Edit
  /\ UNCHANGED <<playbooks, listing, given, local, rows, contested, inherited>>

RunStep(r) ==
  \/ \E e \in Events : FindEvent(r, e)
  \/ MatchPlaybooks(r)
  \/ \E sev \in Samples : RunForCase(r, sev)
  \/ \E b \in Ids, e \in Events, sev \in Samples : RunTest(r, b, e, sev)
  \/ Escalate(r) \/ SkipEscalation(r) \/ EscalationFails(r)
  \/ \E status \in Statuses : OtherAction(r, status)
  \/ Record(r) \/ Count(r) \/ NoActions(r) \/ CaseGone(r) \/ DatabaseRaises(r)

PlaybookNext ==
  \/ \E r \in Runs : RunStep(r) /\ UNCHANGED edits
  \/ \E b \in Ids :
       \/ Toggle(b) \/ DeletePlaybook(b)
       \/ \E form \in Drafts, on \in BOOLEAN : CreatePlaybook(b, form, on)
                                                \/ UpdatePlaybook(b, form, on)
  \/ \E e \in Events : DeleteEvent(e) \/ \E sev \in Reported : StoreEvent(e, sev)

PlaybookSpec == PlaybookInit /\ [][PlaybookNext]_playbookVars
----------------------------------------------------------------------------
Copies == [id : Ids, form : Form, success : Nat, failure : Nat]

(* The values of the variables; a playbook is listed once. *)
PlaybookTypeOK ==
  /\ listing \in Seq(Ids) /\ \A i, j \in DOMAIN listing : i # j => listing[i] # listing[j]
  /\ DOMAIN playbooks = Elems(listing)
  /\ \A b \in DOMAIN playbooks :
       playbooks[b] \in [form : Form, enabled : BOOLEAN, success : Nat, failure : Nat]
  /\ given \in Nat
  /\ severity \in [Events -> 0..4]
  /\ at \in [Runs -> Stages]
  /\ about \in [Runs -> Events \cup {NoEvent}]
  /\ read \in [Runs -> 0..4]
  /\ todo \in [Runs -> Seq(Copies)]
  /\ step \in [Runs -> Nat]
  /\ context \in [Runs -> 0..4]
  /\ result \in [Runs -> Statuses]
  /\ tally \in [Runs -> Nat \X Nat]
  /\ rows \in [Ids -> [Statuses -> Nat]]
  /\ tested \subseteq Events
  /\ edits \in 0..MaxEdits
  /\ contested \cup inherited \subseteq Ids
  /\ peak \in [Events -> Severities] /\ reported \in [Events -> Severities]
  /\ mistaken \subseteq Events

(* However runs interleave, escalation never leaves an event below the severity it
   was stored with, with two exceptions: a test run, which brings a severity of its own,
   was aimed at it, or, on SQLite, it was stored under the id of a deleted event while a run
   held that id: set_event_severity writes by id, and the run compares with the deleted
   event's severity. *)
NeverBelowReport ==
  \A e \in Events :
    severity[e] = 0 \/ e \in tested \cup mistaken \/ severity[e] >= reported[e]

(* The counters of a playbook never say more than its executions do: runs that overlap
   lose counts and never invent them.  They are exact when no two runs had the playbook at
   one time and the database never raised.  The exception is a playbook created under the
   id of one that was deleted during a run, whose counters the run then writes into it. *)
CountersTrue ==
  \A b \in DOMAIN playbooks \ inherited :
    /\ playbooks[b].success <= rows[b]["success"] /\ playbooks[b].failure <= rows[b]["failed"]
    /\ (b \notin contested /\ \A r \in Runs : b \notin Pending(r))
       => playbooks[b].success = rows[b]["success"] /\ playbooks[b].failure = rows[b]["failed"]

(* "Event already at equal/higher severity": an escalation is skipped when the event
   has that severity already, so that a severity never goes down. *)
EscalationOnlyRaises == \A e \in Events : severity[e] \in {0, peak[e]}
============================================================================
