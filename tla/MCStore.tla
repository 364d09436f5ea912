------------------------------- MODULE MCStore -------------------------------
(* TLC instance of Retention, and through it of CaseStore.  A behaviour has a focus: the
   part of the API its clients use, beside the detection of events, their deletion and
   maintenance, which they all share.  The focus bounds the product of the tables. *)
EXTENDS Retention

VARIABLE focus

mcVars == <<retentionVars, focus>>

Policy(scope, severity, cold, archive, delete) ==
  [scope |-> scope, severity |-> severity, cold_days |-> cold, archive_enabled |-> archive,
   delete_after_days |-> delete, enabled |-> TRUE]

MCForms ==
  {Policy("global", None, 1, TRUE, 2), Policy("severity", "HIGH", 0, TRUE, 0),
   Policy("tenant", None, 1, FALSE, 1),
   [Policy("global", None, 0, TRUE, 1) EXCEPT !.enabled = FALSE]}

Foci == {"cases", "rules", "retention"}

(* Enough events in each focus: three to reuse an id twice, two to be told apart. *)
EventsOf == IF focus = "cases" THEN 3 ELSE 2

(* The focus on cases starts with a policy that deletes every event on its second day. *)
MCInit ==
  /\ focus \in Foci
  /\ StoreInit
  /\ policies = IF focus = "cases" THEN <<WithTenant(Policy("global", None, 0, TRUE, 1), None)>>
                                   ELSE <<>>
  /\ focus = "retention" => ~sqlite

OneKind == CHOOSE s \in Severities : TRUE

Detections ==
  \E s \in Severities, t \in Tenants \cup {None}, copy \in loaded \cup {NoRule} :
    /\ focus # "retention" => s = OneKind /\ t = None
    /\ numbered.events < EventsOf
    /\ OnEventDetected(s, t, copy) /\ UNCHANGED <<policies, focus>>

EventEdits ==
  /\ \E e \in DOMAIN events :
       \/ focus = "rules" /\ AcknowledgeEventEndpoint(e)
       \/ focus = "cases" /\ DeleteEventEndpoint(e)
  /\ UNCHANGED <<policies, focus>>

Cases == focus = "cases" /\ CaseStep /\ UNCHANGED <<policies, focus>>

RuleEdits == focus = "rules" /\ RuleStep /\ UNCHANGED <<policies, focus>>

Maintenance == focus = "retention" /\ RetentionStep /\ UNCHANGED <<unaudited, focus>>

MaintenanceOfCases == focus = "cases" /\ RetentionExecute(None, TRUE, TRUE) /\ UNCHANGED focus

Days ==
  /\ focus = "cases" => now < 1
  /\ focus # "rules"
  /\ NextDay /\ UNCHANGED focus

MCNext == Detections \/ EventEdits \/ Cases \/ RuleEdits \/ Maintenance
          \/ MaintenanceOfCases \/ Days

MCSymmetry == Permutations(Tenants)

MCSpec == MCInit /\ [][MCNext]_mcVars
=============================================================================
