------------------------------ MODULE Retention ------------------------------
(***************************************************************************)
(* Retention policies over the events of CaseStore: the policy functions,  *)
(* the preview and the execution of maintenance in config/database_v2.py,  *)
(* and their endpoints under /api/v1/system/retention.                     *)
(*                                                                         *)
(* A request may carry a tenant in X-Tenant-ID.  A policy's place in the   *)
(* sequence stands for its id: ids grow, on either database.  hot_days and *)
(* warm_days are stored and read by nothing.                               *)
(***************************************************************************)
EXTENDS CaseStore

CONSTANTS
  Forms,        (* what requests ask of a policy: its fields but the tenant  *)
  MaxPolicies,  (* bound on policies                                         *)
  MaxDay        (* bound on the clock                                        *)

VARIABLE policies   (* retention_policies, oldest first *)

retentionVars == <<storeVars, policies>>

Scopes == {"global", "severity", "tenant"}
Form == [scope: Scopes, severity: Severities \cup {None}, cold_days: Nat,
         archive_enabled: BOOLEAN, delete_after_days: Nat, enabled: BOOLEAN]

ASSUME RetentionAssumption == Forms \subseteq Form /\ {MaxPolicies, MaxDay} \subseteq Nat

Headers == Tenants \cup {None}

RetentionInit == StoreInit /\ policies = <<>>
----------------------------------------------------------------------------
(* Which policy rules an event.                                            *)

(* The filter on policies and events alike: those of the tenant and those of none. *)
Visible(row, header) == header # None => row.tenant \in {header, None}

Applies(policy, event) ==
  /\ policy.tenant \in {None, event.tenant}
  /\ \/ policy.scope = "severity" /\ policy.severity = event.severity
     \/ policy.scope = "tenant" /\ policy.tenant # None
     \/ policy.scope = "global"

(* Mutant of Precedes: the order of ids alone. *)
IsOlder(i, j) == i < j

(* ORDER BY scope DESC, id: "tenant" > "severity" > "global". *)
Rank(scope) == CASE scope = "tenant" -> 1 [] scope = "severity" -> 2 [] scope = "global" -> 3
Precedes(i, j) ==
  \/ Rank(policies[i].scope) < Rank(policies[j].scope)
  \/ policies[i].scope = policies[j].scope /\ i < j

Enabled(header) == {i \in DOMAIN policies : policies[i].enabled /\ Visible(policies[i], header)}

(* _select_retention_policy_for_event: the first that applies, if any does. *)
PolicyFor(event, header) ==
  LET applicable == {i \in Enabled(header) : Applies(policies[i], event)}
  IN  {i \in applicable : \A j \in applicable \ {i} : Precedes(i, j)}

Age(event) == now - event.at

Reviewed(header) == {e \in DOMAIN events : Visible(events[e], header)}

(* Mutant of Archivable: what is archived is archived again. *)
ArchivableAgain(event, policy) == policy.archive_enabled /\ Age(event) >= policy.cold_days

Archivable(event, policy) ==
  policy.archive_enabled /\ ~event.archived /\ Age(event) >= policy.cold_days

Deletable(event, policy) ==
  policy.delete_after_days > 0 /\ Age(event) >= policy.delete_after_days

ArchiveCandidates(header) ==
  {e \in Reviewed(header) : \E i \in PolicyFor(events[e], header) :
     Archivable(events[e], policies[i])}
DeleteCandidates(header) ==
  {e \in Reviewed(header) : \E i \in PolicyFor(events[e], header) :
     Deletable(events[e], policies[i])}

(* retention_maintenance_preview. *)
Preview(header) == [archive_candidates |-> Cardinality(ArchiveCandidates(header)),
                    delete_candidates  |-> Cardinality(DeleteCandidates(header))]
----------------------------------------------------------------------------
(* The execution, event by event; what is archived may be deleted in the same pass. *)
Archived(header) ==
  {e \in Reviewed(header) : \E i \in PolicyFor(events[e], header) : LET p == policies[i] IN
     p.archive_enabled /\ ~events[e].archived /\ Age(events[e]) >= p.cold_days}

Deleted(header, apply_delete) ==
  {e \in Reviewed(header) : \E i \in PolicyFor(events[e], header) : LET p == policies[i] IN
     apply_delete /\ p.delete_after_days > 0 /\ Age(events[e]) >= p.delete_after_days}

(* execute_retention_maintenance, in one transaction. *)
ExecuteRetention(header, apply_delete) ==
  LET gone == Deleted(header, apply_delete) IN
  /\ UNCHANGED <<policies, now, sqlite, cases, linked, ruleVars, numbered, lost>>
  /\ events' = [e \in DOMAIN events \ gone |->
                  IF e \in Archived(header) THEN [events[e] EXCEPT !.archived = TRUE]
                                            ELSE events[e]]
  /\ links' = AfterDelete(gone)

WithTenant(form, tenant) ==
  [scope |-> form.scope, severity |-> form.severity, cold_days |-> form.cold_days,
   archive_enabled |-> form.archive_enabled, delete_after_days |-> form.delete_after_days,
   enabled |-> form.enabled, tenant |-> tenant]

(* create_retention_policy: the policy belongs to the tenant of the request. *)
CreateRetentionPolicy(form, header) ==
  /\ Len(policies) < MaxPolicies
  /\ policies' = Append(policies, WithTenant(form, header))
  /\ UNCHANGED <<sqlite, events, caseVars, ruleVars, numbered, now, lost>>

(* update_retention_policy: the tenant stays, and a scope may lose its severity. *)
UpdateRetentionPolicy(i, form) ==
  /\ policies' = [policies EXCEPT ![i] = WithTenant(form, policies[i].tenant)]
  /\ UNCHANGED <<sqlite, events, caseVars, ruleVars, numbered, now, lost>>

DeleteRetentionPolicy(i) ==
  /\ policies' = RemoveAt(policies, i)
  /\ UNCHANGED <<sqlite, events, caseVars, ruleVars, numbered, now, lost>>

(* The endpoints.  An execution that deletes asks for confirm_delete as well; a policy of
   another tenant is not found. *)
RetentionExecute(header, apply_delete, confirm_delete) ==
  /\ apply_delete => confirm_delete
  /\ ExecuteRetention(header, apply_delete)
  /\ Audited

CreateRetentionPolicyEndpoint(form, header) ==
  /\ form.scope = "severity" => form.severity # None
  /\ CreateRetentionPolicy(form, header)
  /\ Audited

UpdateRetentionPolicyEndpoint(i, form, header) ==
  /\ Visible(policies[i], header)
  /\ UpdateRetentionPolicy(i, form)
  /\ Audited

DeleteRetentionPolicyEndpoint(i, header) ==
  /\ Visible(policies[i], header)
  /\ DeleteRetentionPolicy(i)
  /\ Audited

NextDay ==
  /\ now < MaxDay
  /\ now' = now + 1
  /\ UNCHANGED <<sqlite, events, caseVars, ruleVars, numbered, unaudited, lost, policies>>

RetentionStep ==
  \E header \in Headers :
    \/ \E apply, confirm \in BOOLEAN : RetentionExecute(header, apply, confirm)
    \/ \E form \in Forms : CreateRetentionPolicyEndpoint(form, header)
    \/ \E i \in DOMAIN policies :
         \/ \E form \in Forms : UpdateRetentionPolicyEndpoint(i, form, header)
         \/ DeleteRetentionPolicyEndpoint(i, header)

RetentionNext ==
  \/ (EventStep \/ CaseStep \/ RuleStep) /\ UNCHANGED policies
  \/ RetentionStep
  \/ NextDay

RetentionSpec == RetentionInit /\ [][RetentionNext]_retentionVars
----------------------------------------------------------------------------
(* What an execution owes to the dry run before it, and to the one after. *)
CarriedOut(header, apply_delete) ==
  LET gone  == DOMAIN events \ DOMAIN events'
      newly == {e \in DOMAIN events' : events'[e].archived /\ ~events[e].archived}
  IN  /\ Cardinality(gone) = IF apply_delete THEN Preview(header).delete_candidates ELSE 0
      /\ Cardinality(newly) <= Preview(header).archive_candidates
      /\ gone = {} => Cardinality(newly) = Preview(header).archive_candidates
      /\ Preview(header)'.archive_candidates = 0
      /\ apply_delete => Preview(header)'.delete_candidates = 0

(* An execution carries out what the dry run announced before it: it deletes that many
   events when deletion is asked for and none otherwise, it archives no others than were
   announced, all of them unless some are deleted in the same pass, and it leaves nothing
   for a second execution on that day. *)
PreviewCarriedOut ==
  [][\A header \in Headers, apply_delete \in BOOLEAN :
       ExecuteRetention(header, apply_delete) => CarriedOut(header, apply_delete)]_retentionVars

(* A tenant's events are archived and deleted only by maintenance for that tenant or for
   all, and only under a policy of that tenant or of none; and where a tenant has a policy
   of its own for all its events, no policy of narrower or wider scope replaces it. *)
TenantsApart ==
  \A header \in Headers : \A e \in Archived(header) \cup Deleted(header, TRUE) :
    /\ header # None => events[e].tenant \in {header, None}
    /\ \A chosen \in PolicyFor(events[e], header) :
         /\ policies[chosen].tenant \in {events[e].tenant, None}
         /\ (\E i \in DOMAIN policies :
               policies[i].enabled /\ policies[i].scope = "tenant"
               /\ policies[i].tenant # None /\ policies[i].tenant = events[e].tenant)
              => policies[chosen].scope = "tenant"
=============================================================================
