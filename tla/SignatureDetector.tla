-------------------------- MODULE SignatureDetector --------------------------
(***************************************************************************)
(* SignatureDetector of config/signature_detection_v2.py: its rules, the   *)
(* times it keeps of packets seen, and the suppression of repeated         *)
(* matches.                                                                *)
(*                                                                         *)
(* Times are kept by rule and source for SIGNATURE rules, and by source    *)
(* alone for RATE_LIMIT rules, which therefore count each other's packets  *)
(* and cut each other's windows.  Whether a packet meets the criteria of a *)
(* rule (protocol, addresses, ports, flags, payload, country) is part of   *)
(* the packet.  A flow is a source: destination and protocol, which the    *)
(* suppression distinguishes too, are one each.                            *)
(***************************************************************************)
EXTENDS Naturals, SequencesExt

CONSTANTS
  Sources,    (* source addresses                                            *)
  RuleIds,    (* ids of rules                                                *)
  RuleForms,  (* what add_rule may be given                                  *)
  None        (* a rate the rule does not state                              *)

RuleTypes == {"SIGNATURE", "RATE_LIMIT", "PAYLOAD_MATCH", "GEO_BLOCK", "WHITELIST"}

(* on: enabled and in production.  limit: the threshold or the rate.  suppression: the
   window in which a match silences the next, 0 for none. *)
RuleForm == [type: RuleTypes, on: BOOLEAN, limit: Nat \cup {None}, window: Nat,
             suppression: Nat]

ASSUME DetectorAssumption ==
  /\ None \notin RuleIds \cup Nat
  /\ RuleForms \subseteq RuleForm
  /\ \A f \in RuleForms : f.limit = None => f.type = "RATE_LIMIT"

VARIABLES
  now,         (* the clock                                                  *)
  rules,       (* _rules, by id                                              *)
  order,       (* the order in which _rules is walked                        *)
  trusted,     (* _whitelist                                                 *)
  tracker,     (* _rate_tracker                                              *)
  lastSeen,    (* _suppression_tracker; None where a flow is unknown         *)
  past         (* history: for every rule and source, the looks at a packet  *)

detectorVars == <<now, rules, order, trusted, tracker, lastSeen, past>>

DetectorInit ==
  /\ now = 0
  /\ rules = <<>> /\ order = <<>>
  /\ trusted = {}
  /\ tracker = [k \in (RuleIds \cup {None}) \X Sources |-> <<>>]
  /\ lastSeen = [k \in RuleIds \X Sources |-> None]
  /\ past = [k \in RuleIds \X Sources |-> <<>>]

(* A rule that is replaced keeps its place. *)
AddRule(id, form) ==
  /\ rules' = [r \in DOMAIN rules \cup {id} |-> IF r = id THEN form ELSE rules[r]]
  /\ order' = IF id \in DOMAIN rules THEN order ELSE Append(order, id)
  /\ UNCHANGED <<now, trusted, tracker, lastSeen, past>>

(* What the rule has seen stays. *)
RemoveRule(id) ==
  /\ id \in DOMAIN rules
  /\ rules' = Restrict(rules, DOMAIN rules \ {id})
  /\ \E i \in DOMAIN order : order[i] = id /\ order' = RemoveAt(order, i)
  /\ UNCHANGED <<now, trusted, tracker, lastSeen, past>>

SetWhitelist(sources) ==
  /\ trusted' = sources
  /\ UNCHANGED <<now, rules, order, tracker, lastSeen, past>>

Tick == now' = now + 1 /\ UNCHANGED <<rules, order, trusted, tracker, lastSeen, past>>
----------------------------------------------------------------------------
(* The evaluation of a packet: st = [tracker, lastSeen, looks] goes through the rules in
   order.  looks tells what each rule made of the packet.                   *)

KeyOf(id, source) ==
  IF rules[id].type = "RATE_LIMIT" THEN <<None, source>> ELSE <<id, source>>

(* _prune_window: a packet exactly a window old still counts.  The times ascend, so that
   those that are kept are the last ones. *)
PruneWindow(times, window) ==
  LET old == {i \in DOMAIN times : now - times[i] > window}
  IN  SubSeq(times, Cardinality(old) + 1, Len(times))

(* Mutant of CheckRateLimit: what is over the limit is counted as well. *)
CountAll(times, rate) ==
  [times |-> Append(times, now), count |-> Len(times) + 1,
   match |-> rate # None /\ Len(times) >= rate]

(* _check_rate_limit: a packet over the limit is not counted; without a rate the
   comparison raises, after the times have been cut. *)
CheckRateLimit(times, rate) ==
  LET exceeded == rate = None \/ Len(times) >= rate IN
  [times |-> IF exceeded THEN times ELSE Append(times, now),
   count |-> Len(times), match |-> rate # None /\ Len(times) >= rate]

(* _evaluate_signature_rule: the packet is counted first. *)
CheckThreshold(times, threshold) ==
  [times |-> Append(times, now), count |-> Len(times) + 1,
   match |-> Len(times) + 1 >= threshold]

(* Country rules match at once and count nothing. *)
CheckAtOnce(times) == [times |-> times, count |-> 1, match |-> TRUE]

Check(id, times) ==
  LET rule == rules[id] IN
  CASE rule.type = "SIGNATURE"  -> CheckThreshold(PruneWindow(times, rule.window), rule.limit)
    [] rule.type = "RATE_LIMIT" -> CheckRateLimit(PruneWindow(times, rule.window), rule.limit)
    [] OTHER                    -> CheckAtOnce(times)

(* Mutant of Silenced: a flow is known by its rule alone. *)
SilencedByRule(seen, id, source) ==
  rules[id].suppression > 0 /\ \E s \in Sources :
    seen[<<id, s>>] # None /\ now - seen[<<id, s>>] <= rules[id].suppression

(* _apply_suppression. *)
Silenced(seen, id, source) ==
  /\ rules[id].suppression > 0
  /\ seen[<<id, source>>] # None
  /\ now - seen[<<id, source>>] <= rules[id].suppression

(* A match is remembered whether it is silenced or not. *)
Remember(seen, id, source) ==
  IF rules[id].suppression > 0 THEN [seen EXCEPT ![<<id, source>>] = now] ELSE seen

(* One rule. *)
EvaluateRule(st, id, source) ==
  LET key   == KeyOf(id, source)
      check == Check(id, st.tracker[key])
  IN  [tracker  |-> [st.tracker EXCEPT ![key] = check.times],
       lastSeen |-> IF check.match THEN Remember(st.lastSeen, id, source) ELSE st.lastSeen,
       looks    |-> [st.looks EXCEPT ![id] =
         [count |-> check.count,
          fate  |-> IF ~check.match THEN "none"
                    ELSE IF Silenced(st.lastSeen, id, source) THEN "silenced" ELSE "reported"]]]

Unseen == [count |-> 0, fate |-> "unseen"]

(* The rules that look at a packet of source that meets the criteria of those in "fits".
   A PAYLOAD_MATCH rule searches the packet's bytes with a pattern of type str, which
   raises; evaluate goes on with the next rule, so that such a rule never matches. *)
Looks(id, source, fits) ==
  /\ id \in fits /\ source \notin trusted
  /\ rules[id].on
  /\ rules[id].type \in {"SIGNATURE", "RATE_LIMIT", "GEO_BLOCK"}

(* What there is of the evaluation after each rule. *)
Walk(source, fits) ==
  LET start == [tracker |-> tracker, lastSeen |-> lastSeen,
                looks |-> [id \in RuleIds |-> Unseen]]
      st[i \in 0..Len(order)] ==
        IF i = 0 THEN start
        ELSE IF Looks(order[i], source, fits) THEN EvaluateRule(st[i - 1], order[i], source)
        ELSE st[i - 1]
  IN  st

Evaluate(source, fits) == Walk(source, fits)[Len(order)]
=============================================================================
