------------------------------- MODULE Sensor -------------------------------
(***************************************************************************)
(* The sensor: DetectionPipeline with a SignatureDetector.  A worker       *)
(* evaluates its packet and handles the matches without an await.  A       *)
(* handler that raises (log_intrusion_event, the notification or on_event) *)
(* leaves the rest of the packet's matches unhandled; the detector has     *)
(* then remembered them all.  The anomaly model, which keeps no state and  *)
(* has its turn after the signatures, is left out.                         *)
(***************************************************************************)
EXTENDS SignatureDetector, AsyncPipeline

CONSTANT Budgets   (* bounds: packets, edits of the detector, clock, stops, failures *)

ASSUME SensorAssumption ==
  Budgets \subseteq [packets: Nat, edits: Nat, clock: Nat, stops: Nat, failures: Nat]

VARIABLES
  whitelist,   (* the pipeline's own whitelist, looked at match by match       *)
  budget       (* what is left of one of the budgets                           *)

sensorVars == <<detectorVars, pipelineVars, whitelist, budget>>

SensorInit ==
  /\ DetectorInit /\ PipelineInit
  /\ whitelist = {}
  /\ budget \in Budgets

Spend(what) == budget[what] > 0 /\ budget' = [budget EXCEPT ![what] = @ - 1]

(* _handle_signature_match: the severity follows the ratio of count and threshold. *)
Severity(count, threshold) ==
  LET most == IF threshold = 0 THEN 1 ELSE threshold IN
  IF count >= 5 * most THEN "CRITICAL"
  ELSE IF count >= 2 * most THEN "HIGH"
  ELSE IF count >= most THEN "MEDIUM" ELSE "LOW"

(* What count is compared with: country rules state 1. *)
Threshold(id) ==
  IF rules[id].type \in {"SIGNATURE", "RATE_LIMIT"} THEN rules[id].limit ELSE 1

(* The places in the order of rules from which on no match is handled: that of a match whose
   handler raises before it has stored it, the one behind if it raises after that, and the
   one behind the last if none raises. *)
MayStop(looks, source) ==
  {Len(order) + 1} \cup
  {stop \in DOMAIN order :
     /\ budget.failures > 0 /\ source \notin whitelist
     /\ \E m \in DOMAIN order : looks[order[m]].fate = "reported" /\ stop \in {m, m + 1}}

(* What becomes of the look of a rule at a packet. *)
Handled(look, id, source, stop) ==
  IF look.fate # "reported" THEN look.fate
  ELSE IF source \in whitelist \/ id \in {order[i] : i \in stop..Len(order)} THEN "missed"
  ELSE "stored"

Remembered(look, id, fate) ==
  [at |-> now, form |-> rules[id], fate |-> fate,
   severity |-> IF fate = "stored" THEN Severity(look.count, Threshold(id)) ELSE None]

(* A worker's turn: the packet comes from some source and meets some criteria. *)
ProcessPacket(t) ==
  /\ Processed(t)
  /\ UNCHANGED <<now, rules, order, trusted, whitelist>>
  /\ \E source \in Sources, fits \in SUBSET DOMAIN rules :
       LET st == Evaluate(source, fits) IN
       /\ tracker' = st.tracker /\ lastSeen' = st.lastSeen
       /\ \E stop \in MayStop(st.looks, source) :
            /\ past' = [k \in DOMAIN past |->
                 LET look == st.looks[k[1]] IN
                 IF k[2] # source \/ look = Unseen THEN past[k]
                 ELSE Append(past[k], Remembered(look, k[1], Handled(look, k[1], source, stop)))]
            /\ IF stop = Len(order) + 1 THEN UNCHANGED budget ELSE Spend("failures")

(* Edits of the detector and of the two whitelists. *)
Edit ==
  /\ Spend("edits")
  /\ \/ /\ \/ \E id \in RuleIds : RemoveRule(id) \/ \E form \in RuleForms : AddRule(id, form)
           \/ \E sources \in SUBSET Sources : SetWhitelist(sources)
        /\ UNCHANGED whitelist
     \/ whitelist' \in SUBSET Sources /\ UNCHANGED detectorVars
  /\ UNCHANGED pipelineVars

Arrive == Spend("packets") /\ (Produce \/ EnqueuePacket)
Idle == UNCHANGED <<detectorVars, whitelist>>

SensorNext ==
  \/ Edit
  \/ Spend("clock") /\ Tick /\ UNCHANGED <<pipelineVars, whitelist>>
  \/ Arrive /\ Idle
  \/ \E t \in Tasks : ProcessPacket(t)
  \/ \E t \in Tasks : (Take(t) \/ WorkerEnds(t)) /\ Idle /\ UNCHANGED budget
  \/ (Start \/ StopEnds \/ StartProducer \/ ProducerStops) /\ Idle /\ UNCHANGED budget
  \/ Spend("stops") /\ Stop /\ Idle

SensorSpec == SensorInit /\ [][SensorNext]_sensorVars
----------------------------------------------------------------------------
(* The pairs of rule and source with a look, whose last one is to be judged. *)
Seen == {k \in DOMAIN past : past[k] # <<>>}
Matched(look) == look.fate # "none"
OneForm(p, first, last) == \A i \in first..last : p[i].form = p[last].form
InWindow(p, j) == {i \in 1..j : p[j].at - p[i].at <= p[j].form.window}

(* The looks of RATE_LIMIT rules at a source in a history h, by rule, not before a time. *)
RateLooks(h, k, from) ==
  {i \in DOMAIN h[k] : h[k][i].form.type = "RATE_LIMIT" /\ h[k][i].at >= from}
RatePairs(h, source, from) ==
  UNION {{id} \X RateLooks(h, <<id, source>>, from) : id \in RuleIds}
SharesTimes(h, k, from, window) ==
  \E id \in RuleIds \ {k[1]} : \E i \in RateLooks(h, <<id, k[2]>>, from) :
    h[<<id, k[2]>>][i].form.window < window
SharesNone(h, k) == \A id \in RuleIds \ {k[1]} : RateLooks(h, <<id, k[2]>>, 0) = {}

(* A SIGNATURE rule that was not replaced matches when it has seen its threshold within its
   window, and only then. *)
ThresholdMatches(p, j) ==
  p[j].form.type = "SIGNATURE" /\ OneForm(p, 1, j)
    => (Matched(p[j]) <=> Cardinality(InWindow(p, j)) >= p[j].form.limit)

(* A RATE_LIMIT rule of rate n matches one of n + 1 packets within its window, unless
   another one with a shorter window cut the times they share; it matches only if the
   RATE_LIMIT rules together have looked at n; and since packets over the limit are not
   counted, the alarm of a rule that shares with none is never more than MEDIUM. *)
RateMatches(h, k, p, j, n) ==
  /\ j > n /\ OneForm(p, j - n, j) /\ j - n \in InWindow(p, j)
       => \/ \E i \in j - n..j : Matched(p[i])
          \/ SharesTimes(h, k, p[j - n].at, p[j].form.window)
  /\ Matched(p[j]) =>
       LET from == IF p[j].at > p[j].form.window THEN p[j].at - p[j].form.window ELSE 0
       IN  Cardinality(RatePairs(h, k[2], from)) >= n
  /\ n > 0 /\ OneForm(p, 1, j) /\ p[j].fate = "stored" /\ SharesNone(h, k)
       => p[j].severity = "MEDIUM"

Alerts(h, k) ==
  LET p == h[k]
      j == Len(p)
      n == p[j].form.limit
  IN  /\ ThresholdMatches(p, j)
      /\ p[j].form.type = "RATE_LIMIT" /\ n # None => RateMatches(h, k, p, j, n)

(* Packets that come faster than a rule allows raise its alarm, and others do not, whatever
   the order in which rules look at them and users edit them.  The times of a source are
   those of all RATE_LIMIT rules, so that of these it can only say what they do together;
   RatesApart is what is documented of each. *)
FloodsAlert == \A k \in Seen : Alerts(past, k)

(* "Tracks per-(rule_id, src_ip) counters with time-window expiry": a RATE_LIMIT rule that
   was not replaced matches only when it has itself looked at as many packets of the source
   as its rate, within its window, before this one. *)
OwnRate(p, j) ==
  p[j].form.type = "RATE_LIMIT" /\ p[j].form.limit # None /\ OneForm(p, 1, j) /\ Matched(p[j])
    => Cardinality(InWindow(p, j)) > p[j].form.limit

RatesApart == \A k \in Seen : OwnRate(past[k], Len(past[k]))

(* From i on, no match of p comes more than the window after the one before. *)
Chain(p, i, window) ==
  \A l \in i + 1..Len(p) : Matched(p[l]) =>
    \E m \in i..l - 1 : Matched(p[m]) /\ p[l].at - p[m].at <= window

Explained(p, j) ==
  p[j].fate = "silenced" /\ OneForm(p, 1, j) =>
    \E i \in 1..j - 1 : /\ p[i].fate \in {"stored", "missed"}
                        /\ Chain(p, i, p[j].form.suppression)

(* A match that is silenced comes in a chain of matches, none more than the window after
   the one before, and the first of them was stored, or was missed: the pipeline's
   whitelist skipped it, or a handler raised on that packet.  The rest of its chain is
   then silenced in favour of an alert nobody got. *)
SilencedExplained == \A k \in Seen : Explained(past[k], Len(past[k]))

(* The rules are walked once each, and the times that are kept ascend to the present. *)
SensorTypeOK ==
  /\ now \in Nat
  /\ \A id \in DOMAIN rules : id \in RuleIds /\ rules[id] \in RuleForms
  /\ DOMAIN rules = {order[i] : i \in DOMAIN order}
  /\ \A i, j \in DOMAIN order : order[i] = order[j] => i = j
  /\ \A k \in DOMAIN tracker : \A i \in DOMAIN tracker[k] :
       /\ tracker[k][i] \in 0..now
       /\ \A j \in i..Len(tracker[k]) : tracker[k][i] <= tracker[k][j]
  /\ \A k \in DOMAIN lastSeen : lastSeen[k] \in {None} \cup 0..now
  /\ depth \in 0..MaxDepth /\ crew \cup hand \subseteq Tasks
=============================================================================
