------------------------------ MODULE MCSensor ------------------------------
(* TLC instance of Sensor: detection through one worker, with rules that share times, are
   replaced and silence each other, and the life cycle of the pipeline with few rules. *)
EXTENDS Sensor

Form(type, limit, window, suppression) ==
  [type |-> type, on |-> TRUE, limit |-> limit, window |-> window, suppression |-> suppression]

MCForms ==
  {Form("RATE_LIMIT", 2, 1, 0), Form("RATE_LIMIT", 1, 0, 0), Form("RATE_LIMIT", None, 0, 0),
   Form("SIGNATURE", 2, 1, 0), Form("SIGNATURE", 1, 0, 1), Form("GEO_BLOCK", 1, 0, 1),
   [Form("SIGNATURE", 1, 0, 0) EXCEPT !.on = FALSE]}

Budget(packetCount, edits, clock, stops, failures) ==
  [packets |-> packetCount, edits |-> edits, clock |-> clock, stops |-> stops,
   failures |-> failures]

Detection == {Budget(4, 2, 1, 0, 0), Budget(3, 2, 2, 0, 1), Budget(2, 3, 1, 0, 1),
              Budget(5, 1, 2, 0, 1)}
LifeCycle == {Budget(5, 0, 0, 2, 0), Budget(2, 1, 0, 1, 1)}
MCBudgets == Detection \cup LifeCycle

(* The pipeline after Start and StartProducer. *)
Started(first) ==
  /\ running = TRUE /\ depth = 0 /\ crew = first /\ hand = {}
  /\ worker = [t \in Tasks |-> IF t \in first THEN "waiting" ELSE "none"]
  /\ producing = TRUE /\ stoppers = <<>>
  /\ metrics = [received |-> 0, processed |-> 0, dropped |-> 0]
  /\ drained = 0 /\ arrived = 0 /\ unserved = FALSE

MCInit ==
  /\ DetectorInit /\ whitelist = {} /\ budget \in Budgets
  /\ IF budget \in Detection THEN \E first \in kSubset(NumWorkers, Tasks) : Started(first)
     ELSE PipelineInit

MCSymmetry == Permutations(Sources) \cup Permutations(RuleIds) \cup Permutations(Tasks)

MCSpec == MCInit /\ [][SensorNext]_sensorVars
=============================================================================
