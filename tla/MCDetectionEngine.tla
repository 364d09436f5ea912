-------------------------- MODULE MCDetectionEngine --------------------------
(* TLC instance of the engine: one flow, one rule whose suppression window is one clock
   unit.  Packets that come faster than they are analysed, and the suppression of their
   events while time passes and rules change, are behaviours of their own. *)
EXTENDS DetectionEngine

CONSTANTS f1

MCFlowOf == [p \in Packets |-> f1]
MCWindow == [r \in Rules |-> 1]

VARIABLE budget       (* what a behaviour may have *)
mcVars == <<engineVars, budget>>

Overload == [packets |-> 3, clock |-> 1, loads |-> FALSE]
Passing  == [packets |-> 2, clock |-> 2, loads |-> TRUE]

MCInit == EngineInit /\ budget \in {Overload, Passing}

Within ==
  /\ \A p \in Packets : p > budget.packets => fate'[p] = "unsent"
  /\ clock' <= budget.clock
  /\ rules' # rules => budget.loads
  /\ UNCHANGED budget

(* Packets are alike, and so are tasks: the first is the first to come.  In place of a
   symmetry set, which liveness does not allow. *)
InOrder ==
  /\ \A p, q \in Packets : p < q /\ fate'[q] # "unsent" => fate'[p] # "unsent"
  /\ \A t, u \in Tasks : t < u /\ task'[u] # "unborn" => task'[t] # "unborn"

(* Nothing that Within and InOrder hold back is fair. *)
MCSpec == MCInit /\ [][EngineNext /\ Within /\ InOrder]_mcVars /\ EngineFairness
===============================================================================
