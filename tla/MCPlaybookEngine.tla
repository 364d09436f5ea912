-------------------------- MODULE MCPlaybookEngine --------------------------
(* Instances of the playbooks: one that escalates to HIGH and has a second escalation, to
   LOW, one that escalates to CRITICAL and has a second one, to LOW, one that escalates to
   HIGH and notifies, one that only notifies, one without actions. *)
EXTENDS PlaybookEngine, TLC

FormOf(actions) == [triggers |-> {2, 3}, actions |-> actions]
Raising  == FormOf(<<3, 1>>)
Critical == FormOf(<<4, 1>>)
High     == FormOf(<<3, Effect>>)
Notice   == [triggers |-> {}, actions |-> <<Effect>>]
Empty    == FormOf(<<>>)

MCFounding == <<Empty, Raising>>
MCDrafts == {Notice}
MCThree == <<High, Empty, Critical>>
MCSymmetry == Permutations(Runs)
===============================================================================
