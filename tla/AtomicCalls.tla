----------------------------- MODULE AtomicCalls -----------------------------
(***************************************************************************)
(* What get_session promises of the functions that use it, with threads,   *)
(* statements and connections left out.  Where sessions are isolated, the  *)
(* rows of a call are stored all in one step; a call returns only after    *)
(* that, and answers once.  So nobody reads half of what a call wrote, at  *)
(* any time.  Where they are not, all that is left is that no row is ever  *)
(* taken back and no answer given twice.                                   *)
(***************************************************************************)
CONSTANTS Calls,       (* the calls of database functions                  *)
          RowsIn       (* the rows each writes                             *)

VARIABLES isolated,    (* every session has a connection of its own        *)
          stored,      (* the rows of the database                         *)
          answer       (* what each caller has got                         *)

callVars == <<isolated, stored, answer>>

CallsInit == /\ isolated \in BOOLEAN
             /\ stored = {}
             /\ answer = [c \in Calls |-> "none"]

Answers(c, how) == answer' = [answer EXCEPT ![c] = how]

(* A call stores all its rows, and may return at once. *)
Store(c) == /\ stored' = stored \cup RowsIn[c]
            /\ Answers(c, "ok") \/ UNCHANGED answer

Return(c) == /\ RowsIn[c] \subseteq stored
             /\ Answers(c, "ok")
             /\ UNCHANGED stored

(* A call may raise after its rows are stored, too. *)
Raise(c) == Answers(c, "error") /\ UNCHANGED stored

Meddle(c) == /\ stored \subseteq stored'
             /\ Answers(c, "ok") \/ Answers(c, "error") \/ UNCHANGED answer

CallsNext == \E c \in Calls :
  /\ answer[c] = "none"
  /\ IF isolated THEN Store(c) \/ Return(c) \/ Raise(c) ELSE Meddle(c)
  /\ UNCHANGED isolated

CallsSpec == CallsInit /\ [][CallsNext]_callVars
==============================================================================
