------------------------- MODULE MCDatabaseSessions -------------------------
(* Instances of the sessions: on the event loop log_intrusion_event and then a read,
   and in two playbook threads create_playbook_execution and a function that writes
   two rows in one flush (add_case_note). *)
EXTENDS DatabaseSessions

CONSTANTS event, list, execution, note, loop, worker1, worker2

MCThreadOf == [c \in Calls |-> CASE c \in {event, list} -> loop
                                 [] c = execution -> worker1
                                 [] c = note -> worker2]
MCProgram ==
  [c \in Calls |->
    CASE c = event     -> <<"write", "commit", "return", "refresh", "commit", "return">>
      [] c = list      -> <<"read", "commit", "return">>
      [] c = execution -> <<"write", "refresh", "commit", "return">>
      [] c = note      -> <<"read", "write", "write", "refresh", "commit", "return">>]
===============================================================================
