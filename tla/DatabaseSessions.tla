-------------------------- MODULE DatabaseSessions --------------------------
(***************************************************************************)
(* get_session of config/database_v2.py, over the two pools _create_engine *)
(* chooses from.  PostgreSQL has a QueuePool: a session checks out a       *)
(* connection of its own.  SQLite, the default, has a StaticPool: every    *)
(* session of every thread works on one connection, and so in one          *)
(* transaction.                                                            *)
(*                                                                         *)
(* A call is one function of the module, a short program of statements.    *)
(* SQLAlchemy (2.0, external) gives the connection back inside             *)
(* session.commit() and session.rollback(), and the pool rolls back what   *)
(* it is given: a statement of its own, after the commit.                  *)
(***************************************************************************)
EXTENDS Naturals, Sequences, FiniteSets

CONSTANTS
  Calls,        (* the calls of database functions                           *)
  Threads,      (* the event loop's thread and those of asyncio.to_thread    *)
  ThreadOf,     (* the thread that makes each call                           *)
  Program,      (* the statements of each call                               *)
  MaxErrors     (* bound on statements that raise                            *)

Statements == {"write", "read", "refresh", "commit", "return"}

ASSUME SessionAssumption ==
  /\ ThreadOf \in [Calls -> Threads]
  /\ Program \in [Calls -> Seq(Statements)]
  /\ MaxErrors \in Nat

(* Every function ends in get_session's commit.  None writes after its first commit, which
   is the function's own in log_intrusion_event and create_rule, and only a commit (or a
   rollback) gives the connection back. *)
ASSUME ProgramAssumption ==
  \A c \in Calls :
    /\ \E i \in DOMAIN Program[c] : Program[c][i] = "commit"
    /\ \A h, i \in DOMAIN Program[c] :
         Program[c][h] = "write" /\ Program[c][i] = "commit" => h < i
    /\ \A i \in DOMAIN Program[c] :
         Program[c][i] = "return" => \E h \in 1..(i - 1) : Program[c][h] = "commit"

VARIABLES
  shared,       (* _is_sqlite: one connection for all                        *)
  at,           (* the next statement of each call; 0 before it begins       *)
  outcome,      (* what the caller has got                                   *)
  uncommitted,  (* the rows written on each connection and not committed     *)
  stored,       (* the rows of the database                                  *)
  alone,        (* history: the calls no other call has overlapped           *)
  errors        (* counts errors, for the bound                              *)

sessionVars == <<shared, at, outcome, uncommitted, stored, alone, errors>>

Outcomes == {"none", "unwinding", "ok", "error"}
Static   == "static"
Rows     == {<<c, i>> : c \in Calls, i \in UNION {DOMAIN Program[d] : d \in Calls}}
RowsOf(c) == {<<c, i>> : i \in {j \in DOMAIN Program[c] : Program[c][j] = "write"}}
Active(c) == at[c] > 0 /\ outcome[c] \in {"none", "unwinding"}

SessionInit ==
  /\ shared \in BOOLEAN
  /\ at = [c \in Calls |-> 0]
  /\ outcome = [c \in Calls |-> "none"]
  /\ uncommitted = [k \in Calls \cup {Static} |-> {}]
  /\ stored = {}
  /\ alone = Calls
  /\ errors = 0
----------------------------------------------------------------------------
(* Mutant of ConnectionOf: PostgreSQL gets a StaticPool too. *)
OneConnection(c) == Static

(* The connection the pool gives to the session of a call. *)
ConnectionOf(c) == IF shared THEN Static ELSE c

(* get_session(); a thread makes one call at a time. *)
Begin(c) ==
  /\ at[c] = 0
  /\ ~\E d \in Calls : Active(d) /\ ThreadOf[d] = ThreadOf[c]
  /\ at' = [at EXCEPT ![c] = 1]
  /\ alone' = IF \E d \in Calls : Active(d)
              THEN alone \ ({c} \cup {d \in Calls : Active(d)}) ELSE alone
  /\ UNCHANGED <<shared, outcome, uncommitted, stored, errors>>

At(c, statement) ==
  /\ outcome[c] = "none"
  /\ at[c] \in DOMAIN Program[c]
  /\ Program[c][at[c]] = statement

Advance(c) ==
  /\ at' = [at EXCEPT ![c] = @ + 1]
  /\ outcome' = [outcome EXCEPT ![c] = IF at[c] = Len(Program[c]) THEN "ok" ELSE @]

(* Mutant of Write: the connection commits every statement. *)
WriteThrough(c) ==
  /\ At(c, "write")
  /\ Advance(c)
  /\ stored' = stored \cup {<<c, at[c]>>}
  /\ UNCHANGED <<shared, uncommitted, alone, errors>>

(* An INSERT, UPDATE or DELETE of a flush. *)
Write(c) ==
  /\ At(c, "write")
  /\ Advance(c)
  /\ uncommitted' = [uncommitted EXCEPT ![ConnectionOf(c)] = @ \cup {<<c, at[c]>>}]
  /\ UNCHANGED <<shared, stored, alone, errors>>

Read(c) ==
  /\ At(c, "read")
  /\ Advance(c)
  /\ UNCHANGED <<shared, uncommitted, stored, alone, errors>>

Raise(c) == outcome' = [outcome EXCEPT ![c] = "unwinding"] /\ UNCHANGED at

Visible(c) == RowsOf(c) \subseteq stored \cup uncommitted[ConnectionOf(c)]

(* Mutant of Refresh: a row that is not found is no error. *)
RefreshBlindly(c) ==
  /\ At(c, "refresh")
  /\ Advance(c)
  /\ UNCHANGED <<shared, uncommitted, stored, alone, errors>>

(* session.refresh(row) raises when it cannot find the row again. *)
Refresh(c) ==
  /\ At(c, "refresh")
  /\ IF Visible(c) THEN Advance(c) ELSE Raise(c)
  /\ UNCHANGED <<shared, uncommitted, stored, alone, errors>>

(* COMMIT is of the connection: of whatever was written on it. *)
Commit(c) ==
  /\ At(c, "commit")
  /\ Advance(c)
  /\ stored' = stored \cup uncommitted[ConnectionOf(c)]
  /\ uncommitted' = [uncommitted EXCEPT ![ConnectionOf(c)] = {}]
  /\ UNCHANGED <<shared, alone, errors>>

(* The connection goes back to the pool, which resets it: ROLLBACK. *)
Return(c) ==
  /\ At(c, "return")
  /\ Advance(c)
  /\ uncommitted' = [uncommitted EXCEPT ![ConnectionOf(c)] = {}]
  /\ UNCHANGED <<shared, stored, alone, errors>>

(* A statement raises: a lock, a constraint, a lost connection. *)
Fails(c) ==
  /\ \E statement \in {"write", "read", "refresh", "commit"} : At(c, statement)
  /\ errors < MaxErrors
  /\ errors' = errors + 1
  /\ Raise(c)
  /\ UNCHANGED <<shared, uncommitted, stored, alone>>

(* get_session's except clause rolls back and lets the exception out. *)
RollBack(c) ==
  /\ outcome[c] = "unwinding"
  /\ outcome' = [outcome EXCEPT ![c] = "error"]
  /\ uncommitted' = [uncommitted EXCEPT ![ConnectionOf(c)] = {}]
  /\ UNCHANGED <<shared, at, stored, alone, errors>>
----------------------------------------------------------------------------
SessionNext ==
  \E c \in Calls : \/ Begin(c) \/ Write(c) \/ Read(c) \/ Refresh(c) \/ Commit(c)
                   \/ Return(c) \/ Fails(c) \/ RollBack(c)

SessionSpec == SessionInit /\ [][SessionNext]_sessionVars
----------------------------------------------------------------------------
Whole(c)  == RowsOf(c) \subseteq stored
Absent(c) == RowsOf(c) \cap stored = {}

(* The values of the variables; a row is committed or not, and never both. *)
SessionTypeOK ==
  /\ shared \in BOOLEAN
  /\ at \in [Calls -> Nat]
  /\ outcome \in [Calls -> Outcomes]
  /\ uncommitted \in [Calls \cup {Static} -> SUBSET Rows]
  /\ stored \subseteq Rows
  /\ alone \subseteq Calls
  /\ errors \in 0..MaxErrors
  /\ \A k \in Calls \cup {Static} : uncommitted[k] \cap stored = {}

(* What get_session is for: a call that returns has stored all it wrote, and a call
   that raises has stored all of it or nothing.  It holds with a connection for each
   session, and on the shared connection for a call nothing else has overlapped. *)
CallsAtomic ==
  \A c \in Calls :
    (~shared \/ c \in alone) /\ outcome[c] \in {"ok", "error"}
    => Whole(c) \/ (outcome[c] = "error" /\ Absent(c))

(* log_intrusion_event commits before it refreshes: the event id it returns is that
   of a stored row, whatever other threads commit and roll back on the connection.
   on_event_detected relies on it when it queues playbooks for the id. *)
CommitsFirst(c) ==
  \E i, j \in DOMAIN Program[c] :
    /\ i < j /\ Program[c][i] = "commit" /\ Program[c][j] = "refresh"
    /\ \A h \in DOMAIN Program[c] : Program[c][h] = "write" => h < i

EventIdsAreReal ==
  \A c \in Calls : CommitsFirst(c) /\ outcome[c] = "ok" => Whole(c)

(* README: "Every action execution is persisted in `playbook_executions` and audited
   through `audit_log`": a call that returned has stored what it wrote. *)
ExecutionsPersisted == \A c \in Calls : outcome[c] = "ok" => Whole(c)

(* With a connection for each session, the statements of calls in any order are, for all who
   look at the database, the whole calls of AtomicCalls; on either pool no row that was
   stored is taken back, whatever is rolled back later. *)
Atomic == INSTANCE AtomicCalls WITH
            isolated <- ~shared,
            RowsIn   <- [c \in Calls |-> RowsOf(c)],
            answer   <- [c \in Calls |-> IF outcome[c] = "unwinding" THEN "none" ELSE outcome[c]]
CallsRefined == Atomic!CallsSpec
=============================================================================
