----------------------- MODULE DatabaseSessionsProofs -----------------------
(***************************************************************************)
(* Proofs about DatabaseSessions, for any calls of any threads, on either  *)
(* pool, and for any function that commits after what it writes.           *)
(***************************************************************************)
EXTENDS DatabaseSessions, SequenceTheorems, TLAPS

Conns == Calls \cup {Static}

(* The types, without the disjointness that needs to know where rows are. *)
Types ==
  /\ shared \in BOOLEAN
  /\ at \in [Calls -> Nat]
  /\ outcome \in [Calls -> Outcomes]
  /\ uncommitted \in [Conns -> SUBSET Rows]
  /\ stored \subseteq Rows
  /\ alone \subseteq Calls
  /\ errors \in 0..MaxErrors

(* A row is written by its statement, once, on the connection of its call. *)
Passed(r) == r[1] \in Calls /\ r \in RowsOf(r[1]) /\ r[2] < at[r[1]]

RowsPlaced ==
  /\ \A k \in Conns, r \in Rows : r \in uncommitted[k] => Passed(r) /\ ConnectionOf(r[1]) = k
  /\ \A r \in stored : Passed(r)
  /\ \A k \in Conns : uncommitted[k] \cap stored = {}

(* What a call has committed it has committed for good. *)
Committed(c) == \E i \in DOMAIN Program[c] : Program[c][i] = "commit" /\ i < at[c]

Finished ==
  \A c \in Calls :
    /\ outcome[c] = "ok" => at[c] = Len(Program[c]) + 1
    /\ outcome[c] # "none" => at[c] > 0

CommitClears == \A c \in Calls, k \in Conns : Committed(c) => RowsOf(c) \cap uncommitted[k] = {}

(* A call that has its connection to itself: by the pool, or by chance. *)
Solo(c) == ~shared \/ c \in alone

Overlaps == \A c, d \in Calls : c \in alone /\ Active(c) /\ Active(d) => c = d

Written(c) == {r \in RowsOf(c) : r[2] < at[c]}

AllOrNothing ==
  \A c \in Calls : Solo(c) =>
    /\ Committed(c) => Whole(c)
    /\ ~Committed(c) => Absent(c)
    /\ ~Committed(c) /\ outcome[c] = "none" => Written(c) \subseteq uncommitted[ConnectionOf(c)]
    /\ outcome[c] \in {"ok", "error"} => RowsOf(c) \cap uncommitted[ConnectionOf(c)] = {}

RefreshedRows ==
  \A c \in Calls : CommitsFirst(c) =>
    \A i, j \in DOMAIN Program[c] :
      Program[c][i] = "commit" /\ Program[c][j] = "refresh" /\ i < j /\ j < at[c] => Whole(c)

SessionInv ==
  Types /\ RowsPlaced /\ Finished /\ CommitClears /\ Overlaps /\ AllOrNothing /\ RefreshedRows
----------------------------------------------------------------------------
LEMMA Programs ==
  ASSUME NEW c \in Calls
  PROVE  /\ Program[c] \in Seq(Statements)
         /\ Len(Program[c]) \in Nat /\ DOMAIN Program[c] = 1..Len(Program[c])
         /\ RowsOf(c) \subseteq Rows
         /\ \A r \in RowsOf(c) : /\ r = <<c, r[2]>> /\ r[1] = c /\ r[2] \in DOMAIN Program[c]
                                 /\ Program[c][r[2]] = "write"
<1>1. Program[c] \in Seq(Statements)
  BY SessionAssumption
<1>2. Len(Program[c]) \in Nat /\ DOMAIN Program[c] = 1..Len(Program[c])
  BY <1>1, LenProperties
<1>3. QED
  BY <1>1, <1>2 DEF RowsOf, Rows

LEMMA ConnType == ASSUME NEW c \in Calls PROVE ConnectionOf(c) \in Conns
BY DEF ConnectionOf, Conns

(* A row belongs to one call, and is written by the statement it is named for. *)
LEMMA WrittenRow ==
  ASSUME NEW c \in Calls, NEW i \in DOMAIN Program[c], Program[c][i] = "write"
  PROVE  <<c, i>> \in RowsOf(c) /\ <<c, i>> \in Rows /\ <<c, i>>[1] = c /\ <<c, i>>[2] = i
BY Programs DEF RowsOf

LEMMA InitSession == SessionInit => SessionInv
<1>. SUFFICES ASSUME SessionInit
              PROVE  SessionInv
  OBVIOUS
<1>1. Types
  BY SessionAssumption DEF SessionInit, Types, Outcomes, Conns
<1>2. \A c \in Calls : ~Committed(c) /\ Written(c) = {}
  BY Programs DEF SessionInit, Committed, Written
<1>3. RowsPlaced /\ Finished /\ Overlaps /\ CommitClears
  BY <1>1, <1>2 DEF SessionInit, RowsPlaced, Finished, Overlaps, CommitClears, Active, Conns
<1>4. AllOrNothing
  BY <1>2 DEF SessionInit, AllOrNothing, Absent
<1>5. RefreshedRows
  BY Programs DEF SessionInit, RefreshedRows
<1>6. QED
  BY <1>1, <1>3, <1>4, <1>5 DEF SessionInv

(* What each statement does, call by call and connection by connection. *)
Advances(c) ==
  /\ at'[c] = at[c] + 1
  /\ outcome'[c] = IF at[c] = Len(Program[c]) THEN "ok" ELSE "none"

Elsewhere(c) ==
  /\ at' \in [Calls -> Nat] /\ outcome' \in [Calls -> Outcomes]
  /\ uncommitted' \in [Conns -> SUBSET Rows] /\ stored' \subseteq Rows
  /\ UNCHANGED <<shared, alone>>
  /\ \A d \in Calls \ {c} : at'[d] = at[d] /\ outcome'[d] = outcome[d]
  /\ \A k \in Conns \ {ConnectionOf(c)} : uncommitted'[k] = uncommitted[k]

Keeps(c)  == uncommitted'[ConnectionOf(c)] = uncommitted[ConnectionOf(c)] /\ stored' = stored
Clears(c) == uncommitted'[ConnectionOf(c)] = {}

LEMMA StatementFacts ==
  ASSUME Types, NEW c \in Calls, NEW statement, At(c, statement)
  PROVE  /\ at[c] \in DOMAIN Program[c] /\ at[c] \in Nat \ {0} /\ outcome[c] = "none"
         /\ Program[c][at[c]] = statement /\ Active(c)
BY Programs DEF Types, At, Active

LEMMA AdvanceFacts ==
  ASSUME Types, NEW c \in Calls, outcome[c] = "none", Advance(c)
  PROVE  /\ Advances(c)
         /\ at' \in [Calls -> Nat] /\ outcome' \in [Calls -> Outcomes]
         /\ \A d \in Calls \ {c} : at'[d] = at[d] /\ outcome'[d] = outcome[d]
BY DEF Types, Advance, Advances, Outcomes

LEMMA WriteFacts ==
  ASSUME Types, NEW c \in Calls, Write(c)
  PROVE  /\ At(c, "write") /\ Advances(c) /\ Elsewhere(c) /\ errors' = errors
         /\ uncommitted'[ConnectionOf(c)] = uncommitted[ConnectionOf(c)] \cup {<<c, at[c]>>}
         /\ stored' = stored
<1>1. /\ At(c, "write") /\ Advance(c) /\ outcome[c] = "none" /\ at[c] \in DOMAIN Program[c]
      /\ <<c, at[c]>> \in Rows
  BY StatementFacts, WrittenRow DEF Write
<1>2. /\ uncommitted' = [uncommitted EXCEPT ![ConnectionOf(c)] = @ \cup {<<c, at[c]>>}]
      /\ UNCHANGED <<shared, stored, alone, errors>>
      /\ uncommitted \in [Conns -> SUBSET Rows] /\ stored \subseteq Rows
  BY DEF Write, Types
<1>3. QED
  BY <1>1, <1>2, AdvanceFacts, ConnType DEF Elsewhere

LEMMA CommitFacts ==
  ASSUME Types, NEW c \in Calls, Commit(c)
  PROVE  /\ At(c, "commit") /\ Advances(c) /\ Elsewhere(c) /\ errors' = errors
         /\ Clears(c) /\ stored' = stored \cup uncommitted[ConnectionOf(c)]
<1>1. /\ At(c, "commit") /\ Advance(c) /\ outcome[c] = "none"
      /\ uncommitted' = [uncommitted EXCEPT ![ConnectionOf(c)] = {}]
      /\ stored' = stored \cup uncommitted[ConnectionOf(c)]
      /\ UNCHANGED <<shared, alone, errors>>
      /\ uncommitted \in [Conns -> SUBSET Rows] /\ stored \subseteq Rows
  BY DEF Commit, At, Types
<1>2. QED
  BY <1>1, AdvanceFacts, ConnType DEF Elsewhere, Clears

LEMMA ReturnFacts ==
  ASSUME Types, NEW c \in Calls, Return(c)
  PROVE  /\ At(c, "return") /\ Advances(c) /\ Elsewhere(c) /\ errors' = errors
         /\ Clears(c) /\ stored' = stored
<1>1. /\ At(c, "return") /\ Advance(c) /\ outcome[c] = "none"
      /\ uncommitted' = [uncommitted EXCEPT ![ConnectionOf(c)] = {}]
      /\ UNCHANGED <<shared, stored, alone, errors>>
      /\ uncommitted \in [Conns -> SUBSET Rows] /\ stored \subseteq Rows
  BY DEF Return, At, Types
<1>2. QED
  BY <1>1, AdvanceFacts, ConnType DEF Elsewhere, Clears

(* A read, or a refresh that finds its rows. *)
LEMMA LookFacts ==
  ASSUME Types, NEW c \in Calls, Read(c) \/ (Refresh(c) /\ Visible(c))
  PROVE  /\ At(c, "read") \/ (At(c, "refresh") /\ Visible(c))
         /\ Advances(c) /\ Elsewhere(c) /\ Keeps(c) /\ errors' = errors
<1>1. /\ At(c, "read") \/ (At(c, "refresh") /\ Visible(c))
      /\ Advance(c) /\ outcome[c] = "none"
      /\ UNCHANGED <<shared, uncommitted, stored, alone, errors>>
      /\ uncommitted \in [Conns -> SUBSET Rows] /\ stored \subseteq Rows
  BY DEF Read, Refresh, At, Types
<1>2. QED
  BY <1>1, AdvanceFacts DEF Elsewhere, Keeps

(* A statement that raises. *)
LEMMA RaiseFacts ==
  ASSUME Types, NEW c \in Calls, Fails(c) \/ (Refresh(c) /\ ~Visible(c))
  PROVE  /\ Active(c) /\ outcome[c] = "none" /\ at' = at /\ outcome'[c] = "unwinding"
         /\ Elsewhere(c) /\ Keeps(c) /\ errors' \in 0..MaxErrors
<1>1. /\ Raise(c) /\ Active(c) /\ outcome[c] = "none"
      /\ UNCHANGED <<shared, uncommitted, stored, alone>>
  BY StatementFacts DEF Fails, Refresh
<1>2. errors' \in 0..MaxErrors
  BY SessionAssumption DEF Fails, Refresh, Types
<1>3. QED
  BY <1>1, <1>2 DEF Raise, Elsewhere, Keeps, Types, Outcomes

LEMMA RollBackFacts ==
  ASSUME Types, NEW c \in Calls, RollBack(c)
  PROVE  /\ outcome[c] = "unwinding" /\ at' = at /\ outcome'[c] = "error"
         /\ Elsewhere(c) /\ Clears(c) /\ stored' = stored /\ errors' = errors
BY ConnType DEF RollBack, Elsewhere, Clears, Types, Outcomes

LEMMA BeginFacts ==
  ASSUME Types, NEW c \in Calls, Begin(c)
  PROVE  /\ at[c] = 0 /\ at'[c] = 1 /\ at' \in [Calls -> Nat]
         /\ \A d \in Calls \ {c} : at'[d] = at[d]
         /\ UNCHANGED <<shared, outcome, uncommitted, stored, errors>>
         /\ alone' \subseteq alone
         /\ (\E d \in Calls : Active(d)) =>
              c \notin alone' /\ \A d \in Calls : Active(d) => d \notin alone'
BY DEF Begin, Types
----------------------------------------------------------------------------
(* A step of call c that is not its beginning, as the invariants see it. *)
Statement(c) ==
  \/ At(c, "write") /\ Advances(c) /\ stored' = stored
     /\ uncommitted'[ConnectionOf(c)] = uncommitted[ConnectionOf(c)] \cup {<<c, at[c]>>}
  \/ At(c, "commit") /\ Advances(c) /\ Clears(c)
     /\ stored' = stored \cup uncommitted[ConnectionOf(c)]
  \/ At(c, "return") /\ Advances(c) /\ Clears(c) /\ stored' = stored
  \/ (At(c, "read") \/ (At(c, "refresh") /\ Visible(c))) /\ Advances(c) /\ Keeps(c)
  \/ Active(c) /\ outcome[c] = "none" /\ at' = at /\ outcome'[c] = "unwinding" /\ Keeps(c)
  \/ Active(c) /\ outcome[c] = "unwinding" /\ at' = at /\ outcome'[c] = "error" /\ Clears(c)
     /\ stored' = stored

LEMMA NextStatement ==
  ASSUME Types, Finished, NEW c \in Calls,
         \/ Write(c) \/ Read(c) \/ Refresh(c) \/ Commit(c) \/ Return(c) \/ Fails(c) \/ RollBack(c)
  PROVE  Elsewhere(c) /\ Statement(c) /\ errors' \in 0..MaxErrors
<1>1. errors \in 0..MaxErrors
  BY DEF Types
<1>2. CASE Write(c)
  BY <1>1, <1>2, WriteFacts DEF Statement
<1>3. CASE Commit(c)
  BY <1>1, <1>3, CommitFacts DEF Statement
<1>4. CASE Return(c)
  BY <1>1, <1>4, ReturnFacts DEF Statement
<1>5. CASE Read(c) \/ (Refresh(c) /\ Visible(c))
  BY <1>1, <1>5, LookFacts DEF Statement
<1>6. CASE Fails(c) \/ (Refresh(c) /\ ~Visible(c))
  BY <1>6, RaiseFacts DEF Statement
<1>7. CASE RollBack(c)
  <2>1. Active(c)
    BY <1>7 DEF RollBack, Active, Finished, Types
  <2>2. QED
    BY <1>1, <1>7, <2>1, RollBackFacts DEF Statement
<1>8. QED
  BY <1>2, <1>3, <1>4, <1>5, <1>6, <1>7

LEMMA StepTypes ==
  ASSUME Types, NEW c \in Calls, Elsewhere(c), errors' \in 0..MaxErrors
  PROVE  Types'
BY DEF Types, Elsewhere

(* A step goes on by at most one statement, and only of its own call. *)
LEMMA Progress ==
  ASSUME Types, NEW c \in Calls, Elsewhere(c), Statement(c)
  PROVE  /\ \A d \in Calls : at[d] \in Nat /\ at'[d] \in Nat /\ at[d] <= at'[d]
         /\ Active(c) /\ at[c] > 0
         /\ \A d \in Calls \ {c} : at'[d] = at[d] /\ outcome'[d] = outcome[d]
         /\ at'[c] = at[c] \/ (at'[c] = at[c] + 1 /\ at[c] \in DOMAIN Program[c])
         /\ stored \subseteq stored' /\ stored' \subseteq stored \cup uncommitted[ConnectionOf(c)]
         /\ \A d \in Calls : ConnectionOf(d)' = ConnectionOf(d)
<1>1. /\ \A d \in Calls : at[d] \in Nat
      /\ \A d \in Calls \ {c} : at'[d] = at[d] /\ outcome'[d] = outcome[d]
  BY DEF Types, Elsewhere
<1>2. /\ Active(c)
      /\ at'[c] = at[c] \/ (at'[c] = at[c] + 1 /\ at[c] \in DOMAIN Program[c])
  BY StatementFacts DEF Statement, Advances
<1>3. stored \subseteq stored' /\ stored' \subseteq stored \cup uncommitted[ConnectionOf(c)]
  BY DEF Statement, Keeps
<1>4. \A d \in Calls : ConnectionOf(d)' = ConnectionOf(d)
  BY DEF ConnectionOf, Elsewhere
<1>5. QED
  BY <1>1, <1>2, <1>3, <1>4 DEF Active

LEMMA StepRows ==
  ASSUME Types, RowsPlaced, NEW c \in Calls, Elsewhere(c), Statement(c)
  PROVE  RowsPlaced'
<1>. DEFINE k == ConnectionOf(c)
<1>1. /\ \A d \in Calls : at[d] \in Nat /\ at'[d] \in Nat /\ at[d] <= at'[d]
      /\ \A d \in Calls : ConnectionOf(d)' = ConnectionOf(d)
      /\ stored' \subseteq stored \cup uncommitted[k] /\ stored \subseteq Rows
      /\ uncommitted[k] \subseteq Rows
  BY Progress, ConnType DEF Types
<1>2. \A r \in Rows : Passed(r) => Passed(r)' /\ r[1] \in Calls
  BY <1>1, Programs DEF Passed
<1>3. \A r \in stored' : Passed(r)'
  BY <1>1, <1>2 DEF RowsPlaced, Conns, ConnectionOf
<1>4. \A j \in Conns \ {k}, r \in Rows :
        r \in uncommitted'[j] => Passed(r)' /\ ConnectionOf(r[1])' = j
  BY <1>1, <1>2 DEF RowsPlaced, Elsewhere
<1>5. \A j \in Conns \ {k} : uncommitted'[j] \cap stored' = {}
  <2>1. ASSUME NEW j \in Conns \ {k}, NEW r \in uncommitted[j], r \in uncommitted[k]
        PROVE  FALSE
    BY <1>1, <2>1, ConnType DEF RowsPlaced
  <2>2. QED
    BY <1>1, <2>1 DEF RowsPlaced, Elsewhere
<1>6. CASE uncommitted'[k] = {}
  BY <1>3, <1>4, <1>5, <1>6 DEF RowsPlaced
<1>7. CASE Keeps(c)
  BY <1>1, <1>2, <1>3, <1>4, <1>5, <1>7, ConnType DEF RowsPlaced, Keeps
<1>8. CASE /\ At(c, "write") /\ Advances(c) /\ stored' = stored
           /\ uncommitted'[k] = uncommitted[k] \cup {<<c, at[c]>>}
  <2>1. /\ at[c] \in DOMAIN Program[c] /\ Program[c][at[c]] = "write"
        /\ at'[c] = at[c] + 1
    BY <1>8, StatementFacts DEF Advances
  <2>2. ASSUME NEW r, r = <<c, at[c]>>
        PROVE  Passed(r)' /\ ~Passed(r) /\ r[1] = c
    <3>1. /\ r \in RowsOf(c) /\ r[1] = c /\ r[2] = at[c]
          /\ at[c] \in Nat /\ at'[c] = at[c] + 1
      BY <1>1, <2>1, <2>2, WrittenRow
    <3>2. QED
      BY <3>1 DEF Passed
  <2>3. \A r \in Rows : r \in uncommitted'[k] => Passed(r)' /\ ConnectionOf(r[1])' = k
    <3>1. \A r \in uncommitted[k] : r \in Rows /\ Passed(r) /\ ConnectionOf(r[1]) = k
      BY <1>1, ConnType DEF RowsPlaced
    <3>2. \A r \in uncommitted[k] : Passed(r)' /\ ConnectionOf(r[1])' = k
      BY <1>1, <1>2, <3>1
    <3>3. QED
      BY <1>1, <1>8, <2>2, <3>2
  <2>4. uncommitted'[k] \cap stored' = {}
    BY <1>8, <2>2, ConnType DEF RowsPlaced
  <2>5. QED
    BY <1>3, <1>4, <1>5, <2>3, <2>4 DEF RowsPlaced
<1>9. QED
  BY <1>6, <1>7, <1>8 DEF Statement, Clears

LEMMA StepFinished ==
  ASSUME Types, Finished, NEW c \in Calls, Elsewhere(c), Statement(c)
  PROVE  Finished'
<1>1. /\ outcome'[c] = "ok" => at'[c] = Len(Program[c]) + 1
      /\ at'[c] > 0
  BY Progress DEF Statement, Advances, Active, Types
<1>2. QED
  BY <1>1, Progress DEF Finished

(* Whether a call has committed changes only with its commits. *)
LEMMA CommittedAfter ==
  ASSUME Types, NEW c \in Calls, Elsewhere(c), Statement(c)
  PROVE  /\ \A d \in Calls \ {c} : Committed(d)' <=> Committed(d)
         /\ Committed(c) => Committed(c)'
         /\ ~At(c, "commit") \/ at' = at => (Committed(c)' <=> Committed(c))
         /\ At(c, "commit") /\ Advances(c) => Committed(c)'
<1>1. \A d \in Calls \ {c} : Committed(d)' <=> Committed(d)
  BY Progress DEF Committed
<1>2. \A i \in DOMAIN Program[c] : i \in Nat
  BY Programs
<1>3. Committed(c) => Committed(c)'
  BY <1>2, Progress DEF Committed
<1>4. ASSUME ~At(c, "commit"), at' # at
      PROVE  Committed(c)' <=> Committed(c)
  <2>1. \E statement \in {"write", "return", "read", "refresh"} :
          At(c, statement) /\ at'[c] = at[c] + 1
    BY <1>4 DEF Statement, Advances
  <2>2. Program[c][at[c]] # "commit" /\ at'[c] = at[c] + 1 /\ at[c] \in Nat
    BY <2>1, StatementFacts
  <2>3. QED
    BY <1>2, <2>2 DEF Committed
<1>5. at' = at => (Committed(c)' <=> Committed(c))
  BY DEF Committed
<1>6. At(c, "commit") /\ Advances(c) => Committed(c)'
  BY StatementFacts DEF Committed, Advances
<1>7. QED
  BY <1>1, <1>3, <1>4, <1>5, <1>6

(* A call writes before it commits. *)
LEMMA WriteBefore ==
  ASSUME Types, NEW c \in Calls
  PROVE  /\ At(c, "write") => ~Committed(c)
         /\ At(c, "commit") => RowsOf(c) = Written(c)
         /\ At(c, "return") => Committed(c)
         /\ at[c] = Len(Program[c]) + 1 => Committed(c)
<1>1. At(c, "write") => ~Committed(c)
  BY StatementFacts, ProgramAssumption, Programs DEF Committed
<1>2. At(c, "commit") => RowsOf(c) = Written(c)
  BY StatementFacts, ProgramAssumption, Programs DEF Written
<1>3. At(c, "return") => Committed(c)
  <2>1. SUFFICES ASSUME At(c, "return")
                 PROVE  Committed(c)
    OBVIOUS
  <2>2. at[c] \in DOMAIN Program[c] /\ Program[c][at[c]] = "return"
    BY <2>1, StatementFacts
  <2>3. PICK h \in 1..(at[c] - 1) : Program[c][h] = "commit"
    BY <2>2, ProgramAssumption
  <2>4. h \in DOMAIN Program[c] /\ h < at[c]
    BY <2>2, <2>3, Programs
  <2>5. QED
    BY <2>3, <2>4 DEF Committed
<1>4. at[c] = Len(Program[c]) + 1 => Committed(c)
  BY ProgramAssumption, Programs DEF Committed
<1>5. QED
  BY <1>1, <1>2, <1>3, <1>4

LEMMA StepClears ==
  ASSUME Types, RowsPlaced, CommitClears, NEW c \in Calls, Elsewhere(c), Statement(c)
  PROVE  CommitClears'
<1>1. SUFFICES ASSUME NEW d \in Calls, NEW k \in Conns, Committed(d)'
               PROVE  RowsOf(d) \cap uncommitted'[k] = {}
  BY DEF CommitClears
<1>2. RowsOf(d) \subseteq Rows /\ \A r \in RowsOf(d) : r[1] = d
  BY Programs
<1>3. CASE Committed(d) /\ ~(At(c, "write") /\ d = c)
  <2>1. RowsOf(d) \cap uncommitted[k] = {}
    BY <1>3 DEF CommitClears
  <2>2. uncommitted'[k] \subseteq uncommitted[k] \cup (IF At(c, "write") THEN {<<c, at[c]>>} ELSE {})
    BY DEF Elsewhere, Statement, Keeps, Clears
  <2>3. d # c => <<c, at[c]>> \notin RowsOf(d)
    BY <1>2
  <2>4. QED
    BY <1>3, <2>1, <2>2, <2>3
<1>4. CASE Committed(c) /\ At(c, "write")
  BY <1>4, WriteBefore
<1>5. CASE ~Committed(d)
  <2>1. d = c /\ At(c, "commit") /\ at' # at
    BY <1>1, <1>5, CommittedAfter
  <2>2. Clears(c)
    BY <2>1 DEF Statement, At, Active
  <2>3. k # ConnectionOf(c) => RowsOf(c) \cap uncommitted'[k] = {}
    BY <1>2, <2>1 DEF Elsewhere, RowsPlaced
  <2>4. QED
    BY <2>1, <2>2, <2>3 DEF Clears
<1>6. QED
  BY <1>3, <1>4, <1>5

LEMMA StepOverlaps ==
  ASSUME Types, Overlaps, NEW c \in Calls, Elsewhere(c), Statement(c)
  PROVE  Overlaps'
<1>1. \A d \in Calls : Active(d)' => Active(d)
  BY Progress DEF Active
<1>2. QED
  BY <1>1 DEF Overlaps, Elsewhere

(* The rows of a call that has its connection to itself are out of the others' reach. *)
LEMMA OutOfReach ==
  ASSUME Types, RowsPlaced, Finished, Overlaps, AllOrNothing, NEW c \in Calls, Active(c),
         NEW d \in Calls \ {c}, Solo(d)
  PROVE  /\ RowsOf(d) \cap uncommitted[ConnectionOf(c)] = {}
         /\ ConnectionOf(d) # ConnectionOf(c) \/ ~Active(d)
<1>1. RowsOf(d) \subseteq Rows /\ \A r \in RowsOf(d) : r[1] = d /\ r[2] > 0
  BY Programs
<1>2. ConnectionOf(c) \in Conns
  BY ConnType
<1>3. CASE ConnectionOf(d) # ConnectionOf(c)
  BY <1>1, <1>2, <1>3 DEF RowsPlaced
<1>4. CASE ConnectionOf(d) = ConnectionOf(c)
  <2>1. shared /\ d \in alone
    BY <1>4 DEF ConnectionOf, Solo
  <2>2. ~Active(d)
    BY <2>1 DEF Overlaps
  <2>3. CASE at[d] = 0
    <3>1. \A r \in RowsOf(d) : r \in Rows /\ r[1] = d /\ r[2] \in Nat \ {0}
      BY Programs
    <3>2. \A r \in RowsOf(d) : ~Passed(r)
      BY <2>3, <3>1 DEF Passed
    <3>3. \A r \in RowsOf(d) : r \notin uncommitted[ConnectionOf(c)]
      BY <1>2, <3>1, <3>2 DEF RowsPlaced
    <3>4. QED
      BY <2>2, <3>3
  <2>4. CASE outcome[d] \in {"ok", "error"}
    <3>1. RowsOf(d) \cap uncommitted[ConnectionOf(d)] = {}
      BY <2>4 DEF AllOrNothing
    <3>2. QED
      BY <1>4, <2>2, <3>1
  <2>5. QED
    BY <2>2, <2>3, <2>4 DEF Active, Types, Outcomes
<1>5. QED
  BY <1>3, <1>4

LEMMA OthersAllOrNothing ==
  ASSUME Types, RowsPlaced, Finished, Overlaps, AllOrNothing, NEW c \in Calls, Elsewhere(c),
         Statement(c), NEW d \in Calls \ {c}, Solo(d)
  PROVE  /\ Committed(d)' => Whole(d)'
         /\ ~Committed(d)' => Absent(d)'
         /\ ~Committed(d)' /\ outcome'[d] = "none"
              => Written(d)' \subseteq uncommitted'[ConnectionOf(d)]
         /\ outcome'[d] \in {"ok", "error"} => RowsOf(d) \cap uncommitted'[ConnectionOf(d)] = {}
<1>1. /\ RowsOf(d) \cap uncommitted[ConnectionOf(c)] = {}
      /\ ConnectionOf(d) # ConnectionOf(c) \/ ~Active(d)
  BY OutOfReach, Progress
<1>2. /\ at'[d] = at[d] /\ outcome'[d] = outcome[d] /\ (Committed(d)' <=> Committed(d))
      /\ stored \subseteq stored' /\ stored' \subseteq stored \cup uncommitted[ConnectionOf(c)]
  BY Progress, CommittedAfter
<1>3. /\ Whole(d) => Whole(d)'
      /\ Absent(d) => Absent(d)'
      /\ Written(d)' = Written(d)
  BY <1>1, <1>2 DEF Whole, Absent, Written
<1>4. ASSUME ~Committed(d), outcome[d] = "none"
      PROVE  Written(d) \subseteq uncommitted'[ConnectionOf(d)]
  <2>1. CASE ConnectionOf(d) # ConnectionOf(c)
    BY <1>4, <2>1, ConnType DEF AllOrNothing, Elsewhere
  <2>2. CASE ~Active(d)
    <3>1. at[d] = 0
      BY <1>4, <2>2 DEF Active, Types
    <3>2. QED
      BY <3>1, Programs DEF Written
  <2>3. QED
    BY <1>1, <2>1, <2>2
<1>5. ASSUME outcome[d] \in {"ok", "error"}
      PROVE  RowsOf(d) \cap uncommitted'[ConnectionOf(d)] = {}
  <2>1. RowsOf(d) \cap uncommitted[ConnectionOf(d)] = {}
    BY <1>5 DEF AllOrNothing
  <2>2. uncommitted'[ConnectionOf(d)] \subseteq uncommitted[ConnectionOf(d)] \cup {<<c, at[c]>>}
    BY ConnType DEF Elsewhere, Statement, Keeps, Clears
  <2>3. <<c, at[c]>> \notin RowsOf(d)
    BY Programs
  <2>4. QED
    BY <2>1, <2>2, <2>3
<1>6. (Committed(d) => Whole(d)) /\ (~Committed(d) => Absent(d))
  BY DEF AllOrNothing
<1>7. (Committed(d)' => Whole(d)') /\ (~Committed(d)' => Absent(d)')
  BY <1>2, <1>3, <1>6
<1>8. ~Committed(d)' /\ outcome'[d] = "none"
        => Written(d)' \subseteq uncommitted'[ConnectionOf(d)]
  BY <1>2, <1>3, <1>4
<1>9. outcome'[d] \in {"ok", "error"} => RowsOf(d) \cap uncommitted'[ConnectionOf(d)] = {}
  BY <1>2, <1>5
<1>10. QED
  BY <1>7, <1>8, <1>9

LEMMA OwnAllOrNothing ==
  ASSUME SessionInv, NEW c \in Calls, Elsewhere(c), Statement(c), Solo(c), CommitClears', Types'
  PROVE  /\ Committed(c)' => Whole(c)'
         /\ ~Committed(c)' => Absent(c)'
         /\ ~Committed(c)' /\ outcome'[c] = "none"
              => Written(c)' \subseteq uncommitted'[ConnectionOf(c)]
         /\ outcome'[c] \in {"ok", "error"} => RowsOf(c) \cap uncommitted'[ConnectionOf(c)] = {}
<1>. USE DEF SessionInv
<1>1. /\ Committed(c) => Whole(c)
      /\ ~Committed(c) => Absent(c)
      /\ ~Committed(c) /\ outcome[c] = "none" => Written(c) \subseteq uncommitted[ConnectionOf(c)]
  BY DEF AllOrNothing
<1>2. /\ Committed(c) => Committed(c)' /\ Whole(c)'
      /\ outcome'[c] = "ok" => Committed(c)'
  <2>1. outcome'[c] = "ok" => at'[c] = Len(Program[c]) + 1
    BY DEF Statement, Advances, Active, Types
  <2>2. at'[c] = Len(Program[c]) + 1 => Committed(c)'
    BY ProgramAssumption, Programs DEF Committed
  <2>3. QED
    BY <1>1, <2>1, <2>2, Progress, CommittedAfter DEF Whole
<1>3. Committed(c)' => RowsOf(c) \cap uncommitted'[ConnectionOf(c)] = {}
  BY ConnType DEF CommitClears
<1>4. CASE /\ At(c, "write") /\ Advances(c) /\ stored' = stored
           /\ uncommitted'[ConnectionOf(c)] = uncommitted[ConnectionOf(c)] \cup {<<c, at[c]>>}
  <2>1. ~Committed(c) /\ ~Committed(c)' /\ Absent(c)'
    BY <1>1, <1>4, WriteBefore, CommittedAfter, StatementFacts DEF At, Absent
  <2>2. \A r \in Written(c)' : r \in Written(c) \/ r = <<c, at[c]>>
    BY <1>4, Programs, StatementFacts DEF Written, Advances
  <2>3. Written(c) \subseteq uncommitted[ConnectionOf(c)]
    BY <1>1, <1>4, <2>1 DEF At
  <2>4. outcome'[c] \notin {"ok", "error"}
    BY <1>2, <1>4, <2>1 DEF Advances
  <2>5. QED
    BY <1>4, <2>1, <2>2, <2>3, <2>4
<1>5. CASE /\ At(c, "commit") /\ Advances(c) /\ Clears(c)
           /\ stored' = stored \cup uncommitted[ConnectionOf(c)]
  <2>1. Committed(c)'
    BY <1>5, CommittedAfter
  <2>2. Whole(c)'
    BY <1>1, <1>2, <1>5, WriteBefore DEF Whole, At
  <2>3. QED
    BY <1>3, <2>1, <2>2
<1>6. CASE At(c, "return") /\ Advances(c) /\ Clears(c) /\ stored' = stored
  BY <1>2, <1>3, <1>6, WriteBefore
<1>7. CASE (At(c, "read") \/ (At(c, "refresh") /\ Visible(c))) /\ Advances(c) /\ Keeps(c)
  <2>1. Absent(c) => Absent(c)'
    BY <1>7 DEF Keeps, Absent
  <2>2. Written(c)' = Written(c) /\ outcome[c] = "none"
    <3>1. /\ at'[c] = at[c] + 1 /\ at[c] \in Nat /\ Program[c][at[c]] # "write"
          /\ outcome[c] = "none"
      BY <1>7, StatementFacts DEF Advances
    <3>2. QED
      BY <3>1, Programs DEF Written
  <2>3. Written(c) \subseteq uncommitted[ConnectionOf(c)] => Written(c) \subseteq uncommitted'[ConnectionOf(c)]
    BY <1>7 DEF Keeps
  <2>4. outcome'[c] # "error"
    BY <1>7 DEF Advances
  <2>5. ~At(c, "commit") /\ (Committed(c)' <=> Committed(c))
    BY <1>7, CommittedAfter DEF At
  <2>6. Committed(c)' => Whole(c)'
    BY <1>1, <1>2, <2>5
  <2>7. ~Committed(c)' => Absent(c)'
    BY <1>1, <2>1, <2>5
  <2>8. ~Committed(c)' => Written(c)' \subseteq uncommitted'[ConnectionOf(c)]
    BY <1>1, <2>2, <2>3, <2>5
  <2>9. outcome'[c] \in {"ok", "error"} => RowsOf(c) \cap uncommitted'[ConnectionOf(c)] = {}
    BY <1>2, <1>3, <2>4
  <2>10. QED
    BY <2>6, <2>7, <2>8, <2>9
<1>8. CASE at' = at /\ outcome'[c] = "unwinding" /\ Keeps(c)
  BY <1>1, <1>2, <1>8, CommittedAfter DEF Keeps, Absent
<1>9. CASE at' = at /\ outcome'[c] = "error" /\ Clears(c) /\ stored' = stored
  BY <1>1, <1>2, <1>9, CommittedAfter DEF Clears, Absent
<1>10. QED
  BY <1>4, <1>5, <1>6, <1>7, <1>8, <1>9 DEF Statement

LEMMA StepRefreshed ==
  ASSUME Types, CommitClears, RefreshedRows, NEW c \in Calls, Elsewhere(c), Statement(c)
  PROVE  RefreshedRows'
<1>1. SUFFICES ASSUME NEW d \in Calls, CommitsFirst(d), NEW i \in DOMAIN Program[d],
                      NEW j \in DOMAIN Program[d], Program[d][i] = "commit",
                      Program[d][j] = "refresh", i < j, j < at'[d]
               PROVE  Whole(d)'
  BY DEF RefreshedRows, CommitsFirst
<1>2. CASE j < at[d]
  BY <1>1, <1>2, Progress DEF RefreshedRows, Whole
<1>3. CASE ~(j < at[d])
  <2>1. d = c /\ j = at[c] /\ at' # at
    BY <1>1, <1>3, Progress, Programs
  <2>2. Visible(c) /\ Keeps(c)
    BY <1>1, <2>1 DEF Statement, At
  <2>3. Committed(c)
    BY <1>1, <2>1 DEF Committed
  <2>4. RowsOf(c) \cap uncommitted[ConnectionOf(c)] = {}
    BY <2>3, ConnType DEF CommitClears
  <2>5. QED
    BY <2>1, <2>2, <2>4 DEF Visible, Whole, Keeps
<1>4. QED
  BY <1>2, <1>3

LEMMA StatementInv ==
  ASSUME SessionInv, NEW c \in Calls, Elsewhere(c), Statement(c), errors' \in 0..MaxErrors
  PROVE  SessionInv'
<1>1. Types' /\ RowsPlaced' /\ Finished' /\ CommitClears' /\ Overlaps' /\ RefreshedRows'
  BY StepTypes, StepRows, StepFinished, StepClears, StepOverlaps, StepRefreshed DEF SessionInv
<1>2. ASSUME NEW d \in Calls, Solo(d)'
      PROVE  Solo(d) /\ ConnectionOf(d)' = ConnectionOf(d)
  BY <1>2 DEF Solo, Elsewhere, ConnectionOf
<1>3. AllOrNothing'
  <2>1. SUFFICES ASSUME NEW d \in Calls, Solo(d)'
                 PROVE  /\ Committed(d)' => Whole(d)'
                        /\ ~Committed(d)' => Absent(d)'
                        /\ ~Committed(d)' /\ outcome'[d] = "none"
                             => Written(d)' \subseteq uncommitted'[ConnectionOf(d)']
                        /\ outcome'[d] \in {"ok", "error"}
                             => RowsOf(d) \cap uncommitted'[ConnectionOf(d)'] = {}
    BY DEF AllOrNothing
  <2>2. CASE d = c
    BY <1>1, <1>2, <2>1, <2>2, OwnAllOrNothing
  <2>3. CASE d # c
    BY <1>2, <2>1, <2>3, OthersAllOrNothing DEF SessionInv
  <2>4. QED
    BY <2>2, <2>3
<1>4. QED
  BY <1>1, <1>3 DEF SessionInv

(* get_session(): the call, and every call that is under way, is no longer alone. *)
LEMMA BeginInv ==
  ASSUME SessionInv, NEW c \in Calls, Begin(c)
  PROVE  SessionInv'
<1>. USE DEF SessionInv
<1>1. /\ at[c] = 0 /\ at'[c] = 1 /\ at' \in [Calls -> Nat]
      /\ \A d \in Calls \ {c} : at'[d] = at[d]
      /\ UNCHANGED <<shared, outcome, uncommitted, stored, errors>>
      /\ alone' \subseteq alone
      /\ (\E d \in Calls : Active(d)) =>
           c \notin alone' /\ \A d \in Calls : Active(d) => d \notin alone'
  BY BeginFacts
<1>2. \A d \in Calls : at[d] \in Nat /\ at'[d] \in Nat /\ at[d] <= at'[d]
  BY <1>1 DEF Types
<1>3. outcome[c] = "none"
  BY <1>1, <1>2 DEF Finished
<1>4. Types'
  BY <1>1 DEF Types
<1>5. \A d \in Calls : /\ Committed(d)' <=> Committed(d)
                       /\ Written(d)' = Written(d)
                       /\ ConnectionOf(d)' = ConnectionOf(d)
                       /\ Solo(d)' => Solo(d)
  <2>1. ~Committed(c) /\ ~Committed(c)' /\ Written(c) = {} /\ Written(c)' = {}
    BY <1>1, Programs DEF Committed, Written
  <2>2. QED
    BY <1>1, <2>1 DEF Committed, Written, ConnectionOf, Solo
<1>6. RowsPlaced'
  <2>1. \A r \in Rows : Passed(r) => Passed(r)'
    BY <1>2, Programs DEF Passed
  <2>2. \A r \in Rows : Passed(r) => ConnectionOf(r[1])' = ConnectionOf(r[1])
    BY <1>5 DEF Passed
  <2>3. QED
    BY <1>1, <2>1, <2>2 DEF RowsPlaced, Types
<1>7. Finished'
  BY <1>1, <1>2, <1>3 DEF Finished
<1>8. CommitClears'
  BY <1>1, <1>5 DEF CommitClears
<1>9. Overlaps'
  <2>1. \A d \in Calls : Active(d)' => d = c \/ Active(d)
    BY <1>1 DEF Active
  <2>2. QED
    BY <1>1, <2>1 DEF Overlaps
<1>10. AllOrNothing'
  BY <1>1, <1>5 DEF AllOrNothing, Whole, Absent
<1>11. RefreshedRows'
  BY <1>1, Programs DEF RefreshedRows, Whole
<1>12. QED
  BY <1>4, <1>6, <1>7, <1>8, <1>9, <1>10, <1>11

LEMMA NextSession == SessionInv /\ [SessionNext]_sessionVars => SessionInv'
<1>. SUFFICES ASSUME SessionInv, [SessionNext]_sessionVars
              PROVE  SessionInv'
  OBVIOUS
<1>1. ASSUME NEW c \in Calls,
             \/ Write(c) \/ Read(c) \/ Refresh(c) \/ Commit(c) \/ Return(c) \/ Fails(c)
             \/ RollBack(c)
      PROVE  SessionInv'
  BY <1>1, NextStatement, StatementInv DEF SessionInv
<1>2. CASE UNCHANGED sessionVars
  BY <1>2 DEF sessionVars, SessionInv, Types, RowsPlaced, Passed, ConnectionOf, Finished,
              CommitClears, Committed, Overlaps, Active, AllOrNothing, Solo, Written, Whole,
              Absent, RefreshedRows
<1>3. QED
  BY <1>1, <1>2, BeginInv DEF SessionNext

(* Types, and a row that is stored is not also uncommitted. *)
THEOREM SessionTypeCorrect == SessionSpec => []SessionTypeOK
<1>1. SessionInv => SessionTypeOK
  BY DEF SessionInv, Types, RowsPlaced, SessionTypeOK, Conns
<1>2. QED
  BY <1>1, InitSession, NextSession, PTL DEF SessionSpec

(* A call of get_session that nothing overlaps on its connection - on PostgreSQL, any call -
   stores all it wrote if it returns, and all or nothing if it raises. *)
THEOREM CallsAreAtomic == SessionSpec => []CallsAtomic
<1>1. SessionInv => CallsAtomic
  <2>1. SUFFICES ASSUME SessionInv, NEW c \in Calls, Solo(c), outcome[c] \in {"ok", "error"}
                 PROVE  Whole(c) \/ (outcome[c] = "error" /\ Absent(c))
    BY DEF CallsAtomic, Solo
  <2>2. (Committed(c) => Whole(c)) /\ (~Committed(c) => Absent(c))
    BY <2>1 DEF SessionInv, AllOrNothing
  <2>3. outcome[c] = "ok" => Committed(c)
    BY <2>1, WriteBefore DEF SessionInv, Finished
  <2>4. QED
    BY <2>1, <2>2, <2>3
<1>2. QED
  BY <1>1, InitSession, NextSession, PTL DEF SessionSpec

(* The id that log_intrusion_event returns is that of a stored event, even on SQLite's one
   connection, whatever the other threads commit and roll back there. *)
THEOREM ReturnedIdsStored == SessionSpec => []EventIdsAreReal
<1>1. SessionInv => EventIdsAreReal
  <2>1. SUFFICES ASSUME SessionInv, NEW c \in Calls, CommitsFirst(c), outcome[c] = "ok"
                 PROVE  Whole(c)
    BY DEF EventIdsAreReal
  <2>2. PICK i, j \in DOMAIN Program[c] :
          i < j /\ Program[c][i] = "commit" /\ Program[c][j] = "refresh"
    BY <2>1 DEF CommitsFirst
  <2>3. j < at[c]
    BY <2>1, Programs DEF SessionInv, Finished
  <2>4. QED
    BY <2>1, <2>2, <2>3 DEF SessionInv, RefreshedRows
<1>2. QED
  BY <1>1, InitSession, NextSession, PTL DEF SessionSpec
----------------------------------------------------------------------------
(* The refinement of AtomicCalls: what each caller has got. *)
AnswerOf(o) == IF o = "unwinding" THEN "none" ELSE o
Answer == [c \in Calls |-> AnswerOf(outcome[c])]

LEMMA OneAnswer ==
  ASSUME NEW c \in Calls, \A d \in Calls \ {c} : outcome'[d] = outcome[d]
  PROVE  Answer' = [Answer EXCEPT ![c] = AnswerOf(outcome'[c])]
BY DEF Answer

(* Alone on its connection, a call commits its own rows, all of them, or none again. *)
LEMMA CommitWhole ==
  ASSUME SessionInv, SessionInv', NEW c \in Calls, ~shared, Elsewhere(c), Statement(c),
         At(c, "commit"), Advances(c), stored' = stored \cup uncommitted[ConnectionOf(c)]
  PROVE  stored' = stored \cup RowsOf(c)
<1>1. ConnectionOf(c) = c /\ c \in Conns
  BY DEF ConnectionOf, Conns
<1>2. uncommitted[c] \subseteq RowsOf(c)
  <2>1. uncommitted[c] \subseteq Rows
    BY <1>1 DEF SessionInv, Types
  <2>2. ASSUME NEW r \in uncommitted[c]
        PROVE  r \in RowsOf(c)
    <3>1. Passed(r) /\ ConnectionOf(r[1]) = c
      BY <1>1, <2>1, <2>2 DEF SessionInv, RowsPlaced
    <3> QED
      BY <3>1 DEF Passed, ConnectionOf
  <2> QED
    BY <2>2
<1>3. Committed(c)'
  BY CommittedAfter DEF SessionInv
<1>4. Whole(c)'
  BY <1>3 DEF SessionInv, AllOrNothing, Solo, Elsewhere
<1>5. RowsOf(c) \subseteq stored'
  BY <1>4 DEF Whole
<1> QED
  BY <1>1, <1>2, <1>5

LEMMA StatementKeepsPromise ==
  ASSUME SessionInv, SessionInv', NEW c \in Calls, Elsewhere(c), Statement(c)
  PROVE  [Atomic!CallsNext]_(Atomic!callVars)
<1>. DEFINE RowsIn == [d \in Calls |-> RowsOf(d)]
<1>1. Answer' = [Answer EXCEPT ![c] = AnswerOf(outcome'[c])] /\ shared' = shared
  BY OneAnswer DEF Elsewhere
<1>2. outcome[c] \in {"none", "unwinding"} /\ Answer[c] = "none"
  BY DEF Statement, At, Active, Answer, AnswerOf
<1>3. Answer = [Answer EXCEPT ![c] = "none"]
  BY <1>2 DEF Answer
<1>4. outcome'[c] \in {"none", "unwinding", "ok", "error"}
  BY DEF Statement, Advances
<1>5. \/ outcome'[c] \in {"none", "unwinding"} /\ Answer' = Answer
      \/ outcome'[c] \in {"ok", "error"} /\ Answer' = [Answer EXCEPT ![c] = outcome'[c]]
  BY <1>1, <1>3, <1>4 DEF AnswerOf
<1>6. stored \subseteq stored'
  BY DEF Statement, Keeps
<1>7. CASE shared
  <2>1. \/ Answer' = [Answer EXCEPT ![c] = "ok"] \/ Answer' = [Answer EXCEPT ![c] = "error"]
        \/ Answer' = Answer
    BY <1>5
  <2>2. Atomic!Meddle(c)
    BY <1>6, <2>1 DEF Atomic!Meddle, Atomic!Answers, Answer, AnswerOf
  <2> QED
    BY <1>1, <1>2, <1>7, <2>2 DEF Atomic!CallsNext, Answer, AnswerOf
<1>8. CASE ~shared /\ At(c, "commit") /\ Advances(c)
           /\ stored' = stored \cup uncommitted[ConnectionOf(c)]
  <2>1. stored' = stored \cup RowsOf(c)
    BY <1>8, CommitWhole
  <2>2. outcome'[c] \in {"none", "ok"}
    BY <1>8 DEF Advances
  <2>3. Answer' = [Answer EXCEPT ![c] = "ok"] \/ Answer' = Answer
    BY <1>5, <2>2
  <2>4. Atomic!Store(c)
    BY <2>1, <2>3 DEF Atomic!Store, Atomic!Answers, Answer, AnswerOf
  <2> QED
    BY <1>1, <1>2, <1>8, <2>4 DEF Atomic!CallsNext, Answer, AnswerOf
<1>9. CASE ~shared /\ stored' = stored
  <2>1. CASE outcome'[c] \in {"none", "unwinding"}
    <3>1. Answer' = Answer
      BY <1>5, <2>1
    <3> QED
      BY <1>1, <1>9, <3>1 DEF Atomic!callVars, Answer, AnswerOf
  <2>2. CASE outcome'[c] = "ok"
    <3>1. Whole(c)'
      <4>1. at'[c] = Len(Program[c]) + 1
        BY <2>2 DEF SessionInv, Finished
      <4>2. Committed(c)'
        BY <4>1, ProgramAssumption, Programs DEF Committed
      <4> QED
        BY <1>1, <1>9, <4>2 DEF SessionInv, AllOrNothing, Solo
    <3>2. RowsOf(c) \subseteq stored
      BY <1>9, <3>1 DEF Whole
    <3>3. Answer' = [Answer EXCEPT ![c] = "ok"]
      BY <1>5, <2>2
    <3>4. Atomic!Return(c)
      BY <1>9, <3>2, <3>3 DEF Atomic!Return, Atomic!Answers, Answer, AnswerOf
    <3> QED
      BY <1>1, <1>2, <1>9, <3>4 DEF Atomic!CallsNext, Answer, AnswerOf
  <2>3. CASE outcome'[c] = "error"
    <3>1. Answer' = [Answer EXCEPT ![c] = "error"]
      BY <1>5, <2>3
    <3>2. Atomic!Raise(c)
      BY <1>9, <3>1 DEF Atomic!Raise, Atomic!Answers, Answer, AnswerOf
    <3> QED
      BY <1>1, <1>2, <1>9, <3>2 DEF Atomic!CallsNext, Answer, AnswerOf
  <2> QED
    BY <1>4, <2>1, <2>2, <2>3
<1>10. stored' = stored \/ (At(c, "commit") /\ Advances(c)
                             /\ stored' = stored \cup uncommitted[ConnectionOf(c)])
  BY DEF Statement, Keeps
<1> QED
  BY <1>7, <1>8, <1>9, <1>10

LEMMA StepKeepsPromise ==
  SessionInv /\ SessionInv' /\ [SessionNext]_sessionVars => [Atomic!CallsNext]_(Atomic!callVars)
<1>. SUFFICES ASSUME SessionInv, SessionInv', [SessionNext]_sessionVars
              PROVE  [Atomic!CallsNext]_(Atomic!callVars)
  OBVIOUS
<1>1. ASSUME NEW c \in Calls,
             \/ Write(c) \/ Read(c) \/ Refresh(c) \/ Commit(c) \/ Return(c) \/ Fails(c)
             \/ RollBack(c)
      PROVE  [Atomic!CallsNext]_(Atomic!callVars)
  BY <1>1, NextStatement, StatementKeepsPromise DEF SessionInv
<1>2. CASE (\E c \in Calls : Begin(c)) \/ UNCHANGED sessionVars
  <2>1. UNCHANGED <<shared, stored, outcome>>
    BY <1>2 DEF Begin, sessionVars
  <2> QED
    BY <2>1 DEF Atomic!callVars
<1> QED
  BY <1>1, <1>2 DEF SessionNext

(* Where each session has a connection of its own, the functions of the database module are
   atomic for everyone who looks: their rows are stored in one step, all of them, a function
   returns after that, and one that raised has stored all or nothing.  On the shared
   connection nothing is left of that but that no row is taken back. *)
THEOREM SessionsKeepPromise == SessionSpec => CallsRefined
<1>1. SessionInit => Atomic!CallsInit
  BY DEF SessionInit, Atomic!CallsInit
<1> QED
  BY <1>1, InitSession, NextSession, StepKeepsPromise, PTL
     DEF SessionSpec, CallsRefined, Atomic!CallsSpec
=============================================================================
