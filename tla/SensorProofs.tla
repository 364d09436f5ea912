---------------------------- MODULE SensorProofs ----------------------------
(***************************************************************************)
(* Proofs about Sensor, for any sources, rules and worker tasks, any       *)
(* limits and windows, and any budgets of packets, edits and failures.     *)
(***************************************************************************)
EXTENDS Sensor, FiniteSetTheorems, SequenceTheorems, WellFoundedInduction, TLAPS

----------------------------------------------------------------------------
(* Induction over the naturals, in terms of sets.                          *)
LEMMA LeastElement ==
  ASSUME NEW T, T \subseteq Nat, T # {}
  PROVE  \E m \in T : \A k \in T : m <= k
<1>1. IsWellFoundedOn(OpToRel(<, Nat), Nat)
  BY NatLessThanWellFounded
<1>2. PICK m \in T : \A k \in T : ~(<<k, m>> \in OpToRel(<, Nat))
  BY <1>1, WFMin
<1>3. \A k \in T : <<k, m>> \in OpToRel(<, Nat) <=> k < m
  BY <1>2, Zenon DEF OpToRel
<1>4. \A k \in T : ~(k < m)
  BY <1>2, <1>3, Zenon
<1>5. \A k \in T : k \in Nat /\ m \in Nat
  OBVIOUS
<1>6. QED
  BY <1>4, <1>5

LEMMA SetInduction ==
  ASSUME NEW S, 0 \in S, \A n \in Nat : n \in S => n + 1 \in S
  PROVE  Nat \subseteq S
<1>1. SUFFICES ASSUME Nat \ S # {}
               PROVE  FALSE
  OBVIOUS
<1>2. PICK m \in Nat \ S : \A k \in Nat \ S : m <= k
  BY <1>1, LeastElement
<1>3. m # 0 /\ m - 1 \in Nat /\ (m - 1) + 1 = m /\ ~(m <= m - 1)
  BY <1>2
<1>4. m - 1 \in S
  BY <1>2, <1>3
<1>5. QED
  BY <1>2, <1>3, <1>4
----------------------------------------------------------------------------
(* The walk of a packet through the rules, step by step.                   *)
Outset == [tracker |-> tracker, lastSeen |-> lastSeen, looks |-> [id \in RuleIds |-> Unseen]]

Stepped(st, i, source, fits) ==
  IF Looks(order[i], source, fits) THEN EvaluateRule(st, order[i], source) ELSE st

IsWalk(w, n, source, fits) ==
  w = [i \in 0..n |-> IF i = 0 THEN Outset ELSE Stepped(w[i - 1], i, source, fits)]

LEMMA WalkExists ==
  ASSUME NEW source, NEW fits, NEW n \in Nat
  PROVE  \E w : IsWalk(w, n, source, fits)
<1>. DEFINE S == {m \in Nat : \E w : IsWalk(w, m, source, fits)}
<1>1. 0 \in S
  <2>. DEFINE w == [i \in 0..0 |-> Outset]
  <2>1. w = [i \in 0..0 |-> IF i = 0 THEN Outset ELSE Stepped(w[i - 1], i, source, fits)]
    OBVIOUS
  <2>2. IsWalk(w, 0, source, fits)
    BY <2>1, Zenon DEF IsWalk
  <2> QED
    BY <2>2
<1>2. ASSUME NEW m \in Nat, m \in S
      PROVE  m + 1 \in S
  <2>1. PICK w : IsWalk(w, m, source, fits)
    BY <1>2
  <2>. DEFINE v == [i \in 0..m + 1 |-> IF i = m + 1 THEN Stepped(w[m], m + 1, source, fits)
                                                   ELSE w[i]]
  <2>2. \A i \in 0..m : w[i] = IF i = 0 THEN Outset ELSE Stepped(w[i - 1], i, source, fits)
    BY <2>1 DEF IsWalk
  <2>3. ASSUME NEW i \in 0..m + 1
        PROVE  v[i] = IF i = 0 THEN Outset ELSE Stepped(v[i - 1], i, source, fits)
    <3>1. CASE i = m + 1
      <4>1. i # 0 /\ i - 1 = m /\ m \in 0..m + 1 /\ m # m + 1
        BY <3>1
      <4>2. v[i - 1] = w[m] /\ v[i] = Stepped(w[m], i, source, fits)
        BY <3>1, <4>1
      <4> QED
        BY <4>1, <4>2
    <3>2. CASE i # m + 1
      <4>1. i \in 0..m /\ v[i] = w[i] /\ (i # 0 => i - 1 \in 0..m + 1 /\ i - 1 # m + 1)
        BY <3>2
      <4>2. i # 0 => v[i - 1] = w[i - 1]
        BY <4>1
      <4>. HIDE DEF v
      <4> QED
        BY <2>2, <4>1, <4>2
    <3> QED
      BY <3>1, <3>2
  <2>4. v = [i \in 0..m + 1 |-> v[i]]
    OBVIOUS
  <2>. HIDE DEF v
  <2>5. v = [i \in 0..m + 1 |-> IF i = 0 THEN Outset ELSE Stepped(v[i - 1], i, source, fits)]
    BY <2>3, <2>4
  <2>6. IsWalk(v, m + 1, source, fits)
    BY <2>5, Zenon DEF IsWalk
  <2> QED
    BY <2>6
<1>. HIDE DEF S
<1>3. Nat \subseteq S
  BY <1>1, <1>2, SetInduction
<1> QED
  BY <1>3 DEF S

LEMMA WalkStep ==
  ASSUME NEW source, NEW fits, Len(order) \in Nat
  PROVE  /\ Walk(source, fits)[0] = Outset
         /\ \A i \in 1..Len(order) :
              Walk(source, fits)[i] = Stepped(Walk(source, fits)[i - 1], i, source, fits)
<1>1. \E w : IsWalk(w, Len(order), source, fits)
  BY WalkExists
<1>2. Walk(source, fits) = CHOOSE w : IsWalk(w, Len(order), source, fits)
  BY DEF Walk, IsWalk, Outset, Stepped
<1>3. IsWalk(Walk(source, fits), Len(order), source, fits)
  BY <1>1, <1>2
<1> QED
  BY <1>3 DEF IsWalk
----------------------------------------------------------------------------
(* The inductive invariant of the detector.  It is stated for any tracker, memory of
   matches and history, so that it can be shown to hold after each rule of a walk.  *)
Pairs == RuleIds \X Sources
Fates == {"none", "silenced", "stored", "missed"}
Severities == {"LOW", "MEDIUM", "HIGH", "CRITICAL", None}
LookSet == [at: Nat, form: RuleForms, fate: Fates, severity: Severities]

Ascending(q, t) ==
  /\ q \in Seq(Nat)
  /\ \A i \in 1..Len(q) : q[i] <= t
  /\ \A i, j \in 1..Len(q) : i <= j => q[i] <= q[j]

Aging(p, t) ==
  /\ p \in Seq(LookSet)
  /\ \A i \in 1..Len(p) : p[i].at <= t
  /\ \A i, j \in 1..Len(p) : i <= j => p[i].at <= p[j].at

(* What the detector keeps, at time t: T are the times, L the last matches, H the history. *)
Shape(t, T, L, H) ==
  /\ t \in Nat
  /\ T \in [(RuleIds \cup {None}) \X Sources -> Seq(Nat)]
  /\ L \in [Pairs -> Nat \cup {None}]
  /\ H \in [Pairs -> Seq(LookSet)]
  /\ \A k \in (RuleIds \cup {None}) \X Sources : Ascending(T[k], t)
  /\ \A k \in Pairs : L[k] \in {None} \cup 0..t
  /\ \A k \in Pairs : Aging(H[k], t)

LastMatch(p, m) == Matched(p[m]) /\ \A l \in m + 1..Len(p) : ~Matched(p[l])

(* The suppression of a rule that was not replaced remembers its last match, and the
   chain of its matches begins with one that was not silenced. *)
Quiet(p, seen) ==
  /\ p = <<>> => seen = None
  /\ p # <<>> /\ OneForm(p, 1, Len(p)) /\ p[Len(p)].form.suppression > 0 =>
       \/ seen = None /\ \A m \in 1..Len(p) : ~Matched(p[m])
       \/ \E m \in 1..Len(p) : LastMatch(p, m) /\ seen = p[m].at
  /\ p # <<>> /\ OneForm(p, 1, Len(p)) =>
       \/ \A m \in 1..Len(p) : ~Matched(p[m])
       \/ \E i \in 1..Len(p) : /\ p[i].fate \in {"stored", "missed"}
                               /\ Chain(p, i, p[Len(p)].form.suppression)

(* The times of a SIGNATURE rule are those of its last looks, and the earlier ones were
   older than its window at the last. *)
Suffix(p, q, d) ==
  /\ Len(q) = Len(p) - d
  /\ \A i \in 1..Len(q) : q[i] = p[d + i].at
  /\ \A i \in 1..Len(p) : i <= d <=> p[Len(p)].at - p[i].at > p[Len(p)].form.window

Counted(p, q) ==
  /\ p = <<>> => q = <<>>
  /\ p # <<>> /\ OneForm(p, 1, Len(p)) /\ p[Len(p)].form.type = "SIGNATURE"
       => \E d \in 0..Len(p) : Suffix(p, q, d)

(* The times B shared at a source are backed by looks ... *)
Backed(h, source, B) ==
  /\ IsFiniteSet(RatePairs(h, source, 0))
  /\ \A i \in 1..Len(B) : Len(B) - i + 1 <= Cardinality(RatePairs(h, source, B[i]))

(* ... never more than the rate of a rule that shares them with none ... *)
Limited(h, k, B) ==
  SharesNone(h, k) =>
    /\ RateLooks(h, k, 0) = {} => B = <<>>
    /\ LET p == h[k]
           n == p[Len(p)].form.limit
       IN  p # <<>> /\ OneForm(p, 1, Len(p)) /\ p[Len(p)].form.type = "RATE_LIMIT" /\ n # None
             => Len(B) <= n

(* ... and a rule finds its last unmatched looks among them while they are in its window,
   unless they were cut by another. *)
Held(t, h, k, B, m) ==
  LET p == h[k]
      j == Len(p)
      f == p[j].form
  IN  /\ f.type = "RATE_LIMIT" /\ f.limit # None /\ OneForm(p, m, j)
      /\ \A i \in m..j : ~Matched(p[i])
      /\ t - p[m].at <= f.window
      /\ ~SharesTimes(h, k, p[m].at, f.window)
      => Len(B) >= j - m + 1 /\ B[Len(B) - (j - m)] >= p[m].at

RateInv(t, h, k, B) == Limited(h, k, B) /\ \A m \in 1..Len(h[k]) : Held(t, h, k, B, m)

Judged(h, k) == h[k] # <<>> => Alerts(h, k) /\ Explained(h[k], Len(h[k]))

DetInv(t, T, L, H) ==
  /\ Shape(t, T, L, H)
  /\ \A k \in Pairs : Quiet(H[k], L[k])
  /\ \A k \in Pairs : Counted(H[k], T[k])
  /\ \A s \in Sources : Backed(H, s, T[<<None, s>>])
  /\ \A k \in Pairs : RateInv(t, H, k, T[<<None, k[2]>>])
  /\ \A k \in Pairs : Judged(H, k)
----------------------------------------------------------------------------
(* Lemmas about a history that grows.                                      *)
LEMMA Appended ==
  ASSUME NEW S, NEW p \in Seq(S), NEW x \in S, NEW q, q = Append(p, x)
  PROVE  /\ q \in Seq(S) /\ q # <<>>
         /\ Len(q) = Len(p) + 1 /\ Len(p) \in Nat
         /\ q[Len(p) + 1] = x
         /\ \A i \in 1..Len(p) : q[i] = p[i]
         /\ DOMAIN q = 1..Len(p) + 1 /\ DOMAIN p = 1..Len(p)
OBVIOUS

LEMMA FormType ==
  ASSUME NEW x \in LookSet
  PROVE  /\ x.form.type \in RuleTypes /\ x.form.window \in Nat /\ x.form.suppression \in Nat
         /\ x.form.limit \in Nat \cup {None} /\ x.at \in Nat
         /\ x.form.limit = None => x.form.type = "RATE_LIMIT"
         /\ x.fate \in Fates
<1>1. x.form \in RuleForms /\ x.at \in Nat /\ x.fate \in Fates
  BY DEF LookSet
<1>2. x.form \in RuleForm
  BY <1>1, DetectorAssumption
<1> QED
  BY <1>1, <1>2, DetectorAssumption DEF RuleForm

(* The form of a rule that was not replaced, at its last look and the one before. *)
LEMMA FormKept ==
  ASSUME NEW p \in Seq(LookSet), NEW x \in LookSet, NEW q, q = Append(p, x),
         NEW m \in 1..Len(p), OneForm(q, m, Len(q))
  PROVE  /\ OneForm(p, m, Len(p))
         /\ p[Len(p)].form = x.form /\ q[Len(q)].form = x.form
         /\ p[m].form = x.form
<1>1. /\ Len(q) = Len(p) + 1 /\ Len(p) \in Nat
      /\ q[Len(p) + 1] = x
      /\ \A i \in 1..Len(p) : q[i] = p[i]
  BY Appended
<1>2. \A i \in m..Len(p) : i \in m..Len(q) /\ i \in 1..Len(p)
  BY <1>1
<1>3. \A i \in m..Len(p) : p[i].form = x.form
  BY <1>1, <1>2 DEF OneForm
<1>4. Len(p) \in m..Len(p) /\ m \in m..Len(p)
  BY <1>1
<1> QED
  BY <1>1, <1>3, <1>4 DEF OneForm

LEMMA QuietStep ==
  ASSUME NEW p \in Seq(LookSet), NEW x \in LookSet, NEW q, q = Append(p, x),
         NEW seen \in Nat \cup {None}, Quiet(p, seen), NEW after,
         after = (IF Matched(x) /\ x.form.suppression > 0 THEN x.at ELSE seen),
         x.fate = "silenced" =>
           x.form.suppression > 0 /\ seen # None /\ x.at - seen <= x.form.suppression
  PROVE  Quiet(q, after) /\ Explained(q, Len(q))
<1>. DEFINE n == Len(p) + 1
            f == x.form
<1>1. /\ Len(q) = n /\ Len(p) \in Nat /\ q # <<>>
      /\ q[n] = x
      /\ \A i \in 1..Len(p) : q[i] = p[i]
  BY Appended
<1>2. f.suppression \in Nat /\ x.at \in Nat /\ x.fate \in Fates
  BY FormType
<1>3. ASSUME OneForm(q, 1, n), p # <<>>
      PROVE  OneForm(p, 1, Len(p)) /\ p[Len(p)].form = f
  <2>1. 1 \in 1..Len(p) /\ OneForm(q, 1, Len(q))
    BY <1>1, <1>3
  <2> QED
    BY <2>1, FormKept
<1>4. ASSUME OneForm(q, 1, n), f.suppression > 0
      PROVE  \/ after = None /\ \A m \in 1..n : ~Matched(q[m])
             \/ \E m \in 1..n : LastMatch(q, m) /\ after = q[m].at
  <2>1. CASE Matched(x)
    <3>1. after = x.at /\ n \in 1..n /\ LastMatch(q, n)
      BY <2>1, <1>1, <1>4 DEF LastMatch
    <3> QED
      BY <3>1, <1>1
  <2>2. CASE ~Matched(x)
    <3>1. after = seen
      BY <2>2
    <3>2. CASE p = <<>>
      <4>1. n = 1 /\ seen = None
        BY <3>2 DEF Quiet
      <4> QED
        BY <4>1, <3>1, <2>2, <1>1
    <3>3. CASE p # <<>>
      <4>1. \/ seen = None /\ \A m \in 1..Len(p) : ~Matched(p[m])
            \/ \E m \in 1..Len(p) : LastMatch(p, m) /\ seen = p[m].at
        BY <3>3, <1>3, <1>4 DEF Quiet
      <4>2. CASE seen = None /\ \A m \in 1..Len(p) : ~Matched(p[m])
        <5>1. \A m \in 1..n : m = n \/ m \in 1..Len(p)
          BY <1>1
        <5> QED
          BY <5>1, <4>2, <3>1, <2>2, <1>1
      <4>3. ASSUME NEW m \in 1..Len(p), LastMatch(p, m), seen = p[m].at
            PROVE  m \in 1..n /\ LastMatch(q, m) /\ after = q[m].at
        <5>1. \A l \in m + 1..n : l = n \/ (l \in m + 1..Len(p) /\ l \in 1..Len(p))
          BY <1>1
        <5> QED
          BY <5>1, <4>3, <3>1, <2>2, <1>1 DEF LastMatch
      <4> QED
        BY <4>1, <4>2, <4>3
    <3> QED
      BY <3>2, <3>3
  <2> QED
    BY <2>1, <2>2
(* The chain goes on. *)
<1>5. ASSUME OneForm(q, 1, n), NEW i \in 1..Len(p), Chain(p, i, f.suppression),
             \/ ~Matched(x)
             \/ \E m \in i..Len(p) : Matched(p[m]) /\ x.at - p[m].at <= f.suppression
      PROVE  Chain(q, i, f.suppression)
  <2>1. SUFFICES ASSUME NEW l \in i + 1..n, Matched(q[l])
                 PROVE  \E m \in i..l - 1 : Matched(q[m]) /\ q[l].at - q[m].at <= f.suppression
    BY <1>1 DEF Chain
  <2>2. CASE l = n
    <3>1. PICK m \in i..Len(p) : Matched(p[m]) /\ x.at - p[m].at <= f.suppression
      BY <2>1, <2>2, <1>1, <1>5
    <3>2. m \in i..l - 1 /\ m \in 1..Len(p)
      BY <2>2, <1>1
    <3> QED
      BY <3>1, <3>2, <2>2, <1>1
  <2>3. CASE l # n
    <3>1. l \in i + 1..Len(p) /\ l \in 1..Len(p) /\ \A m \in i..l - 1 : m \in 1..Len(p)
      BY <2>3, <1>1
    <3>2. Matched(p[l]) /\ q[l] = p[l]
      BY <3>1, <2>1, <1>1
    <3>3. PICK m \in i..l - 1 : Matched(p[m]) /\ p[l].at - p[m].at <= f.suppression
      BY <3>1, <3>2, <1>5 DEF Chain
    <3> QED
      BY <3>1, <3>2, <3>3, <1>1
  <2> QED
    BY <2>2, <2>3
(* A match that is silenced comes after one that is still remembered. *)
<1>6. ASSUME OneForm(q, 1, n), x.fate = "silenced"
      PROVE  \E i \in 1..Len(p) : p[i].fate \in {"stored", "missed"} /\ Chain(q, i, f.suppression)
  <2>1. p # <<>> /\ f.suppression > 0 /\ seen # None /\ x.at - seen <= f.suppression
    BY <1>6 DEF Quiet
  <2>2. OneForm(p, 1, Len(p)) /\ p[Len(p)].form = f
    BY <2>1, <1>3, <1>6
  <2>3. PICK m \in 1..Len(p) : LastMatch(p, m) /\ seen = p[m].at
    BY <2>1, <2>2 DEF Quiet
  <2>4. PICK i \in 1..Len(p) : p[i].fate \in {"stored", "missed"} /\ Chain(p, i, f.suppression)
    BY <2>1, <2>2, <2>3 DEF Quiet, LastMatch
  <2>5. i <= m
    <3>1. Matched(p[i])
      BY <2>4 DEF Matched
    <3>2. ~(i \in m + 1..Len(p))
      BY <3>1, <2>3 DEF LastMatch
    <3> QED
      BY <3>2, <1>1
  <2>6. m \in i..Len(p) /\ Matched(p[m]) /\ x.at - p[m].at <= f.suppression
    BY <2>1, <2>3, <2>5 DEF LastMatch
  <2> QED
    BY <2>4, <2>6, <1>5, <1>6
<1>7. ASSUME OneForm(q, 1, n)
      PROVE  \/ \A m \in 1..n : ~Matched(q[m])
             \/ \E i \in 1..n : /\ q[i].fate \in {"stored", "missed"}
                                /\ Chain(q, i, f.suppression)
  <2>1. CASE x.fate = "silenced"
    <3>1. PICK i \in 1..Len(p) : p[i].fate \in {"stored", "missed"} /\ Chain(q, i, f.suppression)
      BY <2>1, <1>6, <1>7
    <3>2. i \in 1..n /\ q[i] = p[i]
      BY <1>1
    <3> QED
      BY <3>1, <3>2
  <2>2. CASE x.fate \in {"stored", "missed"}
    <3>1. Chain(q, n, f.suppression)
      BY <1>1 DEF Chain
    <3>2. n \in 1..n
      BY <1>1
    <3> QED
      BY <3>1, <3>2, <2>2, <1>1
  <2>3. CASE x.fate = "none"
    <3>1. ~Matched(x)
      BY <2>3 DEF Matched
    <3>2. \A m \in 1..n : m = n \/ m \in 1..Len(p)
      BY <1>1
    <3>3. CASE \A m \in 1..Len(p) : ~Matched(p[m])
      BY <3>1, <3>2, <3>3, <1>1
    <3>4. CASE \E m \in 1..Len(p) : Matched(p[m])
      <4>1. p # <<>>
        BY <3>4
      <4>2. OneForm(p, 1, Len(p)) /\ p[Len(p)].form = f
        BY <4>1, <1>3, <1>7
      <4>3. PICK i \in 1..Len(p) : p[i].fate \in {"stored", "missed"} /\ Chain(p, i, f.suppression)
        BY <4>1, <4>2, <3>4 DEF Quiet
      <4>4. Chain(q, i, f.suppression) /\ i \in 1..n /\ q[i] = p[i]
        BY <4>3, <3>1, <1>1, <1>5, <1>7
      <4> QED
        BY <4>3, <4>4
    <3> QED
      BY <3>3, <3>4
  <2> QED
    BY <2>1, <2>2, <2>3, <1>2 DEF Fates
<1>8. Quiet(q, after)
  BY <1>1, <1>4, <1>7 DEF Quiet
<1>9. Explained(q, Len(q))
  <2>1. SUFFICES ASSUME x.fate = "silenced", OneForm(q, 1, n)
                 PROVE  \E i \in 1..n - 1 : /\ q[i].fate \in {"stored", "missed"}
                                            /\ Chain(q, i, f.suppression)
    BY <1>1 DEF Explained
  <2>2. PICK i \in 1..Len(p) : p[i].fate \in {"stored", "missed"} /\ Chain(q, i, f.suppression)
    BY <2>1, <1>6
  <2>3. i \in 1..n - 1 /\ q[i] = p[i]
    BY <1>1
  <2> QED
    BY <2>2, <2>3
<1> QED
  BY <1>8, <1>9
----------------------------------------------------------------------------
(* Times that are too old are the first ones.                              *)
Cut(q, kept, c, w) ==
  /\ c \in 0..Len(q)
  /\ Ascending(kept, now)
  /\ Len(kept) = Len(q) - c
  /\ \A i \in 1..Len(kept) : kept[i] = q[c + i]
  /\ \A i \in 1..Len(q) : i <= c <=> now - q[i] > w

LEMMA Pruned ==
  ASSUME now \in Nat, NEW q, Ascending(q, now), NEW w \in Nat,
         NEW kept, kept = PruneWindow(q, w)
  PROVE  \E c : Cut(q, kept, c, w)
<1>. DEFINE old == {i \in DOMAIN q : now - q[i] > w}
            young == 1..Len(q) \ old
<1>1. /\ q \in Seq(Nat) /\ Len(q) \in Nat /\ DOMAIN q = 1..Len(q)
      /\ \A i \in 1..Len(q) : q[i] \in Nat /\ q[i] <= now
      /\ \A i, j \in 1..Len(q) : i <= j => q[i] <= q[j]
  BY DEF Ascending
<1>2. \E c \in 0..Len(q) : old = 1..c
  <2>1. CASE young = {}
    <3>1. old = 1..Len(q) /\ Len(q) \in 0..Len(q)
      BY <2>1, <1>1
    <3> QED
      BY <3>1
  <2>2. CASE young # {}
    <3>1. PICK m \in young : \A i \in young : m <= i
      <4>. young \subseteq Nat
        BY <1>1
      <4>. HIDE DEF young
      <4> QED
        BY <2>2, LeastElement
    <3>2. m \in 1..Len(q) /\ now - q[m] <= w
      BY <3>1, <1>1
    <3>3. \A i \in old : i < m
      <4>1. SUFFICES ASSUME NEW i \in old, m <= i
                     PROVE  FALSE
        BY <3>2, <1>1
      <4>2. i \in 1..Len(q) /\ now - q[i] > w /\ q[m] <= q[i]
        BY <4>1, <3>2, <1>1
      <4> QED
        BY <4>2, <3>2, <1>1
    <3>4. old = 1..m - 1
      BY <3>1, <3>2, <3>3, <1>1
    <3>5. m - 1 \in 0..Len(q)
      BY <3>2, <1>1
    <3> QED
      BY <3>4, <3>5
  <2> QED
    BY <2>1, <2>2
<1>3. PICK c \in 0..Len(q) : old = 1..c
  BY <1>2
<1>4. Cardinality(old) = c
  <2>1. Cardinality(1..c) = c
    BY <1>1, FS_Interval
  <2> QED
    BY <2>1, <1>3
<1>5. kept = SubSeq(q, c + 1, Len(q))
  BY <1>4 DEF PruneWindow
<1>6. \A i \in 1..Len(q) : i <= c <=> now - q[i] > w
  BY <1>1, <1>3
<1>7. /\ kept \in Seq(Nat) /\ Len(kept) = Len(q) - c
      /\ \A i \in 1..Len(kept) : kept[i] = q[c + i]
  <2>1. c + 1 \in Int /\ Len(q) \in Int /\ \A i \in c + 1..Len(q) : q[i] \in Nat
    BY <1>1
  <2>2. /\ kept \in Seq(Nat)
        /\ Len(kept) = IF c + 1 <= Len(q) THEN Len(q) - (c + 1) + 1 ELSE 0
        /\ \A i \in 1..Len(q) - (c + 1) + 1 : kept[i] = q[c + 1 + i - 1]
    BY <2>1, <1>5, SubSeqProperties
  <2>3. Len(kept) = Len(q) - c
    <3>1. Len(q) \in Nat /\ c \in 0..Len(q)
      BY <1>1, <1>3
    <3>2. Len(kept) = IF c + 1 <= Len(q) THEN Len(q) - (c + 1) + 1 ELSE 0
      BY <2>2
    <3> QED
      BY <3>1, <3>2
  <2>4. \A i \in 1..Len(kept) : i \in 1..Len(q) - (c + 1) + 1 /\ c + 1 + i - 1 = c + i
    BY <2>3, <1>1
  <2> QED
    BY <2>2, <2>3, <2>4
<1>8. \A i \in 1..Len(kept) : kept[i] = q[c + i]
  BY <1>7
<1>9. Ascending(kept, now)
  <2>1. \A i \in 1..Len(kept) : c + i \in 1..Len(q)
    BY <1>1, <1>7
  <2>2. \A i \in 1..Len(kept) : kept[i] <= now
    BY <2>1, <1>1, <1>8
  <2>3. ASSUME NEW i \in 1..Len(kept), NEW j \in 1..Len(kept), i <= j
        PROVE  kept[i] <= kept[j]
    <3>1. c + i <= c + j
      BY <2>3, <1>7
    <3> QED
      BY <3>1, <2>1, <1>1, <1>8
  <2> QED
    BY <2>2, <2>3, <1>7 DEF Ascending
<1>10. Cut(q, kept, c, w)
  BY <1>3, <1>6, <1>7, <1>8, <1>9 DEF Cut
<1> QED
  BY <1>10

Longer(q, r, t) ==
  /\ Ascending(r, t) /\ Len(r) = Len(q) + 1 /\ r[Len(q) + 1] = t
  /\ \A i \in 1..Len(q) : r[i] = q[i]

LEMMA TimeAdded ==
  ASSUME NEW q, NEW t \in Nat, Ascending(q, t), NEW r, r = Append(q, t)
  PROVE  Longer(q, r, t)
<1>1. /\ q \in Seq(Nat) /\ Len(q) \in Nat
      /\ \A i \in 1..Len(q) : q[i] \in Nat /\ q[i] <= t
      /\ \A i, j \in 1..Len(q) : i <= j => q[i] <= q[j]
  BY DEF Ascending
<1>2. /\ r \in Seq(Nat) /\ Len(r) = Len(q) + 1 /\ r[Len(q) + 1] = t
      /\ \A i \in 1..Len(q) : r[i] = q[i]
  BY <1>1, Appended
<1>3. \A i \in 1..Len(r) : i = Len(q) + 1 \/ i \in 1..Len(q)
  BY <1>1, <1>2
<1>4. \A i \in 1..Len(r) : r[i] <= t
  BY <1>1, <1>2, <1>3
<1>5. \A i, j \in 1..Len(r) : i <= j => r[i] <= r[j]
  BY <1>1, <1>2, <1>3
<1> QED
  BY <1>2, <1>4, <1>5 DEF Ascending, Longer

(* A look x of a SIGNATURE rule: p and its times become q and after. *)
CountedLook(p, x, q, times, after) ==
  /\ now \in Nat /\ Aging(p, now) /\ Ascending(times, now) /\ Counted(p, times)
  /\ x \in LookSet /\ x.at = now /\ x.form.type = "SIGNATURE"
  /\ q = Append(p, x)
  /\ after = Append(PruneWindow(times, x.form.window), now)
  /\ Matched(x) <=> Len(after) >= x.form.limit

LEMMA CountedStep ==
  ASSUME NEW p, NEW x, NEW q, NEW times, NEW after, CountedLook(p, x, q, times, after)
  PROVE  Counted(q, after) /\ ThresholdMatches(q, Len(q))
<1>. DEFINE n == Len(p) + 1
            w == x.form.window
            kept == PruneWindow(times, w)
<1>0. /\ now \in Nat /\ Aging(p, now) /\ Ascending(times, now) /\ Counted(p, times)
      /\ x \in LookSet /\ x.at = now /\ x.form.type = "SIGNATURE"
      /\ q = Append(p, x)
      /\ after = Append(kept, now)
      /\ Matched(x) <=> Len(after) >= x.form.limit
  BY DEF CountedLook
<1>1. /\ p \in Seq(LookSet) /\ q \in Seq(LookSet)
      /\ Len(q) = n /\ Len(p) \in Nat /\ q # <<>>
      /\ q[n] = x
      /\ \A i \in 1..Len(p) : q[i] = p[i]
  BY <1>0, Appended DEF Aging
<1>2. w \in Nat /\ x.form.limit \in Nat /\ x.at \in Nat
  BY <1>0, FormType
<1>3. /\ \A i \in 1..Len(p) : p[i].at \in Nat /\ p[i].at <= now
      /\ \A i, j \in 1..Len(p) : i <= j => p[i].at <= p[j].at
  BY <1>0, FormType, <1>1 DEF Aging
<1>. HIDE DEF kept
<1>4. PICK c \in 0..Len(times) :
        /\ Ascending(kept, now)
        /\ Len(kept) = Len(times) - c
        /\ \A i \in 1..Len(kept) : kept[i] = times[c + i]
        /\ \A i \in 1..Len(times) : i <= c <=> now - times[i] > w
  <2>1. kept = PruneWindow(times, w) /\ w \in Nat
    BY <1>2 DEF kept
  <2>2. now \in Nat /\ Ascending(times, now)
    BY <1>0
  <2>. HIDE DEF w
  <2>3. PICK c : Cut(times, kept, c, w)
    BY <2>1, <2>2, Pruned
  <2> QED
    BY <2>3 DEF Cut
<1>5. /\ Len(after) = Len(kept) + 1 /\ after[Len(kept) + 1] = now
      /\ \A i \in 1..Len(kept) : after[i] = kept[i]
      /\ Len(kept) \in Nat /\ Len(times) \in Nat
  <2>1. after = Append(kept, now) /\ Len(kept) \in Nat /\ Len(times) \in Nat
    BY <1>0, <1>4 DEF Ascending
  <2>2. Longer(kept, after, now)
    BY <2>1, <1>0, <1>4, TimeAdded
  <2> QED
    BY <2>1, <2>2 DEF Longer
<1>6. SUFFICES ASSUME OneForm(q, 1, n)
               PROVE  /\ \E d \in 0..n : Suffix(q, after, d)
                      /\ Matched(x) <=> Cardinality(InWindow(q, n)) >= x.form.limit
  BY <1>0, <1>1 DEF Counted, ThresholdMatches
<1>7. \E d \in 0..Len(p) : /\ Len(times) = Len(p) - d
                           /\ \A i \in 1..Len(times) : times[i] = p[d + i].at
                           /\ \A i \in 1..d : now - p[i].at > w
  <2>1. CASE p = <<>>
    <3>1. times = <<>> /\ Len(p) = 0
      BY <1>0, <2>1 DEF Counted
    <3>2. Len(times) = 0 /\ 0 \in 0..Len(p) /\ 0 = Len(p) - 0
      BY <3>1
    <3>3. (\A i \in 1..0 : times[i] = p[0 + i].at) /\ \A i \in 1..0 : now - p[i].at > w
      OBVIOUS
    <3> QED
      BY <3>2, <3>3
  <2>2. CASE p # <<>>
    <3>1. 1 \in 1..Len(p) /\ Len(p) \in 1..Len(p) /\ OneForm(q, 1, Len(q))
      BY <2>2, <1>1, <1>6
    <3>2. OneForm(p, 1, Len(p)) /\ p[Len(p)].form = x.form
      BY <3>1, <1>0, <1>1, FormKept
    <3>3. PICK d \in 0..Len(p) : Suffix(p, times, d)
      BY <1>0, <2>2, <3>2 DEF Counted
    <3>4. \A i \in 1..d : now - p[i].at > w
      <4>1. SUFFICES ASSUME NEW i \in 1..d
                     PROVE  now - p[i].at > w
        OBVIOUS
      <4>2. i \in 1..Len(p) /\ p[Len(p)].at - p[i].at > w
        BY <3>2, <3>3, <1>1 DEF Suffix
      <4> QED
        BY <4>2, <3>1, <1>0, <1>2, <1>3
    <3> QED
      BY <3>3, <3>4 DEF Suffix
  <2> QED
    BY <2>1, <2>2
<1>8. PICK d \in 0..Len(p) : /\ Len(times) = Len(p) - d
                             /\ \A i \in 1..Len(times) : times[i] = p[d + i].at
                             /\ \A i \in 1..d : now - p[i].at > w
  BY <1>7
<1>. DEFINE e == d + c
<1>9. e \in 0..Len(p) /\ e \in 0..n /\ Len(after) = n - e
  BY <1>1, <1>4, <1>5, <1>8
<1>10. \A i \in 1..n : i <= e <=> now - q[i].at > w
  <2>1. SUFFICES ASSUME NEW i \in 1..n
                 PROVE  i <= e <=> now - q[i].at > w
    OBVIOUS
  <2>2. CASE i \in 1..d
    BY <2>2, <1>0, <1>1, <1>4, <1>5, <1>8
  <2>3. CASE i \in d + 1..Len(p)
    <3>1. i - d \in 1..Len(times) /\ d + (i - d) = i /\ i \in 1..Len(p)
      BY <2>3, <1>1, <1>8
    <3>2. times[i - d] = p[i].at /\ q[i] = p[i]
      BY <3>1, <1>1, <1>8
    <3>3. i - d <= c <=> now - p[i].at > w
      BY <3>1, <3>2, <1>4
    <3>4. i - d <= c <=> i <= e
      BY <1>4, <1>5, <1>8
    <3> QED
      BY <3>2, <3>3, <3>4
  <2>4. CASE i = n
    BY <2>4, <1>0, <1>1, <1>2, <1>9
  <2> QED
    BY <2>2, <2>3, <2>4, <1>1, <1>8
<1>11. \A i \in 1..Len(after) : after[i] = q[e + i].at
  <2>1. SUFFICES ASSUME NEW i \in 1..Len(after)
                 PROVE  after[i] = q[e + i].at
    OBVIOUS
  <2>2. CASE i = Len(kept) + 1
    <3>1. e + i = n
      BY <2>2, <1>0, <1>1, <1>4, <1>5, <1>8
    <3> QED
      BY <3>1, <2>2, <1>0, <1>1, <1>5
  <2>3. CASE i \in 1..Len(kept)
    <3>1. c + i \in 1..Len(times) /\ d + (c + i) = e + i /\ e + i \in 1..Len(p)
      BY <2>3, <1>1, <1>4, <1>5, <1>8
    <3>2. after[i] = times[c + i] /\ times[c + i] = p[e + i].at /\ q[e + i] = p[e + i]
      BY <3>1, <2>3, <1>1, <1>4, <1>5, <1>8
    <3> QED
      BY <3>2
  <2>4. i = Len(kept) + 1 \/ i \in 1..Len(kept)
    BY <1>5
  <2> QED
    BY <2>2, <2>3, <2>4
<1>. HIDE DEF e
<1>12. Suffix(q, after, e)
  BY <1>0, <1>1, <1>9, <1>10, <1>11 DEF Suffix
<1>13. InWindow(q, n) = e + 1..n
  <2>1. \A i \in 1..n : q[i].at \in Nat
    BY <1>1, FormType
  <2>2. ASSUME NEW i \in 1..n
        PROVE  q[n].at - q[i].at <= q[n].form.window <=> ~(i <= e)
    <3>1. q[n].at = now /\ q[n].form.window = w /\ q[i].at \in Nat
      BY <1>0, <2>1, <1>1
    <3>2. now - q[i].at <= w <=> ~(now - q[i].at > w)
      BY <3>1, <1>0, <1>2
    <3> QED
      BY <3>1, <3>2, <1>10
  <2> QED
    BY <2>2, <1>1, <1>9 DEF InWindow
<1>14. Cardinality(InWindow(q, n)) = Len(after)
  <2>1. e + 1 \in Int /\ n \in Int
    BY <1>1, <1>9
  <2>2. Cardinality(e + 1..n) = IF e + 1 > n THEN 0 ELSE n - (e + 1) + 1
    BY <2>1, FS_Interval
  <2> QED
    BY <2>2, <1>1, <1>9, <1>13
<1> QED
  BY <1>0, <1>9, <1>12, <1>14
----------------------------------------------------------------------------
(* What one more look adds to the looks of RATE_LIMIT rules.               *)
History(h) == h \in [Pairs -> Seq(LookSet)]
Grown(h, g, r, s, x) == g = [h EXCEPT ![<<r, s>>] = Append(h[<<r, s>>], x)]
IsRate(x) == x.form.type = "RATE_LIMIT"

LookAdded(h, g, r, s, x) ==
  /\ g[<<r, s>>] = Append(h[<<r, s>>], x)
  /\ h[<<r, s>>] \in Seq(LookSet) /\ <<r, s>> \in Pairs
  /\ \A k \in Pairs : k # <<r, s>> => g[k] = h[k]

LEMMA HistoryGrown ==
  ASSUME NEW h, NEW g, History(h), NEW r \in RuleIds, NEW s \in Sources, NEW x \in LookSet,
         Grown(h, g, r, s, x)
  PROVE  History(g) /\ LookAdded(h, g, r, s, x)
<1>1. <<r, s>> \in Pairs /\ h \in [Pairs -> Seq(LookSet)]
  BY DEF Pairs, History
<1>2. h[<<r, s>>] \in Seq(LookSet)
  BY <1>1
<1>3. Append(h[<<r, s>>], x) \in Seq(LookSet)
  BY <1>2, Appended
<1>4. g = [k \in Pairs |-> IF k = <<r, s>> THEN Append(h[<<r, s>>], x) ELSE h[k]]
  BY <1>1 DEF Grown
<1>5. \A k \in Pairs : h[k] \in Seq(LookSet)
  BY <1>1
<1> QED
  BY <1>1, <1>2, <1>3, <1>4, <1>5, Zenon DEF History, LookAdded

RateLooksAdded(h, g, r, s, x, k, from) ==
  /\ RateLooks(h, k, from) \subseteq RateLooks(g, k, from)
  /\ \A i \in RateLooks(h, k, from) : g[k][i] = h[k][i]
  /\ k = <<r, s>> /\ IsRate(x) /\ x.at >= from =>
       /\ Len(h[k]) + 1 \notin RateLooks(h, k, from)
       /\ g[k][Len(h[k]) + 1] = x
       /\ RateLooks(g, k, from) = RateLooks(h, k, from) \cup {Len(h[k]) + 1}
  /\ ~(k = <<r, s>> /\ IsRate(x)) => RateLooks(g, k, from) = RateLooks(h, k, from)

LEMMA RateLooksGrown ==
  ASSUME NEW h, NEW g, History(h), NEW r \in RuleIds, NEW s \in Sources, NEW x \in LookSet,
         Grown(h, g, r, s, x), NEW k \in Pairs, NEW from \in Nat
  PROVE  RateLooksAdded(h, g, r, s, x, k, from)
<1>1. /\ g[<<r, s>>] = Append(h[<<r, s>>], x) /\ h[k] \in Seq(LookSet)
      /\ k # <<r, s>> => g[k] = h[k]
  <2>1. h[k] \in Seq(LookSet)
    BY DEF History
  <2>2. LookAdded(h, g, r, s, x)
    BY HistoryGrown
  <2> QED
    BY <2>1, <2>2 DEF LookAdded
<1>2. CASE k # <<r, s>>
  BY <1>1, <1>2 DEF RateLooks, RateLooksAdded
<1>3. CASE k = <<r, s>>
  <2>1. g[k] = Append(h[k], x)
    BY <1>1, <1>3
  <2>2. /\ g[k][Len(h[k]) + 1] = x
        /\ \A i \in 1..Len(h[k]) : g[k][i] = h[k][i]
        /\ DOMAIN g[k] = 1..Len(h[k]) + 1 /\ DOMAIN h[k] = 1..Len(h[k])
        /\ Len(h[k]) \in Nat
    BY <1>1, <2>1, Appended
  <2>3. RateLooks(h, k, from) \subseteq 1..Len(h[k])
    BY <2>2 DEF RateLooks
  <2>4. Len(h[k]) + 1 \notin RateLooks(h, k, from)
    BY <2>2, <2>3
  <2>5. \A i \in 1..Len(h[k]) : i \in RateLooks(g, k, from) <=> i \in RateLooks(h, k, from)
    BY <2>2 DEF RateLooks
  <2>6. Len(h[k]) + 1 \in RateLooks(g, k, from) <=> IsRate(x) /\ x.at >= from
    BY <2>2 DEF RateLooks, IsRate
  <2>7. RateLooks(g, k, from) \subseteq 1..Len(h[k]) \cup {Len(h[k]) + 1}
    BY <2>2 DEF RateLooks
  <2> QED
    BY <1>3, <2>2, <2>3, <2>4, <2>5, <2>6, <2>7 DEF RateLooksAdded
<1> QED
  BY <1>2, <1>3

SharingAdded(h, g, r, s, x, k) ==
  /\ \A from \in Nat : \A w : SharesTimes(h, k, from, w) => SharesTimes(g, k, from, w)
  /\ SharesNone(g, k) => SharesNone(h, k)
  /\ IsRate(x) /\ k[2] = s /\ k[1] # r =>
       /\ ~SharesNone(g, k)
       /\ \A from \in Nat : \A w :
            x.at >= from /\ x.form.window < w => SharesTimes(g, k, from, w)

LEMMA SharingGrown ==
  ASSUME NEW h, NEW g, History(h), NEW r \in RuleIds, NEW s \in Sources, NEW x \in LookSet,
         Grown(h, g, r, s, x), NEW k \in Pairs
  PROVE  SharingAdded(h, g, r, s, x, k)
<1>1. k[1] \in RuleIds /\ k[2] \in Sources /\ k = <<k[1], k[2]>>
  BY DEF Pairs
<1>2. ASSUME NEW id \in RuleIds, NEW from \in Nat
      PROVE  /\ RateLooks(h, <<id, k[2]>>, from) \subseteq RateLooks(g, <<id, k[2]>>, from)
             /\ \A i \in RateLooks(h, <<id, k[2]>>, from) :
                  g[<<id, k[2]>>][i] = h[<<id, k[2]>>][i]
  <2>1. <<id, k[2]>> \in Pairs
    BY <1>1 DEF Pairs
  <2>2. RateLooksAdded(h, g, r, s, x, <<id, k[2]>>, from)
    BY <2>1, RateLooksGrown
  <2> QED
    BY <2>2 DEF RateLooksAdded
<1>3. ASSUME NEW from \in Nat, NEW w, SharesTimes(h, k, from, w)
      PROVE  SharesTimes(g, k, from, w)
  <2>1. PICK id \in RuleIds \ {k[1]} : \E i \in RateLooks(h, <<id, k[2]>>, from) :
                                         h[<<id, k[2]>>][i].form.window < w
    BY <1>3 DEF SharesTimes
  <2>2. PICK i \in RateLooks(h, <<id, k[2]>>, from) : h[<<id, k[2]>>][i].form.window < w
    BY <2>1
  <2>3. id \in RuleIds
    BY <2>1
  <2>4. i \in RateLooks(g, <<id, k[2]>>, from) /\ g[<<id, k[2]>>][i] = h[<<id, k[2]>>][i]
    BY <1>2, <2>2, <2>3
  <2> QED
    BY <2>1, <2>2, <2>4 DEF SharesTimes
<1>4. SharesNone(g, k) => SharesNone(h, k)
  <2>1. 0 \in Nat
    OBVIOUS
  <2> QED
    BY <1>2, <2>1 DEF SharesNone
<1>5. ASSUME IsRate(x), k[2] = s, k[1] # r, NEW from \in Nat, x.at >= from
      PROVE  \E i \in RateLooks(g, <<r, k[2]>>, from) : g[<<r, k[2]>>][i] = x
  <2>1. <<r, k[2]>> = <<r, s>> /\ <<r, k[2]>> \in Pairs
    BY <1>5 DEF Pairs
  <2>2. RateLooksAdded(h, g, r, s, x, <<r, k[2]>>, from)
    BY <2>1, RateLooksGrown
  <2> QED
    BY <2>1, <2>2, <1>5 DEF RateLooksAdded
<1>6. ASSUME IsRate(x), k[2] = s, k[1] # r
      PROVE  /\ ~SharesNone(g, k)
             /\ \A from \in Nat : \A w :
                  x.at >= from /\ x.form.window < w => SharesTimes(g, k, from, w)
  <2>1. r \in RuleIds \ {k[1]} /\ x.at \in Nat /\ x.at >= 0 /\ 0 \in Nat
    BY <1>6, FormType
  <2>2. \E i \in RateLooks(g, <<r, k[2]>>, 0) : g[<<r, k[2]>>][i] = x
    BY <2>1, <1>5, <1>6
  <2>3. ~SharesNone(g, k)
    BY <2>1, <2>2 DEF SharesNone
  <2>4. ASSUME NEW from \in Nat, NEW w, x.at >= from, x.form.window < w
        PROVE  SharesTimes(g, k, from, w)
    <3>1. \E i \in RateLooks(g, <<r, k[2]>>, from) : g[<<r, k[2]>>][i] = x
      BY <1>5, <1>6, <2>4
    <3> QED
      BY <3>1, <2>1, <2>4 DEF SharesTimes
  <2> QED
    BY <2>3, <2>4
<1> QED
  BY <1>3, <1>4, <1>6 DEF SharingAdded

RatePairsAre(h, source, from) ==
  /\ \A pair \in RatePairs(h, source, from) :
       \E id \in RuleIds : \E i \in RateLooks(h, <<id, source>>, from) : pair = <<id, i>>
  /\ \A id \in RuleIds : \A i \in RateLooks(h, <<id, source>>, from) :
       <<id, i>> \in RatePairs(h, source, from)

LEMMA PairsMembers ==
  ASSUME NEW h, NEW source, NEW from
  PROVE  RatePairsAre(h, source, from)
<1>1. ASSUME NEW pair \in RatePairs(h, source, from)
      PROVE  \E id \in RuleIds : \E i \in RateLooks(h, <<id, source>>, from) : pair = <<id, i>>
  <2>1. PICK id \in RuleIds : pair \in {id} \X RateLooks(h, <<id, source>>, from)
    BY DEF RatePairs
  <2>2. \E i \in RateLooks(h, <<id, source>>, from) : pair = <<id, i>>
    BY <2>1
  <2> QED
    BY <2>1, <2>2
<1>2. ASSUME NEW id \in RuleIds, NEW i \in RateLooks(h, <<id, source>>, from)
      PROVE  <<id, i>> \in RatePairs(h, source, from)
  <2>1. <<id, i>> \in {id} \X RateLooks(h, <<id, source>>, from)
    OBVIOUS
  <2> QED
    BY <2>1 DEF RatePairs
<1> QED
  BY <1>1, <1>2 DEF RatePairsAre

LEMMA RatePairsSince ==
  ASSUME NEW h, History(h), NEW source \in Sources, NEW from \in Nat, NEW later \in Nat,
         from <= later
  PROVE  RatePairs(h, source, later) \subseteq RatePairs(h, source, from)
<1>1. ASSUME NEW id \in RuleIds
      PROVE  RateLooks(h, <<id, source>>, later) \subseteq RateLooks(h, <<id, source>>, from)
  <2>1. h[<<id, source>>] \in Seq(LookSet)
    BY DEF History, Pairs
  <2>2. \A i \in DOMAIN h[<<id, source>>] : h[<<id, source>>][i] \in LookSet
    BY <2>1
  <2>3. \A i \in DOMAIN h[<<id, source>>] : h[<<id, source>>][i].at \in Nat
    BY <2>2 DEF LookSet
  <2>4. \A i \in DOMAIN h[<<id, source>>] :
          h[<<id, source>>][i].at >= later => h[<<id, source>>][i].at >= from
    BY <2>3
  <2> QED
    BY <2>4 DEF RateLooks
<1>2. RatePairsAre(h, source, later) /\ RatePairsAre(h, source, from)
  BY PairsMembers
<1>3. SUFFICES ASSUME NEW pair \in RatePairs(h, source, later)
               PROVE  pair \in RatePairs(h, source, from)
  OBVIOUS
<1>4. PICK id \in RuleIds : \E i \in RateLooks(h, <<id, source>>, later) : pair = <<id, i>>
  BY <1>2 DEF RatePairsAre
<1>5. PICK i \in RateLooks(h, <<id, source>>, later) : pair = <<id, i>>
  BY <1>4
<1>6. i \in RateLooks(h, <<id, source>>, from)
  BY <1>1, <1>4, <1>5
<1> QED
  BY <1>2, <1>4, <1>5, <1>6 DEF RatePairsAre

RatePairsAdded(h, g, s, x, source) ==
  /\ IsFiniteSet(RatePairs(g, source, 0))
  /\ \A from \in Nat :
       /\ Cardinality(RatePairs(h, source, from)) \in Nat
       /\ Cardinality(RatePairs(g, source, from)) \in Nat
       /\ Cardinality(RatePairs(h, source, from)) <= Cardinality(RatePairs(g, source, from))
       /\ source = s /\ IsRate(x) /\ x.at >= from =>
            Cardinality(RatePairs(g, source, from)) = Cardinality(RatePairs(h, source, from)) + 1

LEMMA RatePairsGrown ==
  ASSUME NEW h, NEW g, History(h), NEW r \in RuleIds, NEW s \in Sources, NEW x \in LookSet,
         Grown(h, g, r, s, x), NEW source \in Sources, IsFiniteSet(RatePairs(h, source, 0))
  PROVE  RatePairsAdded(h, g, s, x, source)
<1>. DEFINE new == <<r, Len(h[<<r, s>>]) + 1>>
<1>1. ASSUME NEW from \in Nat
      PROVE  /\ RatePairs(h, source, from) \subseteq RatePairs(g, source, from)
             /\ RatePairs(g, source, from) \subseteq RatePairs(h, source, from) \cup {new}
             /\ source = s /\ IsRate(x) /\ x.at >= from =>
                  /\ new \notin RatePairs(h, source, from)
                  /\ RatePairs(g, source, from) = RatePairs(h, source, from) \cup {new}
  <2>1. ASSUME NEW id \in RuleIds, NEW k, k = <<id, source>>
        PROVE  /\ RateLooks(h, k, from) \subseteq RateLooks(g, k, from)
               /\ k = <<r, s>> /\ IsRate(x) /\ x.at >= from =>
                    /\ Len(h[k]) + 1 \notin RateLooks(h, k, from)
                    /\ RateLooks(g, k, from) = RateLooks(h, k, from) \cup {Len(h[k]) + 1}
               /\ k # <<r, s>> => RateLooks(g, k, from) = RateLooks(h, k, from)
               /\ RateLooks(g, k, from) \subseteq RateLooks(h, k, from) \cup {Len(h[k]) + 1}
    <3>1. k \in Pairs
      BY <2>1 DEF Pairs
    <3>2. RateLooksAdded(h, g, r, s, x, k, from)
      BY <3>1, RateLooksGrown
    <3>3. ASSUME k = <<r, s>>
          PROVE  RateLooks(g, k, from) \subseteq RateLooks(h, k, from) \cup {Len(h[k]) + 1}
      <4>0. LookAdded(h, g, r, s, x)
        BY HistoryGrown
      <4>1. h[k] \in Seq(LookSet) /\ g[k] = Append(h[k], x)
        BY <3>3, <4>0 DEF LookAdded
      <4>2. /\ \A i \in 1..Len(h[k]) : g[k][i] = h[k][i]
            /\ DOMAIN g[k] = 1..Len(h[k]) + 1 /\ DOMAIN h[k] = 1..Len(h[k])
            /\ Len(h[k]) \in Nat
        BY <4>1, Appended
      <4>3. \A i \in 1..Len(h[k]) + 1 : i = Len(h[k]) + 1 \/ i \in 1..Len(h[k])
        BY <4>2
      <4> QED
        BY <4>2, <4>3 DEF RateLooks
    <3> QED
      BY <3>2, <3>3 DEF RateLooksAdded
  <2>0. RatePairsAre(h, source, from) /\ RatePairsAre(g, source, from)
    BY PairsMembers
  <2>2. ASSUME NEW pair
        PROVE  /\ pair \in RatePairs(h, source, from) =>
                    \E id \in RuleIds : \E i \in RateLooks(h, <<id, source>>, from) : pair = <<id, i>>
               /\ pair \in RatePairs(g, source, from) =>
                    \E id \in RuleIds : \E i \in RateLooks(g, <<id, source>>, from) : pair = <<id, i>>
    BY <2>0 DEF RatePairsAre
  <2>3. ASSUME NEW id \in RuleIds, NEW i
        PROVE  /\ i \in RateLooks(h, <<id, source>>, from) => <<id, i>> \in RatePairs(h, source, from)
               /\ i \in RateLooks(g, <<id, source>>, from) => <<id, i>> \in RatePairs(g, source, from)
    BY <2>0 DEF RatePairsAre
  <2>4. RatePairs(h, source, from) \subseteq RatePairs(g, source, from)
    <3>1. SUFFICES ASSUME NEW pair \in RatePairs(h, source, from)
                   PROVE  pair \in RatePairs(g, source, from)
      OBVIOUS
    <3>2. PICK id \in RuleIds : \E i \in RateLooks(h, <<id, source>>, from) : pair = <<id, i>>
      BY <2>2
    <3>3. PICK i \in RateLooks(h, <<id, source>>, from) : pair = <<id, i>>
      BY <3>2
    <3>4. i \in RateLooks(g, <<id, source>>, from)
      BY <3>2, <3>3, <2>1
    <3> QED
      BY <3>2, <3>3, <3>4, <2>3
  <2>5. RatePairs(g, source, from) \subseteq RatePairs(h, source, from) \cup {new}
    <3>1. SUFFICES ASSUME NEW pair \in RatePairs(g, source, from)
                   PROVE  pair \in RatePairs(h, source, from) \/ pair = new
      OBVIOUS
    <3>2. PICK id \in RuleIds : \E i \in RateLooks(g, <<id, source>>, from) : pair = <<id, i>>
      BY <2>2
    <3>3. PICK i \in RateLooks(g, <<id, source>>, from) : pair = <<id, i>>
      BY <3>2
    <3>4. CASE i \in RateLooks(h, <<id, source>>, from)
      BY <3>2, <3>3, <3>4, <2>3
    <3>5. CASE i \notin RateLooks(h, <<id, source>>, from)
      <4>1. <<id, source>> = <<r, s>>
        BY <3>2, <3>3, <3>5, <2>1
      <4>2. i = Len(h[<<id, source>>]) + 1
        BY <3>2, <3>3, <3>5, <2>1
      <4> QED
        BY <4>1, <4>2, <3>3
    <3> QED
      BY <3>4, <3>5
  <2>6. ASSUME source = s, IsRate(x), x.at >= from
        PROVE  new \notin RatePairs(h, source, from) /\ new \in RatePairs(g, source, from)
    <3>1. /\ Len(h[<<r, s>>]) + 1 \notin RateLooks(h, <<r, source>>, from)
          /\ Len(h[<<r, s>>]) + 1 \in RateLooks(g, <<r, source>>, from)
      BY <2>1, <2>6
    <3>2. new \in RatePairs(g, source, from)
      BY <3>1, <2>3
    <3>3. ASSUME new \in RatePairs(h, source, from)
          PROVE  FALSE
      <4>1. PICK id \in RuleIds : \E i \in RateLooks(h, <<id, source>>, from) : new = <<id, i>>
        BY <3>3, <2>2
      <4>2. PICK i \in RateLooks(h, <<id, source>>, from) : new = <<id, i>>
        BY <4>1
      <4>3. id = r /\ i = Len(h[<<r, s>>]) + 1
        BY <4>2
      <4> QED
        BY <4>2, <4>3, <3>1
    <3> QED
      BY <3>2, <3>3
  <2>. HIDE DEF new
  <2> QED
    BY <2>4, <2>5, <2>6
<1>. HIDE DEF new
<1>2. ASSUME NEW from \in Nat
      PROVE  RatePairs(h, source, from) \subseteq RatePairs(h, source, 0)
  <2>1. 0 \in Nat /\ 0 <= from
    OBVIOUS
  <2> QED
    BY <2>1, RatePairsSince
<1>3. 0 \in Nat
  OBVIOUS
<1>4. ASSUME NEW from \in Nat
      PROVE  /\ IsFiniteSet(RatePairs(h, source, from)) /\ IsFiniteSet(RatePairs(g, source, from))
             /\ Cardinality(RatePairs(h, source, from)) <= Cardinality(RatePairs(g, source, from))
             /\ source = s /\ IsRate(x) /\ x.at >= from =>
                  Cardinality(RatePairs(g, source, from))
                    = Cardinality(RatePairs(h, source, from)) + 1
  <2>1. IsFiniteSet(RatePairs(h, source, from))
    BY <1>2, FS_Subset
  <2>2. IsFiniteSet(RatePairs(h, source, from) \cup {new})
    BY <2>1, FS_AddElement
  <2>3. IsFiniteSet(RatePairs(g, source, from))
    BY <2>2, <1>1, FS_Subset
  <2>4. Cardinality(RatePairs(h, source, from)) <= Cardinality(RatePairs(g, source, from))
    BY <2>3, <1>1, FS_Subset
  <2>5. ASSUME source = s, IsRate(x), x.at >= from
        PROVE  Cardinality(RatePairs(g, source, from))
                 = Cardinality(RatePairs(h, source, from)) + 1
    BY <2>1, <2>5, <1>1, FS_AddElement
  <2> QED
    BY <2>1, <2>3, <2>4, <2>5
<1>5. ASSUME NEW from \in Nat
      PROVE  /\ Cardinality(RatePairs(h, source, from)) \in Nat
             /\ Cardinality(RatePairs(g, source, from)) \in Nat
  BY <1>4, FS_CardinalityType
<1> QED
  BY <1>3, <1>4, <1>5 DEF RatePairsAdded
----------------------------------------------------------------------------
(* The times that RATE_LIMIT rules share.                                  *)
(* What comes of the times when a packet is counted or not. *)
Extended(kept, after) ==
  \/ after = kept
  \/ after = Append(kept, now)

LEMMA ExtendedTimes ==
  ASSUME now \in Nat, NEW kept, Ascending(kept, now), NEW after, Extended(kept, after)
  PROVE  /\ Ascending(after, now) /\ Len(kept) \in Nat
         /\ Len(after) = Len(kept) \/ (Len(after) = Len(kept) + 1 /\ after[Len(after)] = now)
         /\ \A i \in 1..Len(kept) : after[i] = kept[i]
<1>1. Len(kept) \in Nat
  BY DEF Ascending
<1>2. CASE after = kept
  BY <1>1, <1>2
<1>3. CASE after = Append(kept, now)
  <2>1. Longer(kept, after, now)
    BY <1>3, TimeAdded
  <2> QED
    BY <1>1, <2>1 DEF Longer
<1> QED
  BY <1>2, <1>3 DEF Extended

(* The last times stay while they are in the window. *)
LEMMA LateKept ==
  ASSUME now \in Nat, NEW q, Ascending(q, now), NEW w \in Nat, NEW c, NEW kept, Cut(q, kept, c, w),
         NEW v \in Nat, now - v <= w, NEW e \in Nat, Len(q) >= e + 1, q[Len(q) - e] >= v
  PROVE  Len(kept) >= e + 1 /\ kept[Len(kept) - e] >= v
<1>. DEFINE i == Len(q) - e
<1>1. Len(q) \in Nat /\ i \in 1..Len(q) /\ q[i] \in Nat /\ q[i] >= v
  BY DEF Ascending
<1>2. c \in 0..Len(q) /\ Len(kept) = Len(q) - c
  BY DEF Cut
<1>3. ~(now - q[i] > w)
  BY <1>1
<1>4. ~(i <= c)
  BY <1>1, <1>3 DEF Cut
<1>5. Len(kept) >= e + 1 /\ Len(kept) - e \in 1..Len(kept) /\ c + (Len(kept) - e) = i
  BY <1>1, <1>2, <1>4
<1>6. kept[Len(kept) - e] = q[c + (Len(kept) - e)]
  BY <1>5 DEF Cut
<1>. HIDE DEF i
<1> QED
  BY <1>1, <1>5, <1>6

LEMMA LateExtended ==
  ASSUME now \in Nat, NEW kept, Ascending(kept, now), NEW after, Extended(kept, after),
         NEW v \in Nat, v <= now, NEW e \in Nat, Len(kept) >= e + 1, kept[Len(kept) - e] >= v
  PROVE  /\ Len(after) >= e + 1 /\ after[Len(after) - e] >= v
         /\ Len(after) # Len(kept) => Len(after) >= e + 2 /\ after[Len(after) - (e + 1)] >= v
<1>1. /\ Ascending(after, now) /\ Len(kept) \in Nat
      /\ Len(after) = Len(kept) \/ (Len(after) = Len(kept) + 1 /\ after[Len(after)] = now)
      /\ \A i \in 1..Len(kept) : after[i] = kept[i]
  BY ExtendedTimes
<1>2. Len(kept) - e \in 1..Len(kept) /\ after[Len(kept) - e] >= v
  BY <1>1
<1>3. CASE Len(after) = Len(kept)
  BY <1>2, <1>3
<1>4. CASE Len(after) = Len(kept) + 1
  <2>1. Len(after) >= e + 2 /\ Len(after) - (e + 1) = Len(kept) - e
    BY <1>1, <1>4
  <2>2. Len(after) - e \in 1..Len(after) /\ Len(kept) - e \in 1..Len(after)
        /\ Len(kept) - e <= Len(after) - e
    BY <1>1, <1>2, <1>4
  <2>3. after[Len(kept) - e] <= after[Len(after) - e]
    BY <2>2, <1>1 DEF Ascending
  <2>4. after[Len(kept) - e] \in Nat /\ after[Len(after) - e] \in Nat
    <3>1. after \in Seq(Nat)
      BY <1>1 DEF Ascending
    <3> QED
      BY <2>2, <3>1
  <2> QED
    BY <2>1, <2>2, <2>3, <2>4, <1>2
<1> QED
  BY <1>1, <1>3, <1>4

LEMMA BackedKept ==
  ASSUME NEW h, NEW g, NEW s, NEW x, NEW source, NEW B \in Seq(Nat), Backed(h, source, B),
         RatePairsAdded(h, g, s, x, source)
  PROVE  Backed(g, source, B)
<1>1. ASSUME NEW i \in 1..Len(B)
      PROVE  Len(B) - i + 1 <= Cardinality(RatePairs(g, source, B[i]))
  <2>1. B[i] \in Nat /\ Len(B) \in Nat
    OBVIOUS
  <2>2. /\ Cardinality(RatePairs(h, source, B[i])) \in Nat
        /\ Cardinality(RatePairs(g, source, B[i])) \in Nat
        /\ Cardinality(RatePairs(h, source, B[i])) <= Cardinality(RatePairs(g, source, B[i]))
    BY <2>1 DEF RatePairsAdded
  <2>3. Len(B) - i + 1 <= Cardinality(RatePairs(h, source, B[i]))
    BY DEF Backed
  <2> QED
    BY <2>1, <2>2, <2>3
<1> QED
  BY <1>1 DEF Backed, RatePairsAdded

LEMMA BackedStep ==
  ASSUME now \in Nat, NEW h, NEW g, NEW s, NEW x, IsRate(x), x.at = now,
         NEW B, Ascending(B, now), Backed(h, s, B), RatePairsAdded(h, g, s, x, s),
         NEW w \in Nat, NEW c, NEW kept, Cut(B, kept, c, w), NEW after, Extended(kept, after)
  PROVE  Backed(g, s, kept) /\ Backed(g, s, after)
<1>1. /\ B \in Seq(Nat) /\ Len(B) \in Nat /\ kept \in Seq(Nat) /\ Len(kept) \in Nat
      /\ \A i \in 1..Len(B) : B[i] \in Nat /\ B[i] <= now
  BY DEF Ascending, Cut
<1>2. /\ c \in 0..Len(B) /\ Len(kept) = Len(B) - c
      /\ \A i \in 1..Len(kept) : kept[i] = B[c + i]
  BY DEF Cut
<1>3. ASSUME NEW i \in 1..Len(kept)
      PROVE  /\ kept[i] \in Nat
             /\ Cardinality(RatePairs(g, s, kept[i])) \in Nat
             /\ Len(kept) - i + 2 <= Cardinality(RatePairs(g, s, kept[i]))
  <2>1. c + i \in 1..Len(B) /\ Len(B) - (c + i) = Len(kept) - i /\ kept[i] = B[c + i]
    BY <1>1, <1>2
  <2>2. Len(B) - (c + i) + 1 <= Cardinality(RatePairs(h, s, B[c + i]))
    BY <2>1 DEF Backed
  <2>3. B[c + i] \in Nat /\ x.at >= B[c + i]
    BY <2>1, <1>1
  <2>4. /\ Cardinality(RatePairs(h, s, B[c + i])) \in Nat
        /\ Cardinality(RatePairs(g, s, B[c + i])) \in Nat
        /\ Cardinality(RatePairs(g, s, B[c + i])) = Cardinality(RatePairs(h, s, B[c + i])) + 1
    BY <2>3 DEF RatePairsAdded
  <2>5. Len(kept) - i + 1 <= Cardinality(RatePairs(h, s, B[c + i]))
    BY <2>1, <2>2
  <2>6. Len(kept) - i + 2 <= Cardinality(RatePairs(h, s, B[c + i])) + 1
    BY <2>4, <2>5, <1>1
  <2> QED
    BY <2>1, <2>3, <2>4, <2>6
<1>4. Cardinality(RatePairs(g, s, now)) \in Nat /\ 1 <= Cardinality(RatePairs(g, s, now))
  <2>1. /\ Cardinality(RatePairs(h, s, now)) \in Nat /\ Cardinality(RatePairs(g, s, now)) \in Nat
        /\ Cardinality(RatePairs(g, s, now)) = Cardinality(RatePairs(h, s, now)) + 1
    BY DEF RatePairsAdded
  <2> QED
    BY <2>1
<1>5. \A i \in 1..Len(kept) : Len(kept) - i + 1 <= Cardinality(RatePairs(g, s, kept[i]))
  <2>1. SUFFICES ASSUME NEW i \in 1..Len(kept)
                 PROVE  Len(kept) - i + 1 <= Cardinality(RatePairs(g, s, kept[i]))
    OBVIOUS
  <2>2. /\ Cardinality(RatePairs(g, s, kept[i])) \in Nat
        /\ Len(kept) - i + 2 <= Cardinality(RatePairs(g, s, kept[i]))
    BY <1>3
  <2> QED
    BY <2>2, <1>1
<1>6. Backed(g, s, kept)
  BY <1>5 DEF Backed, RatePairsAdded
<1>7. Backed(g, s, after)
  <2>1. CASE after = kept
    BY <2>1, <1>6
  <2>2. CASE after = Append(kept, now)
    <3>1. /\ Len(after) = Len(kept) + 1 /\ after[Len(kept) + 1] = now
          /\ \A i \in 1..Len(kept) : after[i] = kept[i]
      BY <2>2, <1>1, Appended
    <3>2. ASSUME NEW i \in 1..Len(after)
          PROVE  Len(after) - i + 1 <= Cardinality(RatePairs(g, s, after[i]))
      <4>1. CASE i = Len(kept) + 1
        BY <4>1, <3>1, <1>1, <1>4
      <4>2. CASE i # Len(kept) + 1
        <5>1. i \in 1..Len(kept) /\ after[i] = kept[i]
          BY <4>2, <3>1, <1>1
        <5>2. Len(kept) - i + 2 <= Cardinality(RatePairs(g, s, kept[i]))
          BY <5>1, <1>3
        <5>3. Len(after) - i + 1 = Len(kept) - i + 2
          BY <3>1, <1>1
        <5> QED
          BY <5>1, <5>2, <5>3
      <4> QED
        BY <4>1, <4>2
    <3> QED
      BY <3>2 DEF Backed, RatePairsAdded
  <2> QED
    BY <2>1, <2>2 DEF Extended
<1> QED
  BY <1>6, <1>7
----------------------------------------------------------------------------
(* What a look leaves as it was.                                           *)
LEMMA RateInvKept ==
  ASSUME NEW h, NEW g, History(h), NEW r \in RuleIds, NEW s \in Sources, NEW x \in LookSet,
         Grown(h, g, r, s, x), NEW k \in Pairs, ~(IsRate(x) /\ k[2] = s),
         NEW t, NEW B, RateInv(t, h, k, B)
  PROVE  RateInv(t, g, k, B)
<1>1. SharingAdded(h, g, r, s, x, k) /\ LookAdded(h, g, r, s, x) /\ RateLooksAdded(h, g, r, s, x, k, 0)
  BY SharingGrown, HistoryGrown, RateLooksGrown
<1>2. CASE k # <<r, s>>
  <2>1. g[k] = h[k] /\ RateLooks(g, k, 0) = RateLooks(h, k, 0)
    BY <1>1, <1>2 DEF LookAdded, RateLooksAdded
  <2>2. Limited(g, k, B)
    <3>1. Limited(h, k, B) /\ (SharesNone(g, k) => SharesNone(h, k))
      BY <1>1 DEF RateInv, SharingAdded
    <3> QED
      BY <2>1, <3>1 DEF Limited
  <2>3. ASSUME NEW m \in 1..Len(g[k])
        PROVE  Held(t, g, k, B, m)
    <3>1. m \in 1..Len(h[k]) /\ Held(t, h, k, B, m)
      BY <2>1 DEF RateInv
    <3>2. h[k][m].at \in Nat
      <4>1. h[k] \in Seq(LookSet)
        BY DEF History
      <4> QED
        BY <3>1, <4>1, FormType
    <3>3. SharesTimes(h, k, h[k][m].at, h[k][Len(h[k])].form.window)
            => SharesTimes(g, k, h[k][m].at, h[k][Len(h[k])].form.window)
      BY <3>2, <1>1 DEF SharingAdded
    <3> QED
      BY <2>1, <3>1, <3>3 DEF Held
  <2> QED
    BY <2>2, <2>3 DEF RateInv
<1>3. CASE k = <<r, s>>
  <2>1. ~IsRate(x) /\ g[k] = Append(h[k], x) /\ h[k] \in Seq(LookSet)
    BY <1>1, <1>3 DEF LookAdded
  <2>2. g[k][Len(g[k])] = x /\ Len(g[k]) = Len(h[k]) + 1
    BY <2>1, Appended
  <2>3. RateLooks(g, k, 0) = RateLooks(h, k, 0) /\ (SharesNone(g, k) => SharesNone(h, k))
    BY <1>1, <2>1 DEF RateLooksAdded, SharingAdded
  <2>4. Limited(g, k, B)
    <3>1. Limited(h, k, B)
      BY DEF RateInv
    <3> QED
      BY <2>1, <2>2, <2>3, <3>1 DEF Limited, IsRate
  <2>5. \A m \in 1..Len(g[k]) : Held(t, g, k, B, m)
    BY <2>1, <2>2 DEF Held, IsRate
  <2> QED
    BY <2>4, <2>5 DEF RateInv
<1> QED
  BY <1>2, <1>3

LEMMA JudgedKept ==
  ASSUME NEW h, NEW g, History(h), NEW r \in RuleIds, NEW s \in Sources, NEW x \in LookSet,
         Grown(h, g, r, s, x), NEW k \in Pairs, k # <<r, s>>,
         RatePairsAdded(h, g, s, x, k[2]), Judged(h, k)
  PROVE  Judged(g, k)
<1>1. SharingAdded(h, g, r, s, x, k) /\ LookAdded(h, g, r, s, x)
  BY SharingGrown, HistoryGrown
<1>2. g[k] = h[k] /\ h[k] \in Seq(LookSet)
  BY <1>1 DEF LookAdded, History
<1>3. SUFFICES ASSUME h[k] # <<>>
               PROVE  Alerts(g, k) /\ Explained(g[k], Len(g[k]))
  BY <1>2 DEF Judged
<1>. DEFINE p == h[k]
            j == Len(p)
            n == p[j].form.limit
            w == p[j].form.window
<1>4. j \in 1..Len(p) /\ p[j] \in LookSet
  BY <1>2, <1>3
<1>5. ThresholdMatches(p, j) /\ Explained(p, j)
  BY <1>3 DEF Judged, Alerts
<1>6. ASSUME p[j].form.type = "RATE_LIMIT", n # None
      PROVE  RateMatches(g, k, p, j, n)
  <2>1. RateMatches(h, k, p, j, n)
    BY <1>3, <1>6 DEF Judged, Alerts
  <2>2. n \in Nat /\ w \in Nat /\ p[j].at \in Nat
    BY <1>4, <1>6, FormType
  <2>. HIDE DEF w, n
  <2>3. ASSUME j > n, OneForm(p, j - n, j), j - n \in InWindow(p, j)
        PROVE  \/ \E i \in j - n..j : Matched(p[i])
               \/ SharesTimes(g, k, p[j - n].at, w)
    <3>1. \/ \E i \in j - n..j : Matched(p[i])
          \/ SharesTimes(h, k, p[j - n].at, w)
      BY <2>1, <2>3 DEF RateMatches, w
    <3>2. j - n \in 1..Len(p)
      BY <2>3 DEF InWindow
    <3>3. p[j - n].at \in Nat
      BY <3>2, <1>2, FormType
    <3>4. SharesTimes(h, k, p[j - n].at, w) => SharesTimes(g, k, p[j - n].at, w)
      BY <3>3, <1>1 DEF SharingAdded
    <3> QED
      BY <3>1, <3>4
  <2>4. ASSUME Matched(p[j]), NEW from, from = (IF p[j].at > w THEN p[j].at - w ELSE 0)
        PROVE  Cardinality(RatePairs(g, k[2], from)) >= n
    <3>1. from \in Nat
      BY <2>2, <2>4
    <3>2. Cardinality(RatePairs(h, k[2], from)) >= n
      BY <2>1, <2>4 DEF RateMatches, w
    <3>3. /\ Cardinality(RatePairs(h, k[2], from)) \in Nat
          /\ Cardinality(RatePairs(g, k[2], from)) \in Nat
          /\ Cardinality(RatePairs(h, k[2], from)) <= Cardinality(RatePairs(g, k[2], from))
      BY <3>1 DEF RatePairsAdded
    <3> QED
      BY <3>2, <3>3, <2>2
  <2>5. n > 0 /\ OneForm(p, 1, j) /\ p[j].fate = "stored" /\ SharesNone(g, k)
          => p[j].severity = "MEDIUM"
    BY <2>1, <1>1 DEF RateMatches, SharingAdded
  <2> QED
    BY <2>3, <2>4, <2>5 DEF RateMatches, w
<1> QED
  BY <1>2, <1>5, <1>6 DEF Alerts
----------------------------------------------------------------------------
(* A look of a RATE_LIMIT rule: kept are the shared times that are left in its window. *)
RateLook(x, kept, after) ==
  LET n == x.form.limit
      exceeded == n = None \/ Len(kept) >= n
  IN  /\ IsRate(x) /\ x.at = now
      /\ after = IF exceeded THEN kept ELSE Append(kept, now)
      /\ Matched(x) <=> n # None /\ Len(kept) >= n
      /\ n # None /\ x.fate = "stored" => x.severity = Severity(Len(kept), n)

(* ... h and g are the histories before and after, B and after the shared times. *)
RateStep(h, g, r, s, x, B, kept, after) ==
  /\ now \in Nat /\ History(h) /\ Grown(h, g, r, s, x) /\ x \in LookSet
  /\ Ascending(B, now) /\ \E c : Cut(B, kept, c, x.form.window)
  /\ RateLook(x, kept, after)

LEMMA OthersHeld ==
  ASSUME NEW h, NEW g, NEW r \in RuleIds, NEW s \in Sources, NEW x, NEW B, NEW kept, NEW after,
         RateStep(h, g, r, s, x, B, kept, after),
         NEW k \in Pairs, k # <<r, s>>, k[2] = s, Aging(h[k], now), RateInv(now, h, k, B)
  PROVE  RateInv(now, g, k, after)
<1>0. /\ now \in Nat /\ History(h) /\ Grown(h, g, r, s, x) /\ x \in LookSet
      /\ Ascending(B, now) /\ RateLook(x, kept, after)
  BY DEF RateStep
<1>c. PICK c : Cut(B, kept, c, x.form.window)
  BY DEF RateStep
<1>1. /\ SharingAdded(h, g, r, s, x, k) /\ LookAdded(h, g, r, s, x)
      /\ RateLooksAdded(h, g, r, s, x, k, 0)
  BY <1>0, SharingGrown, HistoryGrown, RateLooksGrown
<1>2. g[k] = h[k] /\ h[k] \in Seq(LookSet)
  BY <1>0, <1>1 DEF LookAdded, History
<1>3. k[1] # r /\ IsRate(x) /\ x.at = now /\ Extended(kept, after)
  BY <1>0 DEF Pairs, RateLook, Extended
<1>4. Limited(g, k, after)
  BY <1>1, <1>3 DEF SharingAdded, Limited
<1>5. ASSUME NEW m \in 1..Len(g[k])
      PROVE  Held(now, g, k, after, m)
  <2>. DEFINE p == h[k]
              j == Len(p)
              f == p[j].form
              e == j - m
              v == p[m].at
  <2>1. m \in 1..j /\ j \in 1..j /\ e \in Nat /\ Held(now, h, k, B, m)
    BY <1>2 DEF RateInv
  <2>2. v \in Nat /\ v <= now /\ f.window \in Nat
    BY <2>1, <1>2, FormType DEF Aging
  <2>3. SUFFICES ASSUME f.type = "RATE_LIMIT", f.limit # None, OneForm(p, m, j),
                        \A i \in m..j : ~Matched(p[i]),
                        now - v <= f.window,
                        ~SharesTimes(g, k, v, f.window)
                 PROVE  Len(after) >= e + 1 /\ after[Len(after) - e] >= v
    BY <1>2 DEF Held
  <2>4. ~SharesTimes(h, k, v, f.window) /\ ~(x.form.window < f.window)
    BY <2>2, <2>3, <1>0, <1>1, <1>3 DEF SharingAdded
  <2>5. Len(B) >= e + 1 /\ B[Len(B) - e] >= v
    BY <2>1, <2>3, <2>4 DEF Held
  <2>6. x.form.window \in Nat /\ now - v <= x.form.window
    BY <2>2, <2>3, <2>4, <1>0, FormType
  <2>. HIDE DEF v, e
  <2>7. Len(kept) >= e + 1 /\ kept[Len(kept) - e] >= v
    BY <2>1, <2>2, <2>5, <2>6, <1>0, <1>c, LateKept
  <2>8. Ascending(kept, now)
    BY <1>c DEF Cut
  <2> QED
    BY <2>1, <2>2, <2>7, <2>8, <1>0, <1>3, LateExtended
<1> QED
  BY <1>4, <1>5 DEF RateInv

LEMMA OwnHeld ==
  ASSUME NEW h, NEW g, NEW r \in RuleIds, NEW s \in Sources, NEW x, NEW B, NEW kept, NEW after,
         RateStep(h, g, r, s, x, B, kept, after),
         NEW k \in Pairs, k = <<r, s>>, Aging(h[k], now), RateInv(now, h, k, B),
         Backed(g, s, kept)
  PROVE  /\ RateInv(now, g, k, after)
         /\ x.form.limit # None => RateMatches(g, k, g[k], Len(g[k]), x.form.limit)
<1>. DEFINE p == h[k]
            q == g[k]
            j == Len(q)
            n == x.form.limit
            w == x.form.window
<1>0. /\ now \in Nat /\ History(h) /\ Grown(h, g, r, s, x) /\ x \in LookSet
      /\ Ascending(B, now) /\ RateLook(x, kept, after)
  BY DEF RateStep
<1>c. PICK c : Cut(B, kept, c, x.form.window)
  BY DEF RateStep
<1>1. /\ SharingAdded(h, g, r, s, x, k) /\ LookAdded(h, g, r, s, x)
      /\ RateLooksAdded(h, g, r, s, x, k, 0) /\ History(g)
  BY <1>0, SharingGrown, HistoryGrown, RateLooksGrown
<1>2. q = Append(p, x) /\ p \in Seq(LookSet)
  BY <1>1 DEF LookAdded
<1>. HIDE DEF p, q
<1>3. /\ q \in Seq(LookSet) /\ q # <<>>
      /\ j = Len(p) + 1 /\ Len(p) \in Nat /\ q[j] = x
      /\ \A i \in 1..Len(p) : q[i] = p[i]
  BY <1>0, <1>2, Appended
<1>4. w \in Nat /\ n \in Nat \cup {None} /\ x.form.type = "RATE_LIMIT" /\ x.at = now
  BY <1>0, FormType DEF RateLook, IsRate
<1>5. /\ c \in 0..Len(B) /\ Len(kept) = Len(B) - c /\ Len(kept) \in Nat /\ Len(B) \in Nat
      /\ Ascending(kept, now) /\ Extended(kept, after)
  BY <1>0, <1>c DEF Cut, Ascending, RateLook, Extended
<1>6. n # None => (Matched(x) <=> Len(kept) >= n)
  BY <1>0 DEF RateLook
<1>7. n # None /\ ~Matched(x) => after = Append(kept, now)
  BY <1>0 DEF RateLook
<1>8. RateLooks(g, k, 0) # {}
  BY <1>0, <1>1, <1>4 DEF RateLooksAdded, IsRate
<1>. HIDE DEF j, n, w
(* With none to share them, there are never more than the rate. *)
<1>9. ASSUME SharesNone(g, k), OneForm(q, 1, j), n # None
      PROVE  Len(kept) <= n
  <2>1. SharesNone(h, k) /\ Limited(h, k, B)
    BY <1>1, <1>9 DEF SharingAdded, RateInv
  <2>2. CASE p = <<>>
    <3>1. RateLooks(h, k, 0) = {}
      BY <1>0, <2>2 DEF RateLooks, p
    <3>2. B = <<>>
      BY <2>1, <3>1 DEF Limited
    <3>3. Len(B) = 0
      BY <3>2
    <3> QED
      BY <3>3, <1>4, <1>5, <1>9
  <2>3. CASE p # <<>>
    <3>1. 1 \in 1..Len(p) /\ OneForm(q, 1, Len(q))
      BY <2>3, <1>2, <1>3, <1>9 DEF j
    <3>2. OneForm(p, 1, Len(p)) /\ p[Len(p)].form = x.form
      BY <3>1, <1>0, <1>2, FormKept
    <3>3. Len(B) <= n
      BY <2>1, <2>3, <3>2, <1>4, <1>9 DEF Limited, p, n
    <3> QED
      BY <3>3, <1>4, <1>5, <1>9
  <2> QED
    BY <2>2, <2>3
<1>10. Limited(g, k, after)
  <2>1. ASSUME SharesNone(g, k), OneForm(q, 1, j), n # None
        PROVE  Len(after) <= n
    <3>1. Len(kept) <= n /\ n \in Nat
      BY <2>1, <1>4, <1>9
    <3>2. CASE Len(kept) >= n
      <4>1. after = kept
        BY <1>0, <3>2 DEF RateLook, n
      <4> QED
        BY <3>1, <4>1
    <3>3. CASE ~(Len(kept) >= n)
      <4>1. Len(after) = Len(kept) \/ Len(after) = Len(kept) + 1
        BY <1>0, <1>5, ExtendedTimes
      <4> QED
        BY <3>1, <3>3, <4>1, <1>5
    <3> QED
      BY <3>2, <3>3
  <2> QED
    BY <2>1, <1>3, <1>8 DEF Limited, q, j, n
(* What was not matched before is still among the shared times. *)
<1>11. ASSUME NEW m \in 1..Len(p), OneForm(q, m, j), \A i \in m..j : ~Matched(q[i]),
              n # None, now - q[m].at <= w, ~SharesTimes(g, k, q[m].at, w)
       PROVE  /\ Len(kept) >= Len(p) - m + 1
              /\ kept[Len(kept) - (Len(p) - m)] >= q[m].at
              /\ q[m].at \in Nat /\ q[m].at <= now
  <2>. DEFINE e == Len(p) - m
              v == p[m].at
  <2>1. q[m] = p[m] /\ m \in 1..Len(p) /\ e \in Nat /\ Len(p) \in 1..Len(p)
    BY <1>3
  <2>2. v \in Nat /\ v <= now
    <3>1. p[m] \in LookSet
      BY <2>1, <1>2
    <3>2. p[m].at <= now
      BY <2>1 DEF Aging, p
    <3> QED
      BY <1>0, <3>1, <3>2, FormType
  <2>3. OneForm(p, m, Len(p)) /\ p[Len(p)].form = x.form
    <3>1. OneForm(q, m, Len(q))
      BY <1>11 DEF j
    <3> QED
      BY <3>1, <1>0, <1>2, FormKept
  <2>4. \A i \in m..Len(p) : ~Matched(p[i])
    <3>1. \A i \in m..Len(p) : i \in m..j /\ i \in 1..Len(p)
      BY <1>3
    <3> QED
      BY <3>1, <1>3, <1>11
  <2>5. ~SharesTimes(h, k, v, w)
    BY <2>1, <2>2, <1>1, <1>11 DEF SharingAdded
  <2>6. Held(now, h, k, B, m)
    BY <2>1 DEF RateInv, p
  <2>7. Len(B) >= e + 1 /\ B[Len(B) - e] >= v
    BY <2>1, <2>3, <2>4, <2>5, <2>6, <1>4, <1>11 DEF Held, p, n, w
  <2>8. Cut(B, kept, c, w) /\ now - v <= w
    BY <2>1, <1>11, <1>c DEF w
  <2>. HIDE DEF e, v
  <2>9. Len(kept) >= e + 1 /\ kept[Len(kept) - e] >= v
    BY <1>0, <1>c, <2>1, <2>2, <2>7, <2>8, <1>4, LateKept
  <2> QED
    BY <2>1, <2>2, <2>9 DEF e, v
<1>12. ASSUME NEW m \in 1..Len(q)
       PROVE  Held(now, g, k, after, m)
  <2>1. SUFFICES ASSUME n # None, OneForm(q, m, j), \A i \in m..j : ~Matched(q[i]),
                        now - q[m].at <= w, ~SharesTimes(g, k, q[m].at, w)
                 PROVE  Len(after) >= j - m + 1 /\ after[Len(after) - (j - m)] >= q[m].at
    BY <1>3 DEF Held, q, j, n, w
  <2>2. j \in m..j
    BY <1>3 DEF j
  <2>3. after = Append(kept, now)
    BY <2>1, <2>2, <1>3, <1>7
  <2>4. Longer(kept, after, now)
    BY <1>0, <2>3, <1>5, TimeAdded
  <2>5. CASE m = j
    <3>1. j - m = 0 /\ Len(after) - 0 = Len(kept) + 1 /\ Len(after) >= 0 + 1
      BY <2>4, <2>5, <1>3, <1>5 DEF Longer
    <3>2. after[Len(kept) + 1] = now /\ q[m].at = now
      BY <2>4, <2>5, <1>3, <1>4 DEF Longer
    <3> QED
      BY <3>1, <3>2, <1>0
  <2>6. CASE m # j
    <3>. DEFINE e == Len(p) - m
                v == q[m].at
    <3>1. m \in 1..Len(p) /\ e \in Nat /\ j - m = e + 1
      BY <2>6, <1>3 DEF j
    <3>2. Len(kept) >= e + 1 /\ kept[Len(kept) - e] >= v /\ v \in Nat /\ v <= now
      BY <3>1, <2>1, <1>11
    <3>3. Len(after) # Len(kept)
      BY <2>4, <1>5 DEF Longer
    <3>. HIDE DEF e, v
    <3>4. Len(after) >= e + 2 /\ after[Len(after) - (e + 1)] >= v
      BY <1>0, <3>1, <3>2, <3>3, <1>5, LateExtended
    <3> QED
      BY <3>1, <3>4 DEF v
  <2> QED
    BY <2>5, <2>6
<1>13. RateInv(now, g, k, after)
  BY <1>10, <1>12 DEF RateInv, q
(* The alarm. *)
<1>14. ASSUME n # None
       PROVE  RateMatches(g, k, q, j, n)
  <2>1. n \in Nat /\ q[j].form.window = w
    BY <1>3, <1>4, <1>14 DEF w
  <2>2. ASSUME j > n, OneForm(q, j - n, j), j - n \in InWindow(q, j),
               ~\E i \in j - n..j : Matched(q[i])
        PROVE  SharesTimes(g, k, q[j - n].at, w)
    <3>. DEFINE m == j - n
    <3>1. m \in 1..j /\ now - q[m].at <= w
      BY <2>1, <2>2, <1>3, <1>4 DEF InWindow
    <3>2. j \in m..j
      BY <2>1, <1>3
    <3>3. ~Matched(x)
      BY <3>2, <2>2, <1>3
    <3>4. ~(Len(kept) >= n)
      BY <3>3, <1>6, <1>14
    <3>5. n > 0 /\ m \in 1..Len(p) /\ Len(p) - m + 1 = n
      BY <3>1, <3>4, <2>1, <1>3, <1>5
    <3>6. \A i \in m..j : ~Matched(q[i])
      BY <2>2
    <3>. HIDE DEF m
    <3>7. ~SharesTimes(g, k, q[m].at, w) => Len(kept) >= Len(p) - m + 1
      BY <3>1, <3>5, <3>6, <2>2, <1>11, <1>14 DEF m
    <3> QED
      BY <3>4, <3>5, <3>7 DEF m
  <2>3. ASSUME Matched(x), NEW from, from = (IF now > w THEN now - w ELSE 0)
        PROVE  Cardinality(RatePairs(g, s, from)) >= n
    <3>1. from \in Nat
      BY <2>3, <1>0, <1>4
    <3>2. IsFiniteSet(RatePairs(g, s, from))
      <4>1. 0 \in Nat /\ 0 <= from
        BY <3>1
      <4>2. RatePairs(g, s, from) \subseteq RatePairs(g, s, 0)
        BY <4>1, <3>1, <1>1, RatePairsSince
      <4>3. IsFiniteSet(RatePairs(g, s, 0))
        BY DEF Backed
      <4> QED
        BY <4>2, <4>3, FS_Subset
    <3>3. Cardinality(RatePairs(g, s, from)) \in Nat
      BY <3>2, FS_CardinalityType
    <3>4. CASE n = 0
      BY <3>3, <3>4
    <3>5. CASE n > 0
      <4>1. Len(kept) >= n /\ 1 \in 1..Len(kept)
        BY <3>5, <2>1, <2>3, <1>5, <1>6, <1>14
      <4>2. kept[1] = B[c + 1] /\ c + 1 \in 1..Len(B) /\ ~(c + 1 <= c)
        BY <1>c, <4>1, <1>5 DEF Cut
      <4>3. ~(now - kept[1] > w)
        BY <1>c, <4>2 DEF Cut, w
      <4>4. kept[1] \in Nat
        BY <4>1, <1>5 DEF Ascending
      <4>5. from <= kept[1]
        BY <4>3, <4>4, <2>3, <1>0, <1>4
      <4>6. Len(kept) - 1 + 1 <= Cardinality(RatePairs(g, s, kept[1]))
        BY <4>1 DEF Backed
      <4>7. RatePairs(g, s, kept[1]) \subseteq RatePairs(g, s, from)
        BY <4>4, <4>5, <3>1, <1>1, RatePairsSince
      <4>8. /\ Cardinality(RatePairs(g, s, kept[1])) <= Cardinality(RatePairs(g, s, from))
            /\ IsFiniteSet(RatePairs(g, s, kept[1]))
        BY <4>7, <3>2, FS_Subset
      <4>9. Cardinality(RatePairs(g, s, kept[1])) \in Nat
        BY <4>8, FS_CardinalityType
      <4> QED
        BY <4>1, <4>6, <4>8, <4>9, <3>3, <2>1, <1>5
    <3> QED
      BY <3>4, <3>5, <2>1
  <2>4. ASSUME n > 0, OneForm(q, 1, j), x.fate = "stored", SharesNone(g, k)
        PROVE  x.severity = "MEDIUM"
    <3>1. Len(kept) = n
      <4>1. Matched(x)
        BY <2>4 DEF Matched
      <4> QED
        BY <4>1, <2>1, <2>4, <1>5, <1>6, <1>9, <1>14
    <3>2. x.severity = Severity(n, n)
      BY <1>0, <3>1, <2>4, <1>14 DEF RateLook, n
    <3>3. Severity(n, n) = "MEDIUM"
      BY <2>1, <2>4 DEF Severity
    <3> QED
      BY <3>2, <3>3
  <2>5. k[2] = s
    OBVIOUS
  <2>6. Matched(q[j]) =>
          LET from == IF q[j].at > q[j].form.window THEN q[j].at - q[j].form.window ELSE 0
          IN  Cardinality(RatePairs(g, k[2], from)) >= n
    BY <2>1, <2>3, <2>5, <1>3, <1>4
  <2> QED
    BY <2>1, <2>2, <2>4, <2>6, <1>3 DEF RateMatches
<1> QED
  BY <1>13, <1>14 DEF q, j, n
----------------------------------------------------------------------------
(* A rule looks at a packet: T, L and h become U, M and g.                 *)
Slots == (RuleIds \cup {None}) \X Sources

Looked(T, L, r, s, x, U, M) ==
  LET key   == KeyOf(r, s)
      check == Check(r, T[key])
  IN  /\ x \in LookSet /\ x.at = now /\ x.form = rules[r]
      /\ x.form.type \in {"SIGNATURE", "RATE_LIMIT", "GEO_BLOCK"}
      /\ U = [T EXCEPT ![key] = check.times]
      /\ Matched(x) <=> check.match
      /\ M = IF check.match THEN Remember(L, r, s) ELSE L
      /\ x.fate = "silenced" => Silenced(L, r, s)
      /\ x.fate = "stored" => x.severity = Severity(check.count, Threshold(r))

LEMMA SlotTypes ==
  ASSUME NEW r \in RuleIds, NEW s \in Sources
  PROVE  /\ <<r, s>> \in Pairs /\ <<r, s>> \in Slots /\ <<None, s>> \in Slots
         /\ \A k \in Pairs : /\ k \in Slots /\ k # <<None, s>>
                             /\ <<None, k[2]>> \in Slots /\ k[2] \in Sources
         /\ \A id \in RuleIds : id # None
  BY DetectorAssumption DEF Pairs, Slots

(* What a look does to the times. *)
LEMMA SignatureTimes ==
  ASSUME NEW T \in [Slots -> Seq(Nat)], NEW L, NEW r \in RuleIds, NEW s \in Sources, NEW x,
         NEW U, NEW M, Looked(T, L, r, s, x, U, M), x.form.type = "SIGNATURE",
         NEW kept, kept = PruneWindow(T[<<r, s>>], x.form.window)
  PROVE  /\ U = [T EXCEPT ![<<r, s>>] = Append(kept, now)]
         /\ Matched(x) <=> Len(kept) + 1 >= x.form.limit
<1>1. rules[r].type = "SIGNATURE" /\ x.form = rules[r]
  BY DEF Looked
<1>2. KeyOf(r, s) = <<r, s>>
  BY <1>1 DEF KeyOf
<1>. DEFINE check == CheckThreshold(kept, x.form.limit)
<1>3. Check(r, T[<<r, s>>]) = check
  BY <1>1 DEF Check
<1>4. U = [T EXCEPT ![<<r, s>>] = check.times] /\ (Matched(x) <=> check.match)
  BY <1>2, <1>3 DEF Looked
<1> QED
  BY <1>4 DEF CheckThreshold

SharedTimes(T, s, x, kept, U) ==
  \E after : U = [T EXCEPT ![<<None, s>>] = after] /\ RateLook(x, kept, after)

LEMMA RateTimes ==
  ASSUME NEW T \in [Slots -> Seq(Nat)], NEW L, NEW r \in RuleIds, NEW s \in Sources, NEW x,
         NEW U, NEW M, Looked(T, L, r, s, x, U, M), IsRate(x),
         NEW kept, kept = PruneWindow(T[<<None, s>>], x.form.window)
  PROVE  SharedTimes(T, s, x, kept, U)
<1>1. rules[r].type = "RATE_LIMIT" /\ x.form = rules[r]
  BY DEF Looked, IsRate
<1>2. KeyOf(r, s) = <<None, s>>
  BY <1>1 DEF KeyOf
<1>. DEFINE check == CheckRateLimit(kept, x.form.limit)
<1>3. Check(r, T[<<None, s>>]) = check
  BY <1>1 DEF Check
<1>4. Threshold(r) = x.form.limit
  BY <1>1 DEF Threshold
<1>5. /\ x.at = now
      /\ U = [T EXCEPT ![<<None, s>>] = check.times]
      /\ Matched(x) <=> check.match
      /\ x.fate = "stored" => x.severity = Severity(check.count, x.form.limit)
  BY <1>2, <1>3, <1>4 DEF Looked
<1>6. RateLook(x, kept, check.times)
  BY <1>5 DEF RateLook, CheckRateLimit
<1> QED
  BY <1>5, <1>6 DEF SharedTimes

LEMMA CountryTimes ==
  ASSUME NEW T \in [Slots -> Seq(Nat)], NEW L, NEW r \in RuleIds, NEW s \in Sources, NEW x,
         NEW U, NEW M, Looked(T, L, r, s, x, U, M), x.form.type = "GEO_BLOCK"
  PROVE  U = T
<1>1. rules[r].type = "GEO_BLOCK" /\ x.form = rules[r]
  BY DEF Looked
<1>2. KeyOf(r, s) = <<r, s>>
  BY <1>1 DEF KeyOf
<1>3. Check(r, T[<<r, s>>]) = CheckAtOnce(T[<<r, s>>])
  BY <1>1 DEF Check
<1>4. <<r, s>> \in Slots
  BY SlotTypes
<1> QED
  BY <1>2, <1>3, <1>4 DEF Looked, CheckAtOnce

(* What it does to the memory of matches. *)
Memory(L, k, x, M) ==
  /\ M \in [Pairs -> {now} \cup Nat \cup {None}]
  /\ \A i \in Pairs : i # k => M[i] = L[i]
  /\ M[k] = IF Matched(x) /\ x.form.suppression > 0 THEN x.at ELSE L[k]
  /\ x.fate = "silenced" =>
       x.form.suppression > 0 /\ L[k] # None /\ x.at - L[k] <= x.form.suppression

LEMMA LookMemory ==
  ASSUME NEW T, NEW L \in [Pairs -> Nat \cup {None}], NEW r \in RuleIds, NEW s \in Sources, NEW x,
         NEW U, NEW M, Looked(T, L, r, s, x, U, M)
  PROVE  Memory(L, <<r, s>>, x, M)
<1>1. <<r, s>> \in Pairs
  BY SlotTypes
<1>2. /\ x.form = rules[r] /\ x.at = now
      /\ M = IF Matched(x) THEN Remember(L, r, s) ELSE L
  BY DEF Looked
<1>3. M = IF Matched(x) /\ x.form.suppression > 0 THEN [L EXCEPT ![<<r, s>>] = now] ELSE L
  BY <1>2 DEF Remember
<1>4. x.fate = "silenced" => Silenced(L, r, s)
  BY DEF Looked
<1>5. CASE Matched(x) /\ x.form.suppression > 0
  BY <1>1, <1>2, <1>3, <1>4, <1>5 DEF Silenced, Memory
<1>6. CASE ~(Matched(x) /\ x.form.suppression > 0)
  <2>1. M = L
    BY <1>3, <1>6
  <2> QED
    BY <2>1, <1>2, <1>4, <1>6 DEF Silenced, Memory
<1> QED
  BY <1>5, <1>6

(* What is kept stays well formed. *)
LEMMA ShapeStep ==
  ASSUME NEW T, NEW L, NEW h, Shape(now, T, L, h), NEW r \in RuleIds, NEW s \in Sources,
         NEW x \in LookSet, x.at = now, NEW g, Grown(h, g, r, s, x),
         NEW key \in Slots, NEW after, Ascending(after, now), NEW U, U = [T EXCEPT ![key] = after],
         NEW M \in [Pairs -> Nat \cup {None}],
         \A k \in Pairs : M[k] = L[k] \/ M[k] = now
  PROVE  Shape(now, U, M, g)
<1>1. /\ now \in Nat /\ T \in [Slots -> Seq(Nat)]
      /\ \A k \in Slots : Ascending(T[k], now)
      /\ \A k \in Pairs : L[k] \in {None} \cup 0..now
      /\ \A k \in Pairs : Aging(h[k], now)
      /\ History(h)
  BY DEF Shape, Slots, History
<1>2. LookAdded(h, g, r, s, x) /\ History(g)
  BY <1>1, HistoryGrown
<1>3. after \in Seq(Nat)
  BY DEF Ascending
<1>4. U \in [Slots -> Seq(Nat)] /\ \A k \in Slots : Ascending(U[k], now)
  BY <1>1, <1>3
<1>5. \A k \in Pairs : M[k] \in {None} \cup 0..now
  BY <1>1
<1>6. ASSUME NEW k \in Pairs
      PROVE  Aging(g[k], now)
  <2>1. CASE k # <<r, s>>
    BY <2>1, <1>1, <1>2 DEF LookAdded
  <2>2. CASE k = <<r, s>>
    <3>. DEFINE p == h[k]
                q == g[k]
    <3>1. q = Append(p, x) /\ p \in Seq(LookSet) /\ Aging(p, now)
      BY <2>2, <1>1, <1>2 DEF LookAdded
    <3>. HIDE DEF p, q
    <3>2. /\ q \in Seq(LookSet) /\ Len(q) = Len(p) + 1 /\ Len(p) \in Nat
          /\ q[Len(p) + 1] = x
          /\ \A i \in 1..Len(p) : q[i] = p[i]
      BY <3>1, Appended
    <3>3. \A i \in 1..Len(q) : i = Len(p) + 1 \/ i \in 1..Len(p)
      BY <3>2
    <3>4. /\ \A i \in 1..Len(p) : p[i].at <= now
          /\ \A i, j \in 1..Len(p) : i <= j => p[i].at <= p[j].at
      BY <3>1 DEF Aging
    <3>5. \A i \in 1..Len(q) : q[i].at <= now
      BY <3>2, <3>3, <3>4, <1>1
    <3>6. ASSUME NEW i \in 1..Len(q), NEW j \in 1..Len(q), i <= j
          PROVE  q[i].at <= q[j].at
      <4>1. CASE j = Len(p) + 1
        BY <4>1, <3>2, <3>5
      <4>2. CASE j # Len(p) + 1
        <5>1. j \in 1..Len(p) /\ i \in 1..Len(p)
          BY <4>2, <3>2, <3>6
        <5> QED
          BY <5>1, <3>2, <3>4, <3>6
      <4> QED
        BY <4>1, <4>2
    <3> QED
      BY <3>2, <3>5, <3>6 DEF Aging, q
  <2> QED
    BY <2>1, <2>2
<1> QED
  BY <1>1, <1>2, <1>4, <1>5, <1>6 DEF Shape, Slots, History

(* One look keeps the invariant of the detector. *)
LEMMA LookStep ==
  ASSUME NEW T, NEW L, NEW h, DetInv(now, T, L, h), NEW r \in RuleIds, NEW s \in Sources, NEW x,
         NEW U, NEW M, NEW g, Looked(T, L, r, s, x, U, M), Grown(h, g, r, s, x)
  PROVE  DetInv(now, U, M, g)
<1>. DEFINE k == <<r, s>>
            B == T[<<None, s>>]
            C == U[<<None, s>>]
<1>1. /\ Shape(now, T, L, h) /\ now \in Nat /\ History(h)
      /\ T \in [Slots -> Seq(Nat)] /\ L \in [Pairs -> Nat \cup {None}]
      /\ \A i \in Slots : Ascending(T[i], now)
      /\ \A i \in Pairs : Aging(h[i], now)
  BY DEF DetInv, Shape, Slots, History
<1>2. /\ \A i \in Pairs : Quiet(h[i], L[i]) /\ Counted(h[i], T[i]) /\ Judged(h, i)
      /\ \A i \in Pairs : RateInv(now, h, i, T[<<None, i[2]>>])
      /\ \A i \in Sources : Backed(h, i, T[<<None, i>>])
  BY DEF DetInv
<1>3. /\ x \in LookSet /\ x.at = now
      /\ x.form.type \in {"SIGNATURE", "RATE_LIMIT", "GEO_BLOCK"}
  BY DEF Looked
<1>4. /\ k \in Pairs /\ k \in Slots /\ <<None, s>> \in Slots /\ k # <<None, s>>
      /\ \A i \in Pairs : /\ i \in Slots /\ i # <<None, s>>
                          /\ <<None, i[2]>> \in Slots /\ i[2] \in Sources
      /\ \A i \in Slots : i # <<None, s>> => TRUE
  BY SlotTypes
<1>5. LookAdded(h, g, r, s, x) /\ History(g)
  BY <1>1, <1>3, HistoryGrown
<1>6. ASSUME NEW source \in Sources
      PROVE  RatePairsAdded(h, g, s, x, source)
  <2>1. IsFiniteSet(RatePairs(h, source, 0))
    BY <1>2 DEF Backed
  <2> QED
    BY <2>1, <1>1, <1>3, RatePairsGrown
<1>7. /\ g[k] = Append(h[k], x) /\ h[k] \in Seq(LookSet) /\ g[k] # <<>>
      /\ g[k][Len(g[k])] = x
      /\ \A i \in Pairs : i # k => g[i] = h[i]
  <2>1. /\ g[k] = Append(h[k], x) /\ h[k] \in Seq(LookSet)
        /\ \A i \in Pairs : i # k => g[i] = h[i]
    BY <1>5 DEF LookAdded
  <2>. HIDE DEF k
  <2>2. g[k] # <<>> /\ Len(g[k]) = Len(h[k]) + 1 /\ g[k][Len(h[k]) + 1] = x
    BY <2>1, <1>3, Appended
  <2> QED
    BY <2>1, <2>2
<1>8. /\ M \in [Pairs -> {now} \cup Nat \cup {None}]
      /\ \A i \in Pairs : i # k => M[i] = L[i]
      /\ M[k] = IF Matched(x) /\ x.form.suppression > 0 THEN x.at ELSE L[k]
      /\ x.fate = "silenced" =>
           x.form.suppression > 0 /\ L[k] # None /\ x.at - L[k] <= x.form.suppression
  <2>1. Memory(L, k, x, M)
    BY <1>1, LookMemory
  <2>. HIDE DEF k
  <2> QED
    BY <2>1 DEF Memory
<1>9. Quiet(g[k], M[k]) /\ Explained(g[k], Len(g[k]))
  <2>1. L[k] \in Nat \cup {None} /\ Quiet(h[k], L[k])
    BY <1>1, <1>2, <1>4
  <2>. HIDE DEF k
  <2>2. g[k] = Append(h[k], x) /\ h[k] \in Seq(LookSet) /\ x \in LookSet
    BY <1>3, <1>7
  <2>3. /\ M[k] = IF Matched(x) /\ x.form.suppression > 0 THEN x.at ELSE L[k]
        /\ x.fate = "silenced" =>
             x.form.suppression > 0 /\ L[k] # None /\ x.at - L[k] <= x.form.suppression
    BY <1>8
  <2> QED
    BY <2>1, <2>2, <2>3, QuietStep
<1>10. \A i \in Pairs : i # k /\ Judged(h, i) => Judged(g, i)
  BY <1>1, <1>3, <1>4, <1>6, JudgedKept
<1>. HIDE DEF k, B, C
(* What each kind of rule does to the times. *)
<1>11. /\ \E key \in Slots : \E after : Ascending(after, now) /\ U = [T EXCEPT ![key] = after]
       /\ \A i \in Pairs : i # k => U[i] = T[i]
       /\ \A source \in Sources : source # s => U[<<None, source>>] = T[<<None, source>>]
       /\ Counted(g[k], U[k]) /\ ThresholdMatches(g[k], Len(g[k]))
       /\ Backed(g, s, C)
       /\ \A i \in Pairs : i[2] = s => RateInv(now, g, i, C)
       /\ IsRate(x) /\ x.form.limit # None =>
            RateMatches(g, k, g[k], Len(g[k]), x.form.limit)
  <2>1. ASSUME ~IsRate(x)
        PROVE  /\ Backed(g, s, B)
               /\ \A i \in Pairs : i[2] = s => RateInv(now, g, i, B)
    <3>1. B \in Seq(Nat) /\ Backed(h, s, B)
      BY <1>1, <1>2, <1>4 DEF B
    <3>2. Backed(g, s, B)
      BY <3>1, <1>6, BackedKept
    <3>3. ASSUME NEW i \in Pairs, i[2] = s
          PROVE  RateInv(now, g, i, B)
      <4>1. RateInv(now, h, i, B)
        BY <1>2, <3>3 DEF B
      <4> QED
        BY <4>1, <2>1, <1>1, <1>3, RateInvKept
    <3> QED
      BY <3>2, <3>3
  <2>2. ASSUME x.form.type # "SIGNATURE", NEW q
        PROVE  Counted(g[k], q) /\ ThresholdMatches(g[k], Len(g[k]))
    BY <2>2, <1>7 DEF Counted, ThresholdMatches
  <2>3. /\ \A i \in Pairs : i # <<None, s>>
        /\ \A source \in Sources : <<None, source>> \in Slots /\ <<None, source>> # k
    BY <1>4, DetectorAssumption DEF Slots, k
  <2>4. CASE x.form.type = "SIGNATURE"
    <3>. DEFINE kept  == PruneWindow(T[k], x.form.window)
                after == Append(kept, now)
    <3>1. U = [T EXCEPT ![k] = after] /\ (Matched(x) <=> Len(kept) + 1 >= x.form.limit)
      BY <2>4, <1>1, SignatureTimes DEF k
    <3>2. x.form.window \in Nat /\ Ascending(T[k], now)
      BY <1>1, <1>3, <1>4, FormType
    <3>. HIDE DEF kept
    <3>3. Ascending(kept, now) /\ Len(kept) \in Nat
      <4>1. kept = PruneWindow(T[k], x.form.window)
        BY DEF kept
      <4>2. Ascending(kept, now)
        BY <4>1, <3>2, <1>1, Pruned DEF Cut
      <4> QED
        BY <4>2 DEF Ascending
    <3>. HIDE DEF after
    <3>4. Ascending(after, now) /\ Len(after) = Len(kept) + 1
      <4>1. Longer(kept, after, now)
        BY <3>3, <1>1, TimeAdded DEF after
      <4> QED
        BY <4>1 DEF Longer
    <3>5. Counted(g[k], after) /\ ThresholdMatches(g[k], Len(g[k]))
      <4>1. Aging(h[k], now) /\ Counted(h[k], T[k])
        BY <1>1, <1>2, <1>4
      <4>2. after = Append(PruneWindow(T[k], x.form.window), now)
        BY DEF after, kept
      <4>3. Matched(x) <=> Len(after) >= x.form.limit
        BY <3>1, <3>4
      <4>4. g[k] = Append(h[k], x)
        BY <1>7
      <4>5. now \in Nat /\ x \in LookSet /\ x.at = now /\ Ascending(T[k], now)
        BY <3>2, <1>1, <1>3
      <4>6. CountedLook(h[k], x, g[k], T[k], after)
        BY <4>1, <4>2, <4>3, <4>4, <4>5, <2>4 DEF CountedLook
      <4> QED
        BY <4>6, CountedStep
    <3>6. /\ U[k] = after
          /\ \A i \in Slots : i # k => U[i] = T[i]
      BY <3>1, <1>1, <1>4
    <3>7. ~IsRate(x)
      BY <2>4 DEF IsRate
    <3>8. C = B
      BY <3>6, <2>3 DEF B, C
    <3> QED
      BY <2>1, <2>3, <3>1, <3>4, <3>5, <3>6, <3>7, <3>8, <1>4
  <2>5. CASE x.form.type = "GEO_BLOCK"
    <3>1. U = T
      BY <2>5, <1>1, CountryTimes
    <3>2. U = [T EXCEPT ![k] = T[k]] /\ Ascending(T[k], now)
      BY <3>1, <1>1, <1>4
    <3>3. ~IsRate(x) /\ x.form.type # "SIGNATURE"
      BY <2>5 DEF IsRate
    <3>4. C = B
      BY <3>1 DEF B, C
    <3>5. Counted(g[k], U[k]) /\ ThresholdMatches(g[k], Len(g[k]))
      BY <3>3, <2>2
    <3> QED
      BY <2>1, <3>1, <3>2, <3>3, <3>4, <3>5, <1>4
  <2>6. CASE IsRate(x)
    <3>. DEFINE kept == PruneWindow(B, x.form.window)
    <3>1. x.form.window \in Nat /\ Ascending(B, now) /\ kept = PruneWindow(T[<<None, s>>], x.form.window)
      BY <1>1, <1>3, <1>4, FormType DEF B
    <3>. HIDE DEF kept
    <3>2. PICK after : U = [T EXCEPT ![<<None, s>>] = after] /\ RateLook(x, kept, after)
      <4>1. T \in [Slots -> Seq(Nat)] /\ kept = PruneWindow(T[<<None, s>>], x.form.window)
        BY <3>1, <1>1
      <4>2. SharedTimes(T, s, x, kept, U)
        BY <4>1, <2>6, RateTimes
      <4> QED
        BY <4>2 DEF SharedTimes
    <3>3. \E c : Cut(B, kept, c, x.form.window)
      <4>1. /\ kept = PruneWindow(B, x.form.window)
            /\ now \in Nat /\ x.form.window \in Nat /\ Ascending(B, now)
        BY <3>1, <1>1 DEF kept
      <4> QED
        BY <4>1, Pruned
    <3>4. PICK c : Cut(B, kept, c, x.form.window)
      BY <3>3
    <3>s. RateStep(h, g, r, s, x, B, kept, after)
      BY <3>1, <3>2, <3>3, <1>1, <1>3 DEF RateStep
    <3>5. Extended(kept, after) /\ Ascending(kept, now)
      BY <3>2, <3>4 DEF RateLook, Extended, Cut
    <3>6. Ascending(after, now)
      BY <3>5, <1>1, ExtendedTimes
    <3>7. /\ C = after
          /\ \A i \in Slots : i # <<None, s>> => U[i] = T[i]
      BY <3>2, <1>1, <1>4 DEF C
    <3>8. Backed(g, s, kept) /\ Backed(g, s, after)
      <4>1. Backed(h, s, B) /\ RatePairsAdded(h, g, s, x, s)
        BY <1>2, <1>6 DEF B
      <4> QED
        BY <4>1, <2>6, <3>1, <3>4, <3>5, <1>1, <1>3, BackedStep
    <3>9. /\ RateInv(now, g, k, after)
          /\ x.form.limit # None => RateMatches(g, k, g[k], Len(g[k]), x.form.limit)
      <4>1. RateInv(now, h, k, B) /\ Aging(h[k], now) /\ k = <<r, s>>
        BY <1>1, <1>2, <1>4 DEF B, k
      <4> QED
        BY <4>1, <3>s, <3>8, <1>4, OwnHeld
    <3>10. ASSUME NEW i \in Pairs, i[2] = s
           PROVE  RateInv(now, g, i, after)
      <4>1. CASE i = k
        BY <4>1, <3>9
      <4>2. CASE i # k
        <5>1. RateInv(now, h, i, B) /\ Aging(h[i], now) /\ i # <<r, s>>
          BY <4>2, <3>10, <1>1, <1>2 DEF B, k
        <5> QED
          BY <5>1, <3>s, <3>10, OthersHeld
      <4> QED
        BY <4>1, <4>2
    <3>11. Counted(g[k], U[k]) /\ ThresholdMatches(g[k], Len(g[k]))
      BY <2>2, <2>6 DEF IsRate
    <3>12. /\ \A i \in Pairs : i # k => U[i] = T[i]
           /\ \A source \in Sources : source # s => U[<<None, source>>] = T[<<None, source>>]
      <4>1. \A source \in Sources : source # s => <<None, source>> # <<None, s>>
        OBVIOUS
      <4> QED
        BY <4>1, <3>7, <2>3, <1>4
    <3>13. \E key \in Slots : \E a : Ascending(a, now) /\ U = [T EXCEPT ![key] = a]
      BY <3>2, <3>6, <1>4
    <3> QED
      BY <3>7, <3>8, <3>9, <3>10, <3>11, <3>12, <3>13
  <2> QED
    BY <2>4, <2>5, <2>6, <1>3 DEF IsRate
<1>12. Shape(now, U, M, g)
  <2>1. PICK key \in Slots : \E a : Ascending(a, now) /\ U = [T EXCEPT ![key] = a]
    BY <1>11
  <2>2. PICK after : Ascending(after, now) /\ U = [T EXCEPT ![key] = after]
    BY <2>1
  <2>3. M \in [Pairs -> Nat \cup {None}] /\ \A i \in Pairs : M[i] = L[i] \/ M[i] = now
    BY <1>1, <1>3, <1>8
  <2> QED
    BY <2>2, <2>3, <1>1, <1>3, ShapeStep
<1>13. ASSUME NEW i \in Pairs
       PROVE  Quiet(g[i], M[i]) /\ Counted(g[i], U[i])
  <2>1. CASE i = k
    BY <2>1, <1>9, <1>11
  <2>2. CASE i # k
    BY <2>2, <1>2, <1>7, <1>8, <1>11
  <2> QED
    BY <2>1, <2>2
<1>14. ASSUME NEW source \in Sources
       PROVE  Backed(g, source, U[<<None, source>>])
  <2>1. CASE source = s
    BY <2>1, <1>11 DEF C
  <2>2. CASE source # s
    <3>1. <<None, source>> \in Slots
      BY DEF Slots
    <3>2. T[<<None, source>>] \in Seq(Nat)
      BY <3>1, <1>1
    <3>3. Backed(g, source, T[<<None, source>>])
      BY <3>2, <1>2, <1>6, BackedKept
    <3> QED
      BY <2>2, <3>3, <1>11
  <2> QED
    BY <2>1, <2>2
<1>15. ASSUME NEW i \in Pairs
       PROVE  RateInv(now, g, i, U[<<None, i[2]>>])
  <2>1. CASE i[2] = s
    BY <2>1, <1>11 DEF C
  <2>2. CASE i[2] # s
    <3>1. i[2] \in Sources /\ U[<<None, i[2]>>] = T[<<None, i[2]>>]
      BY <2>2, <1>4, <1>11
    <3>2. RateInv(now, g, i, T[<<None, i[2]>>])
      BY <2>2, <1>1, <1>2, <1>3, RateInvKept
    <3> QED
      BY <3>1, <3>2
  <2> QED
    BY <2>1, <2>2
<1>16. ASSUME NEW i \in Pairs
       PROVE  Judged(g, i)
  <2>1. CASE i = k
    <3>1. g[k][Len(g[k])].form.type = "RATE_LIMIT" <=> IsRate(x)
      BY <1>7 DEF IsRate
    <3>2. Alerts(g, k)
      BY <3>1, <1>7, <1>11 DEF Alerts
    <3> QED
      BY <2>1, <3>2, <1>9 DEF Judged
  <2>2. CASE i # k
    BY <2>2, <1>2, <1>10
  <2> QED
    BY <2>1, <2>2
<1> QED
  BY <1>12, <1>13, <1>14, <1>15, <1>16 DEF DetInv
----------------------------------------------------------------------------
(* The walk of a packet keeps the invariant, rule by rule.                 *)
LEMMA Evaluated ==
  ASSUME now \in Nat, NEW st, NEW id \in RuleIds, NEW source \in Sources, rules[id] \in RuleForms,
         rules[id].type \in {"SIGNATURE", "RATE_LIMIT", "GEO_BLOCK"}, id \in DOMAIN st.looks,
         NEW next, next = EvaluateRule(st, id, source), NEW look, look = next.looks[id],
         NEW stop, NEW x, x = Remembered(look, id, Handled(look, id, source, stop))
  PROVE  /\ Looked(st.tracker, st.lastSeen, id, source, x, next.tracker, next.lastSeen)
         /\ look # Unseen
<1>. DEFINE key   == KeyOf(id, source)
            check == Check(id, st.tracker[key])
            fate  == Handled(look, id, source, stop)
<1>1. /\ next.tracker = [st.tracker EXCEPT ![key] = check.times]
      /\ next.lastSeen = IF check.match THEN Remember(st.lastSeen, id, source) ELSE st.lastSeen
      /\ next.looks = [st.looks EXCEPT ![id] =
           [count |-> check.count,
            fate  |-> IF ~check.match THEN "none"
                      ELSE IF Silenced(st.lastSeen, id, source) THEN "silenced" ELSE "reported"]]
  BY Zenon DEF EvaluateRule
<1>. HIDE DEF key, check
<1>2. /\ look.count = check.count
      /\ look.fate = IF ~check.match THEN "none"
                     ELSE IF Silenced(st.lastSeen, id, source) THEN "silenced" ELSE "reported"
  BY <1>1
<1>3. look # Unseen
  BY <1>2 DEF Unseen
<1>4. /\ fate \in Fates
      /\ fate # "none" <=> check.match
      /\ fate = "silenced" => Silenced(st.lastSeen, id, source)
  BY <1>2 DEF Handled, Fates
<1>. HIDE DEF fate
<1>5. /\ x.at = now /\ x.form = rules[id] /\ x.fate = fate
      /\ x.severity = IF fate = "stored" THEN Severity(look.count, Threshold(id)) ELSE None
      /\ x = [at |-> x.at, form |-> x.form, fate |-> x.fate, severity |-> x.severity]
  BY DEF Remembered, fate
<1>6. x.severity \in Severities
  BY <1>5 DEF Severity, Severities
<1>7. x \in LookSet
  BY <1>4, <1>5, <1>6 DEF LookSet
<1>8. Looked(st.tracker, st.lastSeen, id, source, x, next.tracker, next.lastSeen)
  BY <1>1, <1>2, <1>4, <1>5, <1>7 DEF Looked, Matched, key, check
<1> QED
  BY <1>3, <1>8

(* The rules that are walked, once each. *)
WalkOrder ==
  /\ order \in Seq(RuleIds)
  /\ \A i, j \in 1..Len(order) : order[i] = order[j] => i = j
  /\ \A i \in 1..Len(order) : order[i] \in DOMAIN rules
  /\ DOMAIN rules \subseteq {order[i] : i \in 1..Len(order)}
  /\ \A id \in DOMAIN rules : rules[id] \in RuleForms

Before(n) == {order[i] : i \in 1..n}

(* A rule's look at a packet is made at its place in the order. *)
LooksMade(w, n) ==
  /\ DOMAIN w[n].looks = RuleIds
  /\ \A id \in RuleIds \ Before(n) : w[n].looks[id] = Unseen
  /\ \A i \in 1..n : w[n].looks[order[i]] = w[i].looks[order[i]]

OneChange(looks, id, after) == \E look : after = [looks EXCEPT ![id] = look]

LEMMA OneLook ==
  ASSUME NEW st, NEW id, NEW source
  PROVE  OneChange(st.looks, id, EvaluateRule(st, id, source).looks)
<1>. DEFINE check == Check(id, st.tracker[KeyOf(id, source)])
<1>1. EvaluateRule(st, id, source).looks = [st.looks EXCEPT ![id] =
        [count |-> check.count,
         fate  |-> IF ~check.match THEN "none"
                   ELSE IF Silenced(st.lastSeen, id, source) THEN "silenced" ELSE "reported"]]
  BY Zenon DEF EvaluateRule
<1>. HIDE DEF check
<1> QED
  BY <1>1, Zenon DEF OneChange

LEMMA WalkLooks ==
  ASSUME WalkOrder, NEW source, NEW fits, NEW w, w = Walk(source, fits)
  PROVE  \A n \in 0..Len(order) : LooksMade(w, n)
<1>1. Len(order) \in Nat /\ \A i \in 1..Len(order) : order[i] \in RuleIds
  BY DEF WalkOrder
<1>2. /\ w[0] = Outset
      /\ \A i \in 1..Len(order) : w[i] = Stepped(w[i - 1], i, source, fits)
  BY <1>1, WalkStep
<1>. DEFINE S == {n \in Nat : n <= Len(order) => LooksMade(w, n)}
<1>3. 0 \in S
  <2>1. w[0].looks = [id \in RuleIds |-> Unseen]
    BY <1>2 DEF Outset
  <2>2. LooksMade(w, 0)
    BY <2>1 DEF LooksMade
  <2> QED
    BY <2>2
<1>4. ASSUME NEW n \in Nat, n \in S
      PROVE  n + 1 \in S
  <2>1. SUFFICES ASSUME n + 1 <= Len(order)
                 PROVE  LooksMade(w, n + 1)
    OBVIOUS
  <2>2. LooksMade(w, n) /\ n + 1 \in 1..Len(order) /\ (n + 1) - 1 = n
    BY <2>1, <1>1, <1>4
  <2>. DEFINE id == order[n + 1]
  <2>3. w[n + 1] = IF Looks(id, source, fits) THEN EvaluateRule(w[n], id, source) ELSE w[n]
    BY <2>2, <1>2 DEF Stepped
  <2>4. id \in RuleIds
    BY <2>2, <1>1
  <2>5. \A i \in 1..n : order[i] # id
    <3>1. \A i \in 1..n : i \in 1..Len(order) /\ i # n + 1
      BY <2>1, <1>1
    <3> QED
      BY <2>2, <3>1 DEF WalkOrder
  <2>6. Before(n + 1) = Before(n) \cup {id}
    <3>1. 1..n + 1 = 1..n \cup {n + 1}
      OBVIOUS
    <3> QED
      BY <3>1 DEF Before
  <2>. HIDE DEF id
  <2>8. /\ DOMAIN w[n + 1].looks = RuleIds
        /\ \A r \in RuleIds : r # id => w[n + 1].looks[r] = w[n].looks[r]
    <3>1. CASE Looks(id, source, fits)
      <4>0. OneChange(w[n].looks, id, EvaluateRule(w[n], id, source).looks)
        BY OneLook
      <4>1. PICK look : w[n + 1].looks = [w[n].looks EXCEPT ![id] = look]
        BY <2>3, <3>1, <4>0 DEF OneChange
      <4> QED
        BY <4>1, <2>2 DEF LooksMade
    <3>2. CASE ~Looks(id, source, fits)
      BY <2>2, <2>3, <3>2 DEF LooksMade
    <3> QED
      BY <3>1, <3>2
  <2>9. \A r \in RuleIds \ Before(n + 1) : w[n + 1].looks[r] = Unseen
    BY <2>2, <2>6, <2>8 DEF LooksMade
  <2>10. ASSUME NEW i \in 1..n + 1
         PROVE  w[n + 1].looks[order[i]] = w[i].looks[order[i]]
    <3>1. CASE i = n + 1
      BY <3>1
    <3>2. CASE i # n + 1
      <4>1. i \in 1..n /\ i \in 1..Len(order)
        BY <3>2, <2>1, <1>1
      <4>2. order[i] \in RuleIds /\ order[i] # id
        BY <4>1, <1>1, <2>5
      <4>3. w[n + 1].looks[order[i]] = w[n].looks[order[i]]
        BY <4>2, <2>8
      <4>4. w[n].looks[order[i]] = w[i].looks[order[i]]
        BY <4>1, <2>2 DEF LooksMade
      <4> QED
        BY <4>3, <4>4
    <3> QED
      BY <3>1, <3>2
  <2> QED
    BY <2>8, <2>9, <2>10 DEF LooksMade
<1>. HIDE DEF S
<1>5. Nat \subseteq S
  BY <1>3, <1>4, SetInduction
<1> QED
  BY <1>1, <1>5 DEF S

(* The history between the rules of a walk: before is the history before the packet and
   after the one behind it. *)
Between(before, after, n) ==
  [k \in Pairs |-> IF k[1] \in Before(n) THEN after[k] ELSE before[k]]

Ended(before, w, n, source, stop) ==
  [k \in DOMAIN before |->
     LET look == w[n].looks[k[1]] IN
     IF k[2] # source \/ look = Unseen THEN before[k]
     ELSE Append(before[k], Remembered(look, k[1], Handled(look, k[1], source, stop)))]

LEMMA WalkInv ==
  ASSUME WalkOrder, DetInv(now, tracker, lastSeen, past), NEW source \in Sources, NEW fits,
         NEW w, w = Walk(source, fits), NEW stop,
         NEW after, after = Ended(past, w, Len(order), source, stop)
  PROVE  DetInv(now, w[Len(order)].tracker, w[Len(order)].lastSeen, after)
<1>. DEFINE N == Len(order)
            Done(n) == DetInv(now, w[n].tracker, w[n].lastSeen, Between(past, after, n))
            S == {n \in Nat : n <= N => Done(n)}
<1>1. N \in Nat /\ \A i \in 1..N : order[i] \in RuleIds
  BY DEF WalkOrder
<1>2. /\ w[0] = Outset
      /\ \A i \in 1..N : w[i] = Stepped(w[i - 1], i, source, fits)
  BY <1>1, WalkStep
<1>3. \A n \in 0..N : LooksMade(w, n)
  BY WalkLooks
<1>4. now \in Nat /\ past \in [Pairs -> Seq(LookSet)]
  BY DEF DetInv, Shape
<1>5. /\ after = [k \in Pairs |-> after[k]]
      /\ \A k \in Pairs : k[2] # source \/ w[N].looks[k[1]] = Unseen => after[k] = past[k]
      /\ \A k \in Pairs : k[2] = source /\ w[N].looks[k[1]] # Unseen =>
           after[k] = Append(past[k],
             Remembered(w[N].looks[k[1]], k[1], Handled(w[N].looks[k[1]], k[1], source, stop)))
  <2>1. DOMAIN past = Pairs
    BY <1>4
  <2> QED
    BY <2>1 DEF Ended
<1>6. 0 \in S
  <2>1. Before(0) = {}
    BY DEF Before
  <2>2. Between(past, after, 0) = past
    BY <2>1, <1>4 DEF Between
  <2>3. w[0].tracker = tracker /\ w[0].lastSeen = lastSeen
    BY <1>2 DEF Outset
  <2> QED
    BY <2>2, <2>3
<1>7. ASSUME NEW n \in Nat, n \in S
      PROVE  n + 1 \in S
  <2>1. SUFFICES ASSUME n + 1 <= N
                 PROVE  Done(n + 1)
    OBVIOUS
  <2>. DEFINE id == order[n + 1]
              h == Between(past, after, n)
              g == Between(past, after, n + 1)
  <2>2. /\ Done(n) /\ n + 1 \in 1..N /\ n \in 0..N /\ N \in 0..N /\ n + 1 \in 0..N
        /\ (n + 1) - 1 = n
    BY <2>1, <1>1, <1>7
  <2>3. w[n + 1] = IF Looks(id, source, fits) THEN EvaluateRule(w[n], id, source) ELSE w[n]
    BY <2>2, <1>2 DEF Stepped
  <2>4. id \in RuleIds /\ id \in DOMAIN rules /\ rules[id] \in RuleForms
    BY <2>2 DEF WalkOrder
  <2>5. id \notin Before(n)
    <3>1. \A i \in 1..n : i \in 1..N /\ i # n + 1
      BY <2>1, <1>1
    <3>2. \A i \in 1..n : order[i] # id
      BY <2>2, <3>1 DEF WalkOrder
    <3> QED
      BY <3>2 DEF Before
  <2>6. Before(n + 1) = Before(n) \cup {id}
    <3>1. 1..n + 1 = 1..n \cup {n + 1}
      OBVIOUS
    <3> QED
      BY <3>1 DEF Before
  <2>7. w[N].looks[id] = w[n + 1].looks[id]
    BY <2>2, <1>3 DEF LooksMade
  <2>8. w[n].looks[id] = Unseen /\ id \in DOMAIN w[n].looks
    BY <2>2, <2>4, <2>5, <1>3 DEF LooksMade
  <2>. HIDE DEF id
  <2>9. \A k \in Pairs : /\ h[k] = IF k[1] \in Before(n) THEN after[k] ELSE past[k]
                         /\ g[k] = IF k[1] \in Before(n) \/ k[1] = id THEN after[k] ELSE past[k]
    BY <2>6 DEF Between
  <2>10. h = [k \in Pairs |-> h[k]] /\ g = [k \in Pairs |-> g[k]]
    BY DEF Between
  <2>11. DetInv(now, w[n].tracker, w[n].lastSeen, h)
    BY <2>2
  <2>. HIDE DEF h, g
  <2>12. CASE ~Looks(id, source, fits)
    <3>1. w[n + 1] = w[n] /\ w[N].looks[id] = Unseen
      BY <2>3, <2>7, <2>8, <2>12
    <3>2. \A k \in Pairs : k[1] = id => after[k] = past[k]
      BY <3>1, <1>5
    <3>3. \A k \in Pairs : g[k] = h[k]
      BY <3>2, <2>9
    <3>4. g = h
      BY <3>3, <2>10
    <3> QED
      BY <3>1, <3>4, <2>11 DEF g
  <2>13. CASE Looks(id, source, fits)
    <3>. DEFINE look == w[N].looks[id]
                x == Remembered(look, id, Handled(look, id, source, stop))
    <3>1. /\ w[n + 1] = EvaluateRule(w[n], id, source) /\ look = w[n + 1].looks[id]
          /\ rules[id].type \in {"SIGNATURE", "RATE_LIMIT", "GEO_BLOCK"}
      BY <2>3, <2>7, <2>13 DEF Looks
    <3>. HIDE DEF look
    <3>2. x = Remembered(look, id, Handled(look, id, source, stop))
      OBVIOUS
    <3>. HIDE DEF x
    <3>3. /\ Looked(w[n].tracker, w[n].lastSeen, id, source, x, w[n + 1].tracker, w[n + 1].lastSeen)
          /\ look # Unseen
      BY <3>1, <3>2, <2>4, <2>8, <1>4, Evaluated
    <3>4. <<id, source>> \in Pairs
      BY <2>4 DEF Pairs
    <3>5. /\ after[<<id, source>>] = Append(past[<<id, source>>], x)
          /\ \A k \in Pairs : k[1] = id /\ k # <<id, source>> => after[k] = past[k]
      <4>1. after[<<id, source>>] = Append(past[<<id, source>>], x)
        BY <3>2, <3>3, <3>4, <1>5 DEF look
      <4>2. \A k \in Pairs : k[1] = id /\ k # <<id, source>> => k[2] # source
        BY DEF Pairs
      <4> QED
        BY <4>1, <4>2, <1>5
    <3>6. /\ g[<<id, source>>] = Append(h[<<id, source>>], x)
          /\ \A k \in Pairs : k # <<id, source>> => g[k] = h[k]
      <4>1. h[<<id, source>>] = past[<<id, source>>] /\ g[<<id, source>>] = after[<<id, source>>]
        BY <2>5, <2>9, <3>4 DEF id
      <4>2. \A k \in Pairs : k # <<id, source>> => g[k] = h[k]
        BY <2>9, <3>5
      <4> QED
        BY <4>1, <4>2, <3>5
    <3>7. Grown(h, g, id, source, x)
      BY <3>4, <3>6, <2>10 DEF Grown
    <3>8. DetInv(now, w[n + 1].tracker, w[n + 1].lastSeen, g)
      BY <3>3, <3>7, <2>4, <2>11, LookStep
    <3> QED
      BY <3>8 DEF g
  <2> QED
    BY <2>12, <2>13
<1>. HIDE DEF S
<1>8. Nat \subseteq S
  BY <1>6, <1>7, SetInduction
<1>9. Done(N)
  BY <1>1, <1>8 DEF S
<1>10. Between(past, after, N) = after
  <2>1. ASSUME NEW k \in Pairs
        PROVE  (IF k[1] \in Before(N) THEN after[k] ELSE past[k]) = after[k]
    <3>1. k[1] \in RuleIds
      BY DEF Pairs
    <3>2. CASE k[1] \in Before(N)
      BY <3>2
    <3>3. CASE k[1] \notin Before(N)
      <4>1. w[N].looks[k[1]] = Unseen
        BY <3>1, <3>3, <1>1, <1>3 DEF LooksMade
      <4> QED
        BY <3>3, <4>1, <1>5
    <3> QED
      BY <3>2, <3>3
  <2>2. Between(past, after, N) = [k \in Pairs |-> after[k]]
    BY <2>1 DEF Between
  <2> QED
    BY <2>2, <1>5
<1> QED
  BY <1>9, <1>10
----------------------------------------------------------------------------
(* The pipeline.                                                           *)
Places == {"none", "waiting", "cancelled", "done"}

(* A pipeline that runs has a worker that waits, unless it was set running by the producer. *)
PipelineInv ==
  /\ running \in BOOLEAN /\ unserved \in BOOLEAN
  /\ depth \in 0..MaxDepth /\ drained \in Nat /\ arrived \in Nat
  /\ metrics \in [received: Nat, processed: Nat, dropped: Nat]
  /\ worker \in [Tasks -> Places]
  /\ crew \subseteq Tasks /\ hand \subseteq Live /\ IsFiniteSet(hand)
  /\ metrics.received = metrics.processed + drained + depth + Cardinality(hand)
  /\ metrics.received + metrics.dropped = arrived
  /\ running /\ ~unserved => \E t \in Tasks : worker[t] = "waiting"

DetectorInv == WalkOrder /\ DetInv(now, tracker, lastSeen, past)

SensorInv == DetectorInv /\ PipelineInv

LEMMA PipelineTypes ==
  ASSUME PipelineInv
  PROVE  /\ Cardinality(hand) \in Nat /\ MaxDepth \in Nat /\ depth \in Nat
         /\ metrics.received \in Nat /\ metrics.processed \in Nat /\ metrics.dropped \in Nat
         /\ metrics = [received |-> metrics.received, processed |-> metrics.processed,
                       dropped |-> metrics.dropped]
         /\ hand \subseteq Tasks
  BY FS_CardinalityType, PipelineAssumption DEF PipelineInv, Live

LEMMA PipelineStart ==
  ASSUME PipelineInit
  PROVE  PipelineInv
<1>1. IsFiniteSet(hand) /\ Cardinality(hand) = 0
  BY FS_EmptySet DEF PipelineInit
<1>2. /\ worker \in [Tasks -> Places] /\ depth \in 0..MaxDepth
      /\ crew \subseteq Tasks /\ hand \subseteq Live
  BY PipelineAssumption DEF PipelineInit, Places, Live
<1>3. /\ metrics \in [received: Nat, processed: Nat, dropped: Nat]
      /\ metrics.received = metrics.processed + drained + depth + Cardinality(hand)
      /\ metrics.received + metrics.dropped = arrived
      /\ drained \in Nat /\ arrived \in Nat
  BY <1>1 DEF PipelineInit
<1> QED
  BY <1>1, <1>2, <1>3 DEF PipelineInit, PipelineInv

LEMMA OfferStep ==
  ASSUME PipelineInv, Offer, PacketsOnly
  PROVE  PipelineInv'
<1>1. CASE depth < MaxDepth
  BY <1>1, PipelineTypes DEF PipelineInv, Offer, PacketsOnly, Live
<1>2. CASE ~(depth < MaxDepth)
  BY <1>2, PipelineTypes DEF PipelineInv, Offer, PacketsOnly, Live
<1> QED
  BY <1>1, <1>2

LEMMA TakeStep ==
  ASSUME PipelineInv, NEW t \in Tasks, Take(t)
  PROVE  PipelineInv'
<1>1. IsFiniteSet(hand \cup {t}) /\ Cardinality(hand \cup {t}) = Cardinality(hand) + 1
  BY FS_AddElement DEF PipelineInv, Take
<1>2. t \in Live
  BY DEF Take, Live
<1> QED
  BY <1>1, <1>2, PipelineTypes DEF PipelineInv, Take, Live

LEMMA ProcessedStep ==
  ASSUME PipelineInv, NEW t \in Tasks, Processed(t)
  PROVE  PipelineInv'
<1>1. IsFiniteSet(hand \ {t}) /\ Cardinality(hand \ {t}) = Cardinality(hand) - 1
  BY FS_RemoveElement DEF PipelineInv, Processed
<1>2. worker' = [worker EXCEPT ![t] = IF running THEN "waiting" ELSE "done"]
  BY DEF Processed
<1>3. worker' \in [Tasks -> Places]
  BY <1>2 DEF PipelineInv, Places
<1>4. \A u \in Tasks : u # t => worker'[u] = worker[u]
  BY <1>2 DEF PipelineInv
<1>5. hand' \subseteq Live'
  BY <1>4 DEF PipelineInv, Processed, Live
<1>6. /\ metrics' = [received |-> metrics.received, processed |-> metrics.processed + 1,
                     dropped |-> metrics.dropped]
  BY PipelineTypes DEF Processed
<1>7. running => worker'[t] = "waiting"
  BY <1>2 DEF PipelineInv
<1> QED
  BY <1>1, <1>3, <1>5, <1>6, <1>7, PipelineTypes DEF PipelineInv, Processed

LEMMA WorkerEndsStep ==
  ASSUME PipelineInv, NEW t \in Tasks, WorkerEnds(t)
  PROVE  PipelineInv'
<1>1. worker' = [worker EXCEPT ![t] = "done"] /\ worker' \in [Tasks -> Places]
  BY DEF WorkerEnds, PipelineInv, Places
<1>2. \A u \in Tasks : u # t => worker'[u] = worker[u]
  BY <1>1 DEF PipelineInv
<1>3. hand' \subseteq Live'
  BY <1>2 DEF PipelineInv, WorkerEnds, Live
<1>4. running' /\ ~unserved' => \E u \in Tasks : worker'[u] = "waiting"
  <2>1. SUFFICES ASSUME running, ~unserved
                 PROVE  \E u \in Tasks : worker'[u] = "waiting"
    BY DEF WorkerEnds
  <2>2. PICK u \in Tasks : worker[u] = "waiting"
    BY <2>1 DEF PipelineInv
  <2>3. u # t
    BY <2>1, <2>2 DEF WorkerEnds
  <2> QED
    BY <2>2, <2>3, <1>2
<1> QED
  BY <1>1, <1>3, <1>4 DEF PipelineInv, WorkerEnds

LEMMA LifeStepInv ==
  ASSUME PipelineInv, LifeStep
  PROVE  PipelineInv'
<1>1. CASE StartProducer
  <2>1. running' \in BOOLEAN /\ unserved' \in BOOLEAN /\ (~unserved' => running /\ ~unserved)
    BY <1>1 DEF PipelineInv, StartProducer
  <2>2. hand' \subseteq Live'
    BY <1>1 DEF PipelineInv, StartProducer, Live
  <2> QED
    BY <2>1, <2>2, <1>1 DEF PipelineInv, StartProducer
<1>p. CASE ProducerStops
  BY <1>p DEF PipelineInv, ProducerStops, Live
<1>2. CASE Start
  <2>1. PICK new \in kSubset(NumWorkers, Spare) :
          /\ crew' = new
          /\ worker' = [t \in Tasks |-> IF t \in new THEN "waiting" ELSE worker[t]]
    BY <1>2 DEF Start
  <2>2. new \subseteq Spare /\ Cardinality(new) = NumWorkers
    BY <2>1 DEF kSubset
  <2>3. new # {}
    BY <2>2, FS_EmptySet, PipelineAssumption
  <2>4. worker' \in [Tasks -> Places] /\ crew' \subseteq Tasks
    BY <2>1, <2>2 DEF PipelineInv, Places, Spare
  <2>5. \E t \in Tasks : worker'[t] = "waiting"
    BY <2>1, <2>2, <2>3 DEF Spare
  <2>6. hand' \subseteq Live'
    BY <2>1, <1>2 DEF Start, PipelineInv, Live
  <2> QED
    BY <2>4, <2>5, <2>6, <1>2 DEF Start, PipelineInv
<1>3. CASE Stop
  <2>1. worker' \in [Tasks -> Places]
    BY <1>3 DEF Stop, PipelineInv, Places
  <2>2. hand' \subseteq Live'
    BY <1>3 DEF Stop, PipelineInv, Live
  <2> QED
    BY <2>1, <2>2, <1>3 DEF Stop, PipelineInv
<1>4. CASE StopEnds
  <2>1. 0 \in 0..MaxDepth
    BY PipelineAssumption
  <2>2. drained' \in Nat /\ depth' = 0 /\ drained' = drained + depth
    BY <1>4, PipelineTypes DEF StopEnds, PipelineInv
  <2>3. metrics.received = metrics.processed + drained' + depth' + Cardinality(hand)
    BY <2>2, PipelineTypes DEF PipelineInv
  <2>4. hand' \subseteq Live'
    BY <1>4 DEF StopEnds, PipelineInv, Live
  <2> QED
    BY <2>1, <2>2, <2>3, <2>4, <1>4 DEF StopEnds, PipelineInv
<1> QED
  BY <1>1, <1>p, <1>2, <1>3, <1>4 DEF LifeStep

LEMMA PipelineIdle ==
  ASSUME PipelineInv, UNCHANGED pipelineVars
  PROVE  PipelineInv'
  BY DEF PipelineInv, pipelineVars, Live
----------------------------------------------------------------------------
(* The detector.                                                           *)
LEMMA DetectorStart ==
  ASSUME DetectorInit
  PROVE  DetectorInv
<1>. DEFINE none == <<>>
<1>1. /\ now = 0 /\ order = <<>> /\ rules = <<>>
      /\ tracker = [k \in Slots |-> <<>>]
      /\ lastSeen = [k \in Pairs |-> None]
      /\ past = [k \in Pairs |-> <<>>]
  BY DEF DetectorInit, Slots, Pairs
<1>2. WalkOrder
  <2>1. DOMAIN rules = {} /\ Len(order) = 0 /\ order \in Seq(RuleIds)
    BY <1>1
  <2> QED
    BY <2>1 DEF WalkOrder
<1>3. Shape(now, tracker, lastSeen, past)
  <2>1. Ascending(<<>>, 0) /\ Aging(<<>>, 0)
    BY DEF Ascending, Aging
  <2>2. /\ tracker \in [Slots -> Seq(Nat)] /\ lastSeen \in [Pairs -> Nat \cup {None}]
        /\ past \in [Pairs -> Seq(LookSet)]
    BY <1>1
  <2> QED
    BY <1>1, <2>1, <2>2 DEF Shape, Slots
<1>4. \A k \in Pairs : Quiet(past[k], lastSeen[k])
  BY <1>1 DEF Quiet
<1>5. \A k \in Pairs : Counted(past[k], tracker[k])
  <2>1. \A k \in Pairs : k \in Slots
    BY DEF Pairs, Slots
  <2> QED
    BY <1>1, <2>1 DEF Counted
<1>6. \A s \in Sources : tracker[<<None, s>>] = <<>>
  BY <1>1 DEF Slots
<1>7. ASSUME NEW s \in Sources
      PROVE  Backed(past, s, tracker[<<None, s>>])
  <2>1. RatePairs(past, s, 0) = {}
    <3>1. \A id \in RuleIds : past[<<id, s>>] = <<>>
      BY <1>1 DEF Pairs
    <3>2. \A id \in RuleIds : RateLooks(past, <<id, s>>, 0) = {}
      BY <3>1 DEF RateLooks
    <3> QED
      BY <3>2 DEF RatePairs
  <2>2. IsFiniteSet(RatePairs(past, s, 0))
    BY <2>1, FS_EmptySet
  <2> QED
    BY <2>2, <1>6 DEF Backed
<1>8. ASSUME NEW k \in Pairs
      PROVE  RateInv(now, past, k, tracker[<<None, k[2]>>]) /\ Judged(past, k)
  <2>1. past[k] = <<>> /\ tracker[<<None, k[2]>>] = <<>>
    BY <1>1, <1>6 DEF Pairs
  <2> QED
    BY <2>1 DEF RateInv, Limited, Judged
<1> QED
  BY <1>2, <1>3, <1>4, <1>5, <1>7, <1>8 DEF DetectorInv, DetInv

(* Time passes. *)
LEMMA LaterInv ==
  ASSUME NEW t, NEW T, NEW L, NEW h, DetInv(t, T, L, h)
  PROVE  DetInv(t + 1, T, L, h)
<1>1. t \in Nat /\ Shape(t, T, L, h) /\ History(h)
  BY DEF DetInv, Shape, History
<1>2. Shape(t + 1, T, L, h)
  <2>1. ASSUME NEW q, Ascending(q, t)
        PROVE  Ascending(q, t + 1)
    <3>1. \A i \in 1..Len(q) : q[i] <= t /\ q[i] \in Nat
      BY <2>1 DEF Ascending
    <3>2. \A i \in 1..Len(q) : q[i] <= t + 1
      BY <3>1, <1>1
    <3> QED
      BY <2>1, <3>2 DEF Ascending
  <2>2. ASSUME NEW p, Aging(p, t)
        PROVE  Aging(p, t + 1)
    <3>1. \A i \in 1..Len(p) : p[i] \in LookSet
      BY <2>2 DEF Aging
    <3>2. \A i \in 1..Len(p) : p[i].at \in Nat
      BY <3>1 DEF LookSet
    <3>3. \A i \in 1..Len(p) : p[i].at <= t + 1
      BY <2>2, <3>2, <1>1 DEF Aging
    <3> QED
      BY <2>2, <3>3 DEF Aging
  <2>3. \A k \in Pairs : L[k] \in {None} \cup 0..t + 1
    BY <1>1 DEF Shape
  <2>4. t + 1 \in Nat
    BY <1>1
  <2> QED
    BY <2>1, <2>2, <2>3, <2>4, <1>1 DEF Shape
<1>3. ASSUME NEW k \in Pairs, NEW B, RateInv(t, h, k, B)
      PROVE  RateInv(t + 1, h, k, B)
  <2>1. ASSUME NEW m \in 1..Len(h[k]), Held(t, h, k, B, m)
        PROVE  Held(t + 1, h, k, B, m)
    <3>. DEFINE f == h[k][Len(h[k])].form
    <3>1. h[k] \in Seq(LookSet) /\ Len(h[k]) \in 1..Len(h[k])
      BY <1>1, <2>1 DEF History
    <3>2. h[k][m].at \in Nat /\ f.window \in Nat
      BY <2>1, <3>1, FormType
    <3>3. (t + 1) - h[k][m].at <= f.window => t - h[k][m].at <= f.window
      BY <3>2, <1>1
    <3>4. ASSUME f.type = "RATE_LIMIT", f.limit # None, OneForm(h[k], m, Len(h[k])),
                 \A i \in m..Len(h[k]) : ~Matched(h[k][i]),
                 (t + 1) - h[k][m].at <= f.window,
                 ~SharesTimes(h, k, h[k][m].at, f.window)
          PROVE  /\ Len(B) >= Len(h[k]) - m + 1
                 /\ B[Len(B) - (Len(h[k]) - m)] >= h[k][m].at
      <4>1. t - h[k][m].at <= f.window
        BY <3>3, <3>4
      <4> QED
        BY <2>1, <3>4, <4>1 DEF Held
    <3> QED
      BY <3>4 DEF Held
  <2> QED
    BY <2>1, <1>3 DEF RateInv
<1> QED
  BY <1>2, <1>3 DEF DetInv

(* The rules are edited: what was seen stays, and each is walked once. *)
LEMMA AddRuleOrder ==
  ASSUME WalkOrder, NEW id \in RuleIds, NEW form \in RuleForms, AddRule(id, form)
  PROVE  WalkOrder'
<1>1. rules' = [r \in DOMAIN rules \cup {id} |-> IF r = id THEN form ELSE rules[r]]
  BY DEF AddRule
<1>2. \A r \in DOMAIN rules' : rules'[r] \in RuleForms
  BY <1>1 DEF WalkOrder
<1>3. CASE id \in DOMAIN rules
  <2>1. order' = order /\ DOMAIN rules' = DOMAIN rules
    BY <1>1, <1>3 DEF AddRule
  <2> QED
    BY <2>1, <1>2 DEF WalkOrder
<1>4. CASE id \notin DOMAIN rules
  <2>1. order' = Append(order, id) /\ DOMAIN rules' = DOMAIN rules \cup {id} /\ order \in Seq(RuleIds)
    BY <1>1, <1>4 DEF AddRule, WalkOrder
  <2>2. /\ order' \in Seq(RuleIds) /\ Len(order') = Len(order) + 1 /\ Len(order) \in Nat
        /\ order'[Len(order) + 1] = id
        /\ \A i \in 1..Len(order) : order'[i] = order[i]
    BY <2>1
  <2>3. \A i \in 1..Len(order') : i = Len(order) + 1 \/ i \in 1..Len(order)
    BY <2>2
  <2>4. \A i \in 1..Len(order) : order[i] # id
    BY <1>4 DEF WalkOrder
  <2>5. \A i, j \in 1..Len(order') : order'[i] = order'[j] => i = j
    BY <2>2, <2>3, <2>4 DEF WalkOrder
  <2>6. \A i \in 1..Len(order') : order'[i] \in DOMAIN rules'
    BY <2>1, <2>2, <2>3 DEF WalkOrder
  <2>7. DOMAIN rules' \subseteq {order'[i] : i \in 1..Len(order')}
    <3>1. ASSUME NEW r \in DOMAIN rules'
          PROVE  \E i \in 1..Len(order') : order'[i] = r
      <4>1. CASE r = id
        BY <4>1, <2>2
      <4>2. CASE r # id
        <5>1. PICK i \in 1..Len(order) : order[i] = r
          BY <4>2, <2>1 DEF WalkOrder
        <5> QED
          BY <5>1, <2>2
      <4> QED
        BY <4>1, <4>2
    <3> QED
      BY <3>1
  <2> QED
    BY <1>2, <2>2, <2>5, <2>6, <2>7 DEF WalkOrder
<1> QED
  BY <1>3, <1>4

LEMMA RemoveRuleOrder ==
  ASSUME WalkOrder, NEW id \in RuleIds, RemoveRule(id)
  PROVE  WalkOrder'
<1>1. PICK m \in DOMAIN order : order[m] = id /\ order' = RemoveAt(order, m)
  BY DEF RemoveRule
<1>. DEFINE N == Len(order)
<1>2. order \in Seq(RuleIds) /\ N \in Nat /\ DOMAIN order = 1..N /\ m \in 1..N
  BY <1>1 DEF WalkOrder
<1>3. rules' = [r \in DOMAIN rules \ {id} |-> rules[r]]
  BY DEF RemoveRule, Restrict
<1>4. order' = SubSeq(order, 1, m - 1) \o SubSeq(order, m + 1, N)
  BY <1>1 DEF RemoveAt
<1>. HIDE DEF N
<1>5. /\ SubSeq(order, 1, m - 1) \in Seq(RuleIds) /\ Len(SubSeq(order, 1, m - 1)) = m - 1
      /\ \A i \in 1..m - 1 : SubSeq(order, 1, m - 1)[i] = order[i]
  <2>1. 1 \in Int /\ m - 1 \in Int /\ \A i \in 1..m - 1 : order[i] \in RuleIds
    BY <1>2 DEF N
  <2>2. /\ SubSeq(order, 1, m - 1) \in Seq(RuleIds)
        /\ Len(SubSeq(order, 1, m - 1)) = IF 1 <= m - 1 THEN m - 1 - 1 + 1 ELSE 0
        /\ \A i \in 1..m - 1 - 1 + 1 : SubSeq(order, 1, m - 1)[i] = order[1 + i - 1]
    BY <2>1, SubSeqProperties
  <2>3. m - 1 - 1 + 1 = m - 1 /\ \A i \in 1..m - 1 : 1 + i - 1 = i
    BY <1>2
  <2> QED
    BY <2>2, <2>3, <1>2
<1>6. /\ SubSeq(order, m + 1, N) \in Seq(RuleIds) /\ Len(SubSeq(order, m + 1, N)) = N - m
      /\ \A i \in 1..N - m : SubSeq(order, m + 1, N)[i] = order[m + i]
  <2>1. m + 1 \in Int /\ N \in Int /\ \A i \in m + 1..N : order[i] \in RuleIds
    BY <1>2 DEF N
  <2>2. /\ SubSeq(order, m + 1, N) \in Seq(RuleIds)
        /\ Len(SubSeq(order, m + 1, N)) = IF m + 1 <= N THEN N - (m + 1) + 1 ELSE 0
        /\ \A i \in 1..N - (m + 1) + 1 : SubSeq(order, m + 1, N)[i] = order[m + 1 + i - 1]
    BY <2>1, SubSeqProperties
  <2>3. N - (m + 1) + 1 = N - m /\ \A i \in 1..N - m : m + 1 + i - 1 = m + i
    BY <1>2
  <2> QED
    BY <2>2, <2>3, <1>2
<1>7. /\ order' \in Seq(RuleIds) /\ Len(order') = N - 1
      /\ \A i \in 1..N - 1 : order'[i] = IF i < m THEN order[i] ELSE order[i + 1]
  <2>1. /\ order' \in Seq(RuleIds) /\ Len(order') = (m - 1) + (N - m)
        /\ \A i \in 1..(m - 1) + (N - m) :
             order'[i] = IF i <= m - 1 THEN SubSeq(order, 1, m - 1)[i]
                         ELSE SubSeq(order, m + 1, N)[i - (m - 1)]
    BY <1>4, <1>5, <1>6, ConcatProperties
  <2>2. (m - 1) + (N - m) = N - 1
    BY <1>2
  <2>3. ASSUME NEW i \in 1..N - 1
        PROVE  order'[i] = IF i < m THEN order[i] ELSE order[i + 1]
    <3>1. CASE i < m
      BY <3>1, <2>1, <2>2, <1>2, <1>5
    <3>2. CASE ~(i < m)
      <4>1. i - (m - 1) \in 1..N - m /\ m + (i - (m - 1)) = i + 1 /\ ~(i <= m - 1)
        BY <3>2, <1>2
      <4> QED
        BY <4>1, <3>2, <2>1, <2>2, <1>6
    <3> QED
      BY <3>1, <3>2
  <2> QED
    BY <2>1, <2>2, <2>3
(* Where the rules that stay come from. *)
<1>. DEFINE from == [i \in 1..N - 1 |-> IF i < m THEN i ELSE i + 1]
<1>8. \A i \in 1..N - 1 : from[i] \in 1..N /\ from[i] # m /\ order'[i] = order[from[i]]
  BY <1>2, <1>7
<1>9. \A i, j \in 1..N - 1 : from[i] = from[j] => i = j
  BY <1>2
<1>10. \A l \in 1..N : l # m => \E i \in 1..N - 1 : from[i] = l
  <2>1. SUFFICES ASSUME NEW l \in 1..N, l # m
                 PROVE  \E i \in 1..N - 1 : from[i] = l
    OBVIOUS
  <2>2. CASE l < m
    <3>1. l \in 1..N - 1 /\ from[l] = l
      BY <2>2, <1>2
    <3> QED
      BY <3>1
  <2>3. CASE l > m
    <3>1. l - 1 \in 1..N - 1 /\ from[l - 1] = l
      BY <2>3, <1>2
    <3> QED
      BY <3>1
  <2> QED
    BY <2>1, <2>2, <2>3, <1>2
<1>. HIDE DEF from
<1>11. \A i, j \in 1..Len(order') : order'[i] = order'[j] => i = j
  <2>1. SUFFICES ASSUME NEW i \in 1..N - 1, NEW j \in 1..N - 1, order'[i] = order'[j]
                 PROVE  i = j
    BY <1>7
  <2>2. order[from[i]] = order[from[j]] /\ from[i] \in 1..N /\ from[j] \in 1..N
    BY <2>1, <1>8
  <2>3. from[i] = from[j]
    BY <2>2 DEF WalkOrder, N
  <2> QED
    BY <2>3, <1>9
<1>12. \A i \in 1..Len(order') : order'[i] \in DOMAIN rules'
  <2>1. SUFFICES ASSUME NEW i \in 1..N - 1
                 PROVE  order'[i] \in DOMAIN rules \ {id}
    BY <1>3, <1>7
  <2>2. from[i] \in 1..N /\ from[i] # m /\ order'[i] = order[from[i]]
    BY <1>8
  <2> QED
    BY <2>2, <1>1, <1>2 DEF WalkOrder, N
<1>13. DOMAIN rules' \subseteq {order'[i] : i \in 1..Len(order')}
  <2>1. ASSUME NEW r \in DOMAIN rules \ {id}
        PROVE  \E i \in 1..Len(order') : order'[i] = r
    <3>1. PICK l \in 1..N : order[l] = r
      BY <2>1 DEF WalkOrder, N
    <3>2. l # m
      BY <3>1, <2>1, <1>1
    <3>3. PICK i \in 1..N - 1 : from[i] = l
      BY <3>2, <1>10
    <3> QED
      BY <3>1, <3>3, <1>7, <1>8
  <2> QED
    BY <2>1, <1>3
<1>14. \A r \in DOMAIN rules' : rules'[r] \in RuleForms
  BY <1>3 DEF WalkOrder
<1> QED
  BY <1>7, <1>11, <1>12, <1>13, <1>14 DEF WalkOrder
----------------------------------------------------------------------------
(* The specification.                                                      *)
LEMMA DetectorIdle ==
  ASSUME DetectorInv, UNCHANGED detectorVars
  PROVE  DetectorInv'
  BY DEF DetectorInv, WalkOrder, detectorVars

LEMMA TickStep ==
  ASSUME DetectorInv, Tick
  PROVE  DetectorInv'
<1>1. DetInv(now + 1, tracker, lastSeen, past)
  BY LaterInv DEF DetectorInv
<1> QED
  BY <1>1 DEF DetectorInv, WalkOrder, Tick

LEMMA EditStep ==
  ASSUME DetectorInv, Edit
  PROVE  DetectorInv'
<1>1. CASE UNCHANGED detectorVars
  BY <1>1, DetectorIdle
<1>2. ASSUME WalkOrder', UNCHANGED <<now, tracker, lastSeen, past>>
      PROVE  DetectorInv'
  BY <1>2 DEF DetectorInv
<1>3. ASSUME NEW id \in RuleIds, RemoveRule(id)
      PROVE  DetectorInv'
  <2>1. WalkOrder'
    BY <1>3, RemoveRuleOrder DEF DetectorInv
  <2> QED
    BY <2>1, <1>2, <1>3 DEF RemoveRule
<1>4. ASSUME NEW id \in RuleIds, NEW form \in RuleForms, AddRule(id, form)
      PROVE  DetectorInv'
  <2>1. WalkOrder'
    BY <1>4, AddRuleOrder DEF DetectorInv
  <2> QED
    BY <2>1, <1>2, <1>4 DEF AddRule
<1>5. ASSUME NEW sources, SetWhitelist(sources)
      PROVE  DetectorInv'
  BY <1>5 DEF DetectorInv, WalkOrder, SetWhitelist
<1> QED
  BY <1>1, <1>3, <1>4, <1>5 DEF Edit

LEMMA ProcessPacketStep ==
  ASSUME DetectorInv, NEW t \in Tasks, ProcessPacket(t)
  PROVE  DetectorInv'
<1>1. /\ UNCHANGED <<now, rules, order>>
      /\ \E source \in Sources, fits \in SUBSET DOMAIN rules :
           LET st == Evaluate(source, fits) IN
           /\ tracker' = st.tracker /\ lastSeen' = st.lastSeen
           /\ \E stop \in MayStop(st.looks, source) :
                past' = [k \in DOMAIN past |->
                  LET look == st.looks[k[1]] IN
                  IF k[2] # source \/ look = Unseen THEN past[k]
                  ELSE Append(past[k], Remembered(look, k[1], Handled(look, k[1], source, stop)))]
  BY DEF ProcessPacket
<1>2. PICK source \in Sources, fits \in SUBSET DOMAIN rules :
        LET st == Evaluate(source, fits) IN
        /\ tracker' = st.tracker /\ lastSeen' = st.lastSeen
        /\ \E stop \in MayStop(st.looks, source) :
             past' = [k \in DOMAIN past |->
               LET look == st.looks[k[1]] IN
               IF k[2] # source \/ look = Unseen THEN past[k]
               ELSE Append(past[k], Remembered(look, k[1], Handled(look, k[1], source, stop)))]
  BY <1>1
<1>. DEFINE w == Walk(source, fits)
            n == Len(order)
<1>3. /\ tracker' = w[n].tracker /\ lastSeen' = w[n].lastSeen
      /\ \E stop : past' = Ended(past, w, n, source, stop)
  BY <1>2 DEF Evaluate, Ended
<1>4. PICK stop : past' = Ended(past, w, n, source, stop)
  BY <1>3
<1>5. DetInv(now, w[n].tracker, w[n].lastSeen, past')
  BY <1>4, WalkInv DEF DetectorInv
<1>6. DetInv(now, tracker', lastSeen', past')
  BY <1>3, <1>5
<1> QED
  BY <1>1, <1>6 DEF DetectorInv, WalkOrder

LEMMA SensorInvariant ==
  SensorSpec => []SensorInv
<1>1. ASSUME SensorInit
      PROVE  SensorInv
  BY <1>1, DetectorStart, PipelineStart DEF SensorInit, SensorInv
<1>2. ASSUME SensorInv, [SensorNext]_sensorVars
      PROVE  SensorInv'
  <2>1. DetectorInv /\ PipelineInv
    BY <1>2 DEF SensorInv
  <2>2. CASE Edit
    BY <2>1, <2>2, EditStep, PipelineIdle DEF SensorInv, Edit
  <2>3. CASE Spend("clock") /\ Tick /\ UNCHANGED <<pipelineVars, whitelist>>
    BY <2>1, <2>3, TickStep, PipelineIdle DEF SensorInv
  <2>4. CASE Arrive /\ Idle
    <3>1. Offer /\ PacketsOnly
      BY <2>4 DEF Arrive, Produce, EnqueuePacket
    <3> QED
      BY <2>1, <2>4, <3>1, OfferStep, DetectorIdle DEF SensorInv, Idle
  <2>5. ASSUME NEW t \in Tasks, ProcessPacket(t)
        PROVE  SensorInv'
    <3>1. Processed(t)
      BY <2>5 DEF ProcessPacket
    <3> QED
      BY <2>1, <2>5, <3>1, ProcessedStep, ProcessPacketStep DEF SensorInv
  <2>6. ASSUME NEW t \in Tasks, Take(t) \/ WorkerEnds(t), Idle
        PROVE  SensorInv'
    BY <2>1, <2>6, TakeStep, WorkerEndsStep, DetectorIdle DEF SensorInv, Idle
  <2>7. CASE (Start \/ StopEnds \/ StartProducer \/ ProducerStops) /\ Idle /\ UNCHANGED budget
    BY <2>1, <2>7, LifeStepInv, DetectorIdle DEF SensorInv, Idle, LifeStep
  <2>8. CASE Spend("stops") /\ Stop /\ Idle
    BY <2>1, <2>8, LifeStepInv, DetectorIdle DEF SensorInv, Idle, LifeStep
  <2>9. CASE UNCHANGED sensorVars
    BY <2>1, <2>9, DetectorIdle, PipelineIdle DEF SensorInv, sensorVars
  <2> QED
    BY <1>2, <2>2, <2>3, <2>4, <2>5, <2>6, <2>7, <2>8, <2>9 DEF SensorNext
<1> QED
  BY <1>1, <1>2, PTL DEF SensorSpec

(* Each rule is walked once, for as long as it exists and however it is replaced and
   removed, and the times that are kept ascend to the present. *)
THEOREM SensorTypeCorrect == SensorSpec => []SensorTypeOK
<1>1. ASSUME SensorInv
      PROVE  SensorTypeOK
  <2>1. WalkOrder /\ Shape(now, tracker, lastSeen, past) /\ PipelineInv
    BY <1>1 DEF SensorInv, DetectorInv, DetInv
  <2>2. /\ \A id \in DOMAIN rules : id \in RuleIds /\ rules[id] \in RuleForms
        /\ DOMAIN rules = {order[i] : i \in DOMAIN order}
        /\ \A i, j \in DOMAIN order : order[i] = order[j] => i = j
    <3>1. DOMAIN order = 1..Len(order) /\ \A i \in 1..Len(order) : order[i] \in RuleIds
      BY <2>1 DEF WalkOrder
    <3>2. /\ \A id \in DOMAIN rules : rules[id] \in RuleForms
          /\ \A id \in DOMAIN rules : \E i \in 1..Len(order) : order[i] = id
          /\ \A i \in 1..Len(order) : order[i] \in DOMAIN rules
          /\ \A i, j \in 1..Len(order) : order[i] = order[j] => i = j
      BY <2>1 DEF WalkOrder
    <3>3. \A id \in DOMAIN rules : id \in RuleIds
      BY <3>1, <3>2
    <3>4. DOMAIN rules = {order[i] : i \in DOMAIN order}
      <4>1. \A id \in DOMAIN rules : id \in {order[i] : i \in DOMAIN order}
        BY <3>1, <3>2
      <4>2. \A id \in {order[i] : i \in DOMAIN order} : id \in DOMAIN rules
        BY <3>1, <3>2
      <4> QED
        BY <4>1, <4>2, Zenon
    <3>5. \A i, j \in DOMAIN order : order[i] = order[j] => i = j
      BY <3>1, <3>2
    <3> QED
      BY <3>2, <3>3, <3>4, <3>5
  <2>3. ASSUME NEW k \in DOMAIN tracker, NEW i \in DOMAIN tracker[k]
        PROVE  /\ tracker[k][i] \in 0..now
               /\ \A j \in i..Len(tracker[k]) : tracker[k][i] <= tracker[k][j]
    <3>1. Ascending(tracker[k], now) /\ now \in Nat
      BY <2>1 DEF Shape
    <3>2. /\ DOMAIN tracker[k] = 1..Len(tracker[k]) /\ Len(tracker[k]) \in Nat
          /\ \A j \in 1..Len(tracker[k]) : tracker[k][j] \in Nat
      BY <3>1 DEF Ascending
    <3>3. \A j \in i..Len(tracker[k]) : j \in 1..Len(tracker[k]) /\ i <= j
      BY <3>2
    <3> QED
      BY <3>1, <3>2, <3>3 DEF Ascending
  <2>4. now \in Nat /\ \A k \in DOMAIN lastSeen : lastSeen[k] \in {None} \cup 0..now
    BY <2>1 DEF Shape
  <2>5. depth \in 0..MaxDepth /\ crew \cup hand \subseteq Tasks
    BY <2>1, PipelineTypes DEF PipelineInv
  <2> QED
    BY <2>2, <2>3, <2>4, <2>5 DEF SensorTypeOK
<1> QED
  BY <1>1, SensorInvariant, PTL

(* However start, stop and the producer overlap, no packet that was received is lost from
   the counts, and a pipeline that runs has a worker unless its producer set it running. *)
THEOREM PacketsKept == SensorSpec => []PacketsAccounted
<1>1. ASSUME SensorInv
      PROVE  PacketsAccounted
  <2>1. PipelineInv
    BY <1>1 DEF SensorInv
  <2>2. depth <= MaxDepth
    BY <2>1, PipelineTypes DEF PipelineInv
  <2>3. running /\ Live = {} => unserved
    BY <2>1 DEF PipelineInv, Live
  <2> QED
    BY <2>1, <2>2, <2>3 DEF PacketsAccounted, PipelineInv
<1> QED
  BY <1>1, SensorInvariant, PTL

LEMMA HistoryJudged ==
  ASSUME SensorInv
  PROVE  \A k \in Seen : Alerts(past, k) /\ Explained(past[k], Len(past[k]))
<1>1. /\ \A k \in Pairs : Judged(past, k)
      /\ past \in [Pairs -> Seq(LookSet)]
  BY DEF SensorInv, DetectorInv, DetInv, Shape
<1>2. \A k \in Seen : k \in Pairs /\ past[k] # <<>>
  BY <1>1 DEF Seen
<1> QED
  BY <1>1, <1>2 DEF Judged

(* Packets that come faster than a rule allows raise its alarm, and others do not, whatever
   the rules that share their times and however they are edited meanwhile. *)
THEOREM FloodsRaiseAlarm == SensorSpec => []FloodsAlert
<1>1. ASSUME SensorInv
      PROVE  FloodsAlert
  BY <1>1, HistoryJudged DEF FloodsAlert
<1> QED
  BY <1>1, SensorInvariant, PTL

(* A silenced match comes in a chain of matches, none more than the suppression window
   after the one before, that began with one that was stored or missed. *)
THEOREM SilenceHasCause == SensorSpec => []SilencedExplained
<1>1. ASSUME SensorInv
      PROVE  SilencedExplained
  BY <1>1, HistoryJudged DEF SilencedExplained
<1> QED
  BY <1>1, SensorInvariant, PTL
=============================================================================
