-------------------------- MODULE ThreatIntelProofs --------------------------
(***************************************************************************)
(* Proofs about ThreatIntel, for any addresses, networks and threads, any  *)
(* terms of the caches and any bounds.                                     *)
(***************************************************************************)
EXTENDS ThreatIntel, SequenceTheorems, TLAPS

(* A load that has yet to read the file. *)
ToRead(t) == load[t] \in {"clear", "clear networks", "open"}

(* What the sets hold, and what a load is about to add, are lines of the file. *)
FromFile ==
  /\ addresses \cup networks \subseteq ToSet(file)
  /\ \A t \in Threads : ToSet(todo[t]) \subseteq ToSet(file)

(* An entry of the file that is in neither set is still to come: a load will read the
   file, or has read it and not come to that line. *)
ToCome ==
  source = "file" =>
    \A line \in ToSet(file) \ (Junk \cup addresses \cup networks) :
      \E t \in Threads : ToRead(t) \/ (load[t] = "add" /\ line \in ToSet(todo[t]))

(* An address is dated when it is listed, and by no time before that. *)
Dated == \A ip \in Ips : IF Listed(ip) THEN listedAt[ip] <= now ELSE listedAt[ip] = Never

ThreatTypes == ThreatTypeOK /\ Dated

ListInv == ThreatTypes /\ FromFile /\ ToCome

(* While an undisturbed search looks at the sets, no load has cleared them, and an address
   that the file blocked when it began is in one of them, not one it has passed. *)
Passed ==
  look.ip # NoIp /\ look.read = "file" =>
    /\ look.stage # "abuseipdb" =>
         /\ \A t \in Threads : load[t] \in {"done", "clear"}
         /\ look.listed => look.ip \in addresses \/ \E n \in networks : look.ip \in Covered[n]
    /\ look.stage = "networks" => look.ip \notin addresses
    /\ look.stage = "abuseipdb" => ~look.listed

(* A lookup ends in time, and what was not listed when it began is listed later or never. *)
InTime ==
  look.ip # NoIp => /\ look.began <= now /\ now <= look.began + LookupTime
                    /\ ~look.listed => listedAt[look.ip] >= look.began

(* A verdict expires within a term of the time it was stored at. *)
Terms ==
  \A ip \in Ips :
    /\ InRedis(ip) => now < redis[ip].until /\ redis[ip].until <= now + RedisTTL
    /\ memory[ip] # None => memory[ip].until <= now + MemoryTTL

(* A clean verdict expires within a lookup and those terms of the time its address was
   listed. *)
CleanTerms ==
  \A ip \in Ips :
    /\ InRedis(ip) /\ ~redis[ip].bad /\ redis[ip].read = "file"
       => redis[ip].until <= listedAt[ip] + LookupTime + RedisTTL
    /\ memory[ip] # None /\ ~memory[ip].bad /\ memory[ip].read = "file"
       => memory[ip].until < listedAt[ip] + LookupTime + RedisTTL + MemoryTTL

VerdictInv == ListInv /\ Passed /\ InTime /\ Terms /\ CleanTerms
----------------------------------------------------------------------------
(* The sets of elements of the sequences a load uses. *)
LEMMA EmptySet == ToSet(<<>>) = {}
BY DEF ToSet

LEMMA AppendSet ==
  ASSUME NEW S, NEW s \in Seq(S), NEW x \in S
  PROVE  ToSet(Append(s, x)) = ToSet(s) \cup {x}
<1>1. /\ Len(s) \in Nat /\ DOMAIN s = 1..Len(s) /\ DOMAIN Append(s, x) = 1..(Len(s) + 1)
      /\ \A i \in 1..Len(s) : Append(s, x)[i] = s[i]
      /\ Append(s, x)[Len(s) + 1] = x
  BY LenProperties, AppendProperties
<1>2. \A i \in 1..(Len(s) + 1) : i \in 1..Len(s) \/ i = Len(s) + 1
  BY <1>1
<1>3. ToSet(Append(s, x)) \subseteq ToSet(s) \cup {x}
  BY <1>1, <1>2 DEF ToSet
<1>4. \A i \in 1..Len(s) : s[i] \in ToSet(Append(s, x))
  BY <1>1 DEF ToSet
<1>5. x \in ToSet(Append(s, x))
  BY <1>1 DEF ToSet
<1>6. QED
  BY <1>1, <1>3, <1>4, <1>5 DEF ToSet

LEMMA TailSet ==
  ASSUME NEW S, NEW s \in Seq(S), s # <<>>
  PROVE  /\ Head(s) \in S /\ Tail(s) \in Seq(S)
         /\ ToSet(s) = {Head(s)} \cup ToSet(Tail(s))
<1>1. /\ Head(s) \in S /\ Head(s) = s[1] /\ Tail(s) \in Seq(S)
      /\ Len(s) \in Nat \ {0} /\ DOMAIN s = 1..Len(s)
      /\ DOMAIN Tail(s) = 1..(Len(s) - 1)
      /\ \A i \in 1..(Len(s) - 1) : Tail(s)[i] = s[i + 1]
  BY HeadTailProperties, LenProperties, EmptySeq
<1>2. ToSet(Tail(s)) \subseteq ToSet(s) /\ Head(s) \in ToSet(s)
  BY <1>1 DEF ToSet
<1>3. ASSUME NEW i \in 1..Len(s)
      PROVE  s[i] \in {Head(s)} \cup ToSet(Tail(s))
  <2>1. CASE i = 1
    BY <1>1, <2>1
  <2>2. CASE i # 1
    <3>1. i - 1 \in 1..(Len(s) - 1) /\ (i - 1) + 1 = i
      BY <1>1, <2>2
    <3>2. QED
      BY <1>1, <3>1 DEF ToSet
  <2>3. QED
    BY <2>1, <2>2
<1>4. QED
  BY <1>1, <1>2, <1>3 DEF ToSet

LEMMA InSet ==
  ASSUME NEW S, NEW s \in Seq(S)
  PROVE  ToSet(s) \subseteq S
BY ElementOfSeq, LenProperties DEF ToSet

LEMMA ListedLine == \A ip : Listed(ip) <=> \E line \in ToSet(file) : ip \in Blocks(line)
BY DEF Listed, ToSet
----------------------------------------------------------------------------
(* Types, with the dates of the addresses. *)
FileTypes ==
  /\ now \in 0..MaxTime
  /\ file \in Seq(Lines) /\ Len(file) <= MaxLines
  /\ starts \in 1..MaxStarts
  /\ source \in Sources \ {"disturbed"}
  /\ listedAt \in [Ips -> 0..Never]
  /\ Dated

LoadTypes ==
  /\ addresses \subseteq Ips /\ networks \subseteq Networks
  /\ load \in [Threads -> Stages]
  /\ todo \in [Threads -> Seq(Lines)]
  /\ \A t \in Threads : load[t] # "add" => todo[t] = <<>>

LookTypes ==
  /\ look \in [ip : Ips \cup {NoIp}, stage : {"addresses", "networks", "abuseipdb"},
               read : Sources, began : 0..MaxTime, listed : BOOLEAN]
  /\ memory \in [Ips -> Verdicts] /\ redis \in [Ips -> Verdicts]

LEMMA DatedMeaning ==
  ASSUME FileTypes
  PROVE  \A ip \in Ips : listedAt[ip] <= now <=> Listed(ip)
BY ThreatAssumption DEF FileTypes, Dated, Never

LEMMA TypesParts == ThreatTypes <=> FileTypes /\ LoadTypes /\ LookTypes
<1>1. ThreatTypes => FileTypes /\ LoadTypes /\ LookTypes
  BY DEF ThreatTypes, ThreatTypeOK, FileTypes, LoadTypes, LookTypes
<1>2. FileTypes /\ LoadTypes /\ LookTypes => ThreatTypes
  BY DatedMeaning DEF ThreatTypes, ThreatTypeOK, FileTypes, LoadTypes, LookTypes
<1>3. QED
  BY <1>1, <1>2

LEMMA TypesPartsAfter ==
  ASSUME FileTypes', LoadTypes', LookTypes'
  PROVE  ThreatTypes'
<1>1. \A ip \in Ips : listedAt'[ip] <= now' <=> Listed(ip)'
  BY ThreatAssumption DEF FileTypes, Dated, Never
<1>2. QED
  BY <1>1 DEF ThreatTypes, ThreatTypeOK, FileTypes, LoadTypes, LookTypes

LEMMA InitTypes == ThreatInit => ThreatTypes
<1>. SUFFICES ASSUME ThreatInit
              PROVE  ThreatTypes
  OBVIOUS
<1>1. PICK line \in Lines : file = <<line>>
  BY DEF ThreatInit
<1>2. FileTypes
  <2>1. file \in Seq(Lines) /\ Len(file) <= MaxLines
    BY <1>1, ThreatAssumption
  <2>2. listedAt = [ip \in Ips |-> IF Listed(ip) THEN 0 ELSE Never] /\ now = 0
    BY DEF ThreatInit
  <2>3. 0 \in 0..Never /\ Never \in 0..Never /\ 0 \in 0..MaxTime
    BY ThreatAssumption DEF Never
  <2>4. listedAt \in [Ips -> 0..Never] /\ Dated
    BY <2>2, <2>3 DEF Dated
  <2>5. starts \in 1..MaxStarts /\ source \in Sources \ {"disturbed"}
    BY ThreatAssumption DEF ThreatInit, Sources
  <2>6. QED
    BY <2>1, <2>2, <2>3, <2>4, <2>5 DEF FileTypes
<1>3. LoadTypes
  BY EmptySeq DEF ThreatInit, LoadTypes, Stages
<1>4. LookTypes
  BY ThreatAssumption DEF ThreatInit, LookTypes, Idle, None, Verdicts, Sources
<1>5. QED
  BY <1>2, <1>3, <1>4, TypesParts

(* A step that appends nothing keeps the file's types; one that does not search or answer
   keeps the lookup's and the caches'. *)
LEMMA SameFile ==
  ASSUME FileTypes, UNCHANGED <<now, file, listedAt>>, starts' \in 1..MaxStarts,
         source' \in Sources \ {"disturbed"}
  PROVE  FileTypes'
BY DEF FileTypes, Dated, Listed

LEMMA SameLoads ==
  ASSUME LoadTypes, UNCHANGED <<addresses, networks, load, todo>>
  PROVE  LoadTypes'
BY DEF LoadTypes

LEMMA SameLook ==
  ASSUME LookTypes, UNCHANGED <<look, memory, redis>>
  PROVE  LookTypes'
BY DEF LookTypes

LEMMA AddTypes ==
  ASSUME ThreatTypes, NEW t \in Threads, NEW line \in Lines, AddToBlocklist(t, line)
  PROVE  ThreatTypes'
<1>0. FileTypes /\ LoadTypes /\ LookTypes
  BY TypesParts
<1>1. FileTypes'
  <2>1. file' = Append(file, line) /\ UNCHANGED <<now, starts, source>>
    BY DEF AddToBlocklist
  <2>2. /\ file' \in Seq(Lines) /\ Len(file') <= MaxLines
        /\ ToSet(file') = ToSet(file) \cup {line}
    BY <1>0, <2>1, AppendSet, AppendProperties, LenProperties, ThreatAssumption
       DEF FileTypes, AddToBlocklist
  <2>3. \A ip : Listed(ip)' <=> Listed(ip) \/ ip \in Blocks(line)
    <3>1. \A ip : Listed(ip)' <=> \E l \in ToSet(file') : ip \in Blocks(l)
      BY DEF Listed, ToSet
    <3>2. QED
      BY <2>2, <3>1, ListedLine
  <2>4. \A ip \in Ips : listedAt'[ip] = IF ip \in Blocks(line) /\ ~Listed(ip) THEN now
                                                                       ELSE listedAt[ip]
    BY DEF AddToBlocklist
  <2>5. now \in 0..Never
    BY <1>0, ThreatAssumption DEF FileTypes, Never
  <2>6. listedAt' \in [Ips -> 0..Never]
    BY <1>0, <2>5 DEF FileTypes, AddToBlocklist
  <2>7. Dated'
    BY <1>0, <2>1, <2>3, <2>4, <2>5 DEF FileTypes, Dated
  <2>8. QED
    BY <1>0, <2>1, <2>2, <2>6, <2>7 DEF FileTypes
<1>2. LoadTypes'
  BY <1>0 DEF LoadTypes, AddToBlocklist, Free, Stages
<1>3. LookTypes'
  BY <1>0, SameLook DEF AddToBlocklist
<1>4. QED
  BY <1>1, <1>2, <1>3, TypesPartsAfter

LEMMA LoadStepTypes ==
  ASSUME ThreatTypes, \/ Reload
                      \/ \E t \in Threads : LoadNext(t)
  PROVE  ThreatTypes'
<1>0. FileTypes /\ LoadTypes /\ LookTypes
  BY TypesParts
<1>1. FileTypes'
  <2>1. /\ UNCHANGED <<now, file, listedAt, starts>>
        /\ source' \in {source, "file", "failure"}
    BY DEF Reload, LoadNext, Clear, ClearNetworks, Open, OpenFails, AddEntry, Loaded
  <2>2. source' \in Sources \ {"disturbed"}
    BY <1>0, <2>1 DEF FileTypes, Sources
  <2>3. QED
    BY <1>0, <2>1, <2>2, SameFile DEF FileTypes
<1>2. LookTypes'
  <2>1. CASE Reload \/ \E t \in Threads : LoadNext(t) /\ ~Clear(t)
    <3>1. UNCHANGED <<look, memory, redis>>
      BY <2>1 DEF Reload, LoadNext, ClearNetworks, Open, OpenFails, AddEntry, Loaded
    <3>2. QED
      BY <1>0, <3>1, SameLook
  <2>2. CASE \E t \in Threads : Clear(t)
    BY <1>0, <2>2 DEF LookTypes, Clear, Disturb, Sources
  <2>3. QED
    BY <2>1, <2>2
<1>3. LoadTypes'
  <2>1. CASE Reload
    BY <1>0, <2>1 DEF LoadTypes, Reload, Free, Stages, Threads
  <2>2. ASSUME NEW t \in Threads, LoadNext(t)
        PROVE  LoadTypes'
    <3>1. CASE Clear(t) \/ ClearNetworks(t) \/ OpenFails(t)
      BY <1>0, <3>1 DEF LoadTypes, Clear, ClearNetworks, OpenFails, Stages
    <3>2. CASE Open(t)
      BY <1>0, <3>2 DEF FileTypes, LoadTypes, Open, Stages
    <3>3. CASE Loaded(t)
      BY <1>0, <3>3 DEF LoadTypes, Loaded, Stages
    <3>4. CASE AddEntry(t)
      <4>1. todo[t] \in Seq(Lines) /\ todo[t] # <<>>
        BY <1>0, <3>4 DEF LoadTypes, AddEntry
      <4>2. Tail(todo[t]) \in Seq(Lines)
        BY <4>1, TailSet
      <4>3. addresses' \subseteq Ips /\ networks' \subseteq Networks
        BY <1>0, <3>4 DEF LoadTypes, AddEntry
      <4>4. QED
        BY <1>0, <3>4, <4>2, <4>3 DEF LoadTypes, AddEntry
    <3>5. QED
      BY <2>2, <3>1, <3>2, <3>3, <3>4 DEF LoadNext
  <2>3. QED
    BY <2>1, <2>2
<1>4. QED
  BY <1>1, <1>2, <1>3, TypesPartsAfter
(* Lookups and time leave the blocklist alone. *)
Answering ==
  \/ \E ip \in Ips : AnswerFromMemory(ip) \/ AnswerFromRedis(ip) \/ BeginSearch(ip)
  \/ SearchAddresses \/ SearchNetworks \/ AskAbuseIPDB

LEMMA AnsweringFrame ==
  ASSUME Answering
  PROVE  UNCHANGED <<blocklist, now, starts>>
BY DEF Answering, AnswerFromMemory, AnswerFromRedis, BeginSearch, SearchAddresses,
       SearchNetworks, AskAbuseIPDB, Conclude, Continue, threatVars, blocklist

(* How a search ends: with a verdict for its address, stored in memory and perhaps in Redis,
   and a clean one only after both sets; or with its next stage. *)
Concluded(bad, ttl) == Conclude(bad, ttl) /\ (bad = FALSE => look.stage = "abuseipdb")

LEMMA SearchSteps ==
  ASSUME SearchAddresses \/ SearchNetworks \/ AskAbuseIPDB
  PROVE  /\ look.ip # NoIp
         /\ \/ \E bad \in BOOLEAN, ttl \in {RedisTTL, NothingTTL} : Concluded(bad, ttl)
            \/ /\ look.stage = "addresses" /\ look.ip \notin addresses
               /\ Continue("networks")
            \/ /\ look.stage = "networks" /\ \A n \in networks : look.ip \notin Covered[n]
               /\ Continue("abuseipdb")
<1>1. CASE SearchAddresses
  BY <1>1 DEF SearchAddresses, Searching, Concluded
<1>2. CASE SearchNetworks
  BY <1>2 DEF SearchNetworks, Searching, Concluded
<1>3. CASE AskAbuseIPDB
  BY <1>3 DEF AskAbuseIPDB, Searching, Concluded
<1>4. QED
  BY <1>1, <1>2, <1>3

LEMMA TermsPositive ==
  /\ RedisTTL \in Nat /\ NothingTTL \in Nat /\ MemoryTTL \in Nat /\ LookupTime \in Nat
  /\ NothingTTL >= 1 /\ NothingTTL <= RedisTTL
  /\ MaxTime \in Nat /\ NoIp \notin Ips
BY ThreatAssumption

LEMMA ConcludeTypes ==
  ASSUME FileTypes, LookTypes, look.ip # NoIp, NEW bad \in BOOLEAN, NEW ttl \in Nat,
         Conclude(bad, ttl)
  PROVE  LookTypes'
<1>1. look.ip \in Ips /\ look.read \in Sources /\ now \in Nat
  BY DEF FileTypes, LookTypes
<1>2. /\ [bad |-> bad, read |-> look.read, until |-> now + MemoryTTL] \in Verdicts
      /\ [bad |-> bad, read |-> look.read, until |-> now + ttl] \in Verdicts
  BY <1>1, TermsPositive DEF Verdicts
<1>3. memory' \in [Ips -> Verdicts] /\ redis' \in [Ips -> Verdicts]
  BY <1>1, <1>2 DEF LookTypes, Conclude
<1>4. QED
  BY <1>3, ThreatAssumption DEF LookTypes, Conclude, Idle, Sources

LEMMA AnsweringTypes ==
  ASSUME ThreatTypes, Answering
  PROVE  ThreatTypes'
<1>0. FileTypes /\ LoadTypes /\ LookTypes
  BY TypesParts
<1>1. FileTypes' /\ LoadTypes'
  BY <1>0, AnsweringFrame, SameFile, SameLoads DEF blocklist, FileTypes
<1>2. ASSUME NEW ip \in Ips, AnswerFromMemory(ip)
      PROVE  LookTypes'
  BY <1>0, <1>2 DEF AnswerFromMemory, LookTypes, threatVars
<1>3. ASSUME NEW ip \in Ips, AnswerFromRedis(ip)
      PROVE  LookTypes'
  <2>1. [redis[ip] EXCEPT !.until = now + MemoryTTL] \in Verdicts
    <3>1. redis[ip] \in Verdicts /\ now + MemoryTTL \in Nat
      BY <1>0, TermsPositive DEF FileTypes, LookTypes
    <3>2. QED
      BY <3>1 DEF Verdicts
  <2>2. QED
    BY <1>0, <1>3, <2>1 DEF AnswerFromRedis, LookTypes
<1>4. ASSUME NEW ip \in Ips, BeginSearch(ip)
      PROVE  LookTypes'
  <2>1. None \in Verdicts
    BY DEF None, Verdicts, Sources
  <2>2. (IF Loading THEN "disturbed" ELSE source) \in Sources /\ now \in 0..MaxTime
        /\ Listed(ip) \in BOOLEAN
    BY <1>0 DEF FileTypes, Sources, Listed
  <2>3. QED
    BY <1>0, <1>4, <2>1, <2>2 DEF BeginSearch, LookTypes
<1>5. ASSUME SearchAddresses \/ SearchNetworks \/ AskAbuseIPDB
      PROVE  LookTypes'
  <2>1. ASSUME NEW bad \in BOOLEAN, NEW ttl \in {RedisTTL, NothingTTL}, Concluded(bad, ttl)
        PROVE  LookTypes'
    <3>1. look.ip # NoIp /\ ttl \in Nat /\ Conclude(bad, ttl)
      BY <1>5, <2>1, SearchSteps, TermsPositive DEF Concluded
    <3>2. QED
      BY <1>0, <3>1, ConcludeTypes
  <2>2. CASE Continue("networks") \/ Continue("abuseipdb")
    BY <1>0, <2>2 DEF Continue, LookTypes
  <2>3. QED
    BY <1>5, <2>1, <2>2, SearchSteps
<1>6. LookTypes'
  BY <1>2, <1>3, <1>4, <1>5 DEF Answering
<1>7. QED
  BY <1>1, <1>6, TypesPartsAfter

LEMMA TickTypes ==
  ASSUME ThreatTypes, Tick
  PROVE  ThreatTypes'
<1>0. FileTypes /\ LoadTypes /\ LookTypes
  BY TypesParts
<1>1. FileTypes'
  BY <1>0, ThreatAssumption DEF FileTypes, Dated, Listed, Tick, blocklist
<1>2. LoadTypes'
  BY <1>0, SameLoads DEF Tick, blocklist
<1>3. LookTypes'
  <2>1. None \in Verdicts
    BY DEF None, Verdicts, Sources
  <2>2. QED
    BY <1>0, <2>1 DEF Tick, LookTypes
<1>4. QED
  BY <1>1, <1>2, <1>3, TypesPartsAfter

LEMMA RestartTypes ==
  ASSUME ThreatTypes, Restart
  PROVE  ThreatTypes'
<1>0. FileTypes /\ LoadTypes /\ LookTypes
  BY TypesParts
<1>1. FileTypes'
  <2>1. starts' \in 1..MaxStarts /\ source' \in Sources \ {"disturbed"}
    BY <1>0, ThreatAssumption DEF FileTypes, Restart, Fresh, Sources
  <2>2. QED
    BY <1>0, <2>1, SameFile DEF Restart
<1>2. LoadTypes'
  BY EmptySeq DEF Restart, Fresh, LoadTypes, Stages
<1>3. LookTypes'
  BY <1>0, ThreatAssumption DEF Restart, Fresh, LookTypes, Idle, None, Verdicts, Sources
<1>4. QED
  BY <1>1, <1>2, <1>3, TypesPartsAfter

LEMMA NextTypes == ThreatTypes /\ [ThreatNext]_threatVars => ThreatTypes'
<1>1. ASSUME ThreatTypes, UNCHANGED threatVars
      PROVE  ThreatTypes'
  BY <1>1 DEF threatVars, ThreatTypes, ThreatTypeOK, Dated, Listed
<1>2. QED
  BY <1>1, AddTypes, LoadStepTypes, AnsweringTypes, TickTypes, RestartTypes
     DEF ThreatNext, Answering

(* Files, sets, loads, lookups and caches keep their types; a date says whether an address
   is listed. *)
THEOREM ThreatTypeCorrect == ThreatSpec => []ThreatTypeOK
<1>1. ThreatTypes => ThreatTypeOK
  BY DEF ThreatTypes
<1>2. QED
  BY <1>1, InitTypes, NextTypes, PTL DEF ThreatSpec
----------------------------------------------------------------------------
(* Loads. *)
LEMMA ThreadTyped ==
  ASSUME ThreatTypes, NEW t \in Threads
  PROVE  todo[t] \in Seq(Lines) /\ load[t] \in Stages
         /\ load \in [Threads -> Stages] /\ todo \in [Threads -> Seq(Lines)]
BY DEF ThreatTypes, ThreatTypeOK

(* A step that appends a line to the file. *)
LEMMA FileGrows ==
  ASSUME ThreatTypes, NEW t \in Threads, NEW line \in Lines, AddToBlocklist(t, line)
  PROVE  ToSet(file') = ToSet(file) \cup {line}
BY AppendSet DEF ThreatTypes, ThreatTypeOK, AddToBlocklist

(* The first line a thread holds, and the rest. *)
LEMMA NextLine ==
  ASSUME ThreatTypes, NEW t \in Threads, AddEntry(t)
  PROVE  /\ Head(todo[t]) \in Lines
         /\ ToSet(todo[t]) = {Head(todo[t])} \cup ToSet(Tail(todo[t]))
         /\ todo'[t] = Tail(todo[t]) /\ \A u \in Threads \ {t} : todo'[u] = todo[u]
BY ThreadTyped, TailSet DEF AddEntry

LEMMA FromFileStep == ListInv /\ [ThreatNext]_threatVars => FromFile'
<1>. SUFFICES ASSUME ListInv, [ThreatNext]_threatVars
              PROVE  FromFile'
  OBVIOUS
<1>1. ThreatTypes /\ FromFile
  BY DEF ListInv
<1>2. ASSUME NEW t \in Threads, NEW line \in Lines, AddToBlocklist(t, line)
      PROVE  FromFile'
  BY <1>1, <1>2, FileGrows DEF FromFile, AddToBlocklist
<1>3. ASSUME NEW t \in Threads, LoadNext(t)
      PROVE  FromFile'
  <2>1. CASE Clear(t) \/ ClearNetworks(t) \/ OpenFails(t) \/ Loaded(t)
    BY <1>1, <2>1 DEF FromFile, Clear, ClearNetworks, OpenFails, Loaded
  <2>2. CASE Open(t)
    BY <1>1, <2>2, ThreadTyped DEF FromFile, Open
  <2>3. CASE AddEntry(t)
    <3>1. Head(todo[t]) \in ToSet(file) /\ \A u \in Threads : ToSet(todo'[u]) \subseteq ToSet(file)
      BY <1>1, <2>3, NextLine DEF FromFile
    <3>2. QED
      BY <1>1, <2>3, <3>1 DEF FromFile, AddEntry
  <2>4. QED
    BY <1>3, <2>1, <2>2, <2>3 DEF LoadNext
<1>4. CASE Reload
  BY <1>1, <1>4 DEF FromFile, Reload
<1>5. CASE Answering \/ Tick \/ UNCHANGED threatVars
  BY <1>1, <1>5, AnsweringFrame DEF FromFile, Tick, blocklist, threatVars
<1>6. CASE Restart
  BY <1>6, EmptySet DEF FromFile, Restart, Fresh
<1>7. QED
  BY <1>2, <1>3, <1>4, <1>5, <1>6 DEF ThreatNext, Answering

LEMMA ToComeStep == ListInv /\ [ThreatNext]_threatVars => ToCome'
<1>. SUFFICES ASSUME ListInv, [ThreatNext]_threatVars
              PROVE  ToCome'
  OBVIOUS
<1>1. ThreatTypes /\ ToCome
  BY DEF ListInv
<1>2. ASSUME NEW t \in Threads, load'[t] \in {"clear", "clear networks", "open"}
      PROVE  ToCome'
  BY <1>2 DEF ToCome, ToRead
<1>3. ASSUME NEW t \in Threads, NEW line \in Lines, AddToBlocklist(t, line)
      PROVE  ToCome'
  <2>1. load'[t] = "clear"
    BY <1>1, <1>3, ThreadTyped DEF AddToBlocklist
  <2>2. QED
    BY <1>2, <2>1
<1>4. ASSUME NEW t \in Threads, LoadNext(t)
      PROVE  ToCome'
  <2>1. CASE Clear(t) \/ ClearNetworks(t)
    <3>1. load'[t] \in {"clear networks", "open"}
      BY <1>1, <2>1, ThreadTyped DEF Clear, ClearNetworks
    <3>2. QED
      BY <1>2, <3>1
  <2>2. CASE Open(t)
    <3>1. load'[t] = "add" /\ todo'[t] = file /\ file' = file
      BY <1>1, <2>2, ThreadTyped DEF Open
    <3>2. QED
      BY <3>1 DEF ToCome
  <2>3. CASE OpenFails(t)
    BY <2>3 DEF ToCome, OpenFails
  <2>4. CASE AddEntry(t)
    <3>1. /\ UNCHANGED <<file, load, source>> /\ addresses \subseteq addresses'
          /\ networks \subseteq networks' /\ Head(todo[t]) \in Junk \cup addresses' \cup networks'
          /\ \A u \in Threads : ToSet(todo[u]) \subseteq ToSet(todo'[u]) \cup {Head(todo[t])}
      BY <1>1, <2>4, NextLine DEF AddEntry, Lines
    <3>2. QED
      BY <1>1, <3>1 DEF ToCome, ToRead
  <2>5. CASE Loaded(t)
    <3>1. /\ load[t] = "add" /\ ToSet(todo[t]) = {} /\ \A u \in Threads \ {t} : load'[u] = load[u]
          /\ UNCHANGED <<file, todo, addresses, networks, source>>
      BY <1>1, <2>5, EmptySet, ThreadTyped DEF Loaded
    <3>2. QED
      BY <1>1, <3>1 DEF ToCome, ToRead
  <2>6. QED
    BY <1>4, <2>1, <2>2, <2>3, <2>4, <2>5 DEF LoadNext
<1>5. CASE Reload
  <2>1. Loop \in Threads /\ load'[Loop] = "clear"
    BY <1>1, <1>5, ThreadTyped DEF Reload, Threads
  <2>2. QED
    BY <1>2, <2>1
<1>6. CASE Answering \/ Tick \/ UNCHANGED threatVars
  BY <1>1, <1>6, AnsweringFrame DEF ToCome, ToRead, Tick, blocklist, threatVars
<1>7. CASE Restart
  BY <1>7 DEF ToCome, Restart, Fresh
<1>8. QED
  BY <1>3, <1>4, <1>5, <1>6, <1>7 DEF ThreatNext, Answering

LEMMA ListInvInit == ThreatInit => ListInv
<1>. SUFFICES ASSUME ThreatInit
              PROVE  ListInv
  OBVIOUS
<1>1. FromFile
  BY EmptySet DEF ThreatInit, FromFile
<1>2. ToCome
  BY DEF ThreatInit, ToCome
<1>3. QED
  BY <1>1, <1>2, InitTypes DEF ListInv

LEMMA ListInvStep == ListInv /\ [ThreatNext]_threatVars => ListInv'
BY NextTypes, FromFileStep, ToComeStep DEF ListInv

(* With no load left, nothing is to come. *)
LEMMA ListInvMatches == ListInv => SetsMatchFile
<1>. SUFFICES ASSUME ListInv, ~Loading, source = "file"
              PROVE  /\ addresses = ToSet(file) \cap Ips
                     /\ networks = ToSet(file) \cap Networks
  BY DEF SetsMatchFile
<1>1. \A t \in Threads : load[t] = "done"
  BY DEF Loading
<1>2. ToSet(file) \subseteq Junk \cup addresses \cup networks
  BY <1>1 DEF ListInv, ToCome, ToRead
<1>3. addresses \subseteq ToSet(file) \cap Ips /\ networks \subseteq ToSet(file) \cap Networks
  BY DEF ListInv, FromFile, ThreatTypes, ThreatTypeOK
<1>4. Ips \cap (Networks \cup Junk) = {} /\ Networks \cap Junk = {}
  BY ThreatAssumption
<1>5. QED
  BY <1>2, <1>3, <1>4

(* However many loads clear and fill the sets at once, and whatever is appended meanwhile,
   the sets are those of the file when no load is left and the last to clear could read. *)
THEOREM SetsFollowFile == ThreatSpec => []SetsMatchFile
BY ListInvInit, ListInvStep, ListInvMatches, PTL DEF ThreatSpec
----------------------------------------------------------------------------
(* Searches. *)
LEMMA LookTyped ==
  ASSUME ThreatTypes
  PROVE  /\ look.ip \in Ips \cup {NoIp} /\ now \in Nat /\ now <= MaxTime
         /\ look.stage \in {"addresses", "networks", "abuseipdb"}
         /\ look \in [ip : Ips \cup {NoIp}, stage : {"addresses", "networks", "abuseipdb"},
                      read : Sources, began : 0..MaxTime, listed : BOOLEAN]
         /\ memory \in [Ips -> Verdicts] /\ redis \in [Ips -> Verdicts]
         /\ \A ip \in Ips : /\ memory[ip].until \in Nat /\ redis[ip].until \in Nat
                            /\ listedAt[ip] \in Nat
         /\ look.began \in Nat /\ look.listed \in BOOLEAN
BY ThreatAssumption DEF ThreatTypes, ThreatTypeOK, Verdicts

(* An entry of the file blocks an address through one of the sets. *)
LEMMA ListedInSets ==
  ASSUME ListInv, ~Loading, source = "file", NEW ip \in Ips, Listed(ip)
  PROVE  ip \in addresses \/ \E n \in networks : ip \in Covered[n]
<1>1. addresses = ToSet(file) \cap Ips /\ networks = ToSet(file) \cap Networks
  BY ListInvMatches DEF SetsMatchFile
<1>2. PICK line \in ToSet(file) : ip \in Blocks(line)
  BY ListedLine
<1>3. QED
  BY <1>1, <1>2 DEF Blocks

LEMMA PassedInit == ThreatInit => Passed
BY DEF ThreatInit, Passed, Idle

LEMMA PassedStep == ListInv /\ Passed /\ [ThreatNext]_threatVars => Passed'
<1>. SUFFICES ASSUME ListInv, Passed, [ThreatNext]_threatVars
              PROVE  Passed'
  OBVIOUS
<1>0. ThreatTypes
  BY DEF ListInv
<1>1. ASSUME NEW t \in Threads, NEW line \in Lines, AddToBlocklist(t, line)
      PROVE  Passed'
  <2>1. UNCHANGED <<look, addresses, networks>> /\ load' = [load EXCEPT ![t] = "clear"]
    BY <1>1 DEF AddToBlocklist
  <2>2. QED
    BY <1>0, <2>1, ThreadTyped DEF Passed
<1>2. ASSUME NEW t \in Threads, LoadNext(t)
      PROVE  Passed'
  <2>1. CASE Clear(t)
    <3>1. look' = look \/ look'.read = "disturbed"
      BY <1>0, <2>1, LookTyped DEF Clear, Disturb
    <3>2. look.ip # NoIp /\ look.stage # "abuseipdb" => look'.read = "disturbed"
      BY <1>0, <2>1, LookTyped DEF Clear, Disturb
    <3>3. QED
      BY <1>0, <3>1, <3>2, LookTyped DEF Passed
  <2>2. CASE ~Clear(t)
    <3>1. look' = look /\ load[t] \notin {"done", "clear"}
      BY <1>2, <2>2 DEF LoadNext, ClearNetworks, Open, OpenFails, AddEntry, Loaded
    <3>2. look.ip # NoIp /\ look.read = "file" => look.stage = "abuseipdb"
      BY <3>1 DEF Passed
    <3>3. QED
      BY <3>1, <3>2 DEF Passed
  <2>3. QED
    BY <2>1, <2>2
<1>3. CASE Reload
  BY <1>3 DEF Passed, Reload, Free
<1>4. CASE \E ip \in Ips : AnswerFromMemory(ip) \/ AnswerFromRedis(ip)
  BY <1>4 DEF Passed, AnswerFromMemory, AnswerFromRedis, Loading, blocklist, threatVars
<1>5. ASSUME NEW ip \in Ips, BeginSearch(ip)
      PROVE  Passed'
  <2>1. /\ look'.ip = ip /\ look'.stage = "addresses" /\ look'.listed = Listed(ip)
        /\ look'.read = IF Loading THEN "disturbed" ELSE source
        /\ UNCHANGED <<load, addresses, networks>>
    BY <1>5 DEF BeginSearch, blocklist
  <2>2. CASE ~Loading /\ source = "file"
    <3>1. \A t \in Threads : load[t] = "done"
      BY <2>2 DEF Loading
    <3>2. Listed(ip) => ip \in addresses \/ \E n \in networks : ip \in Covered[n]
      BY <2>2, ListedInSets
    <3>3. QED
      BY <2>1, <3>1, <3>2 DEF Passed
  <2>3. CASE Loading \/ source # "file"
    BY <2>1, <2>3 DEF Passed
  <2>4. QED
    BY <2>2, <2>3
<1>6. CASE SearchAddresses \/ SearchNetworks \/ AskAbuseIPDB
  <2>1. UNCHANGED <<load, addresses, networks>>
    BY <1>6, AnsweringFrame DEF Answering, blocklist
  <2>2. ASSUME NEW bad \in BOOLEAN, NEW ttl, Concluded(bad, ttl)
        PROVE  Passed'
    BY <2>2 DEF Concluded, Conclude, Passed, Idle
  <2>3. CASE /\ look.stage = "addresses" /\ look.ip \notin addresses
             /\ Continue("networks")
    <3>1. look'.ip = look.ip /\ look'.read = look.read /\ look'.stage = "networks"
          /\ look'.listed = look.listed
      BY <1>0, <2>3, LookTyped DEF Continue
    <3>2. QED
      BY <2>1, <2>3, <3>1 DEF Passed
  <2>4. CASE /\ look.stage = "networks" /\ \A n \in networks : look.ip \notin Covered[n]
             /\ Continue("abuseipdb")
    <3>1. look'.ip = look.ip /\ look'.read = look.read /\ look'.stage = "abuseipdb"
          /\ look'.listed = look.listed
      BY <1>0, <2>4, LookTyped DEF Continue
    <3>2. QED
      BY <2>1, <2>4, <3>1 DEF Passed
  <2>5. QED
    BY <1>6, <2>2, <2>3, <2>4, SearchSteps
<1>7. CASE Tick \/ UNCHANGED threatVars
  BY <1>7 DEF Passed, Tick, blocklist, threatVars
<1>8. CASE Restart
  BY <1>8 DEF Restart, Fresh, Passed, Idle
<1>9. QED
  BY <1>1, <1>2, <1>3, <1>4, <1>5, <1>6, <1>7, <1>8 DEF ThreatNext

(* A lookup misses no entry the file had when it began, in either set, though additions of
   other threads come between its two looks and their loads behind them; a load that clears
   the sets under its looks is the exception, and the lookup is marked. *)
THEOREM SearchesComplete == ThreatSpec => []SearchFindsListed
<1>1. Passed => SearchFindsListed
  BY DEF Passed, SearchFindsListed, Searching
<1>2. QED
  BY <1>1, ListInvInit, ListInvStep, PassedInit, PassedStep, PTL DEF ThreatSpec
----------------------------------------------------------------------------
(* Lookups in time. *)
LEMMA InTimeInit == ThreatInit => InTime
BY DEF ThreatInit, InTime, Idle

LEMMA InTimeStep == ListInv /\ InTime /\ [ThreatNext]_threatVars => InTime'
<1>. SUFFICES ASSUME ListInv, InTime, [ThreatNext]_threatVars
              PROVE  InTime'
  OBVIOUS
<1>0. ThreatTypes /\ now \in Nat /\ now <= MaxTime /\ LookupTime \in Nat /\ MaxTime \in Nat
  BY LookTyped, ThreatAssumption DEF ListInv
<1>1. ASSUME NEW t \in Threads, NEW line \in Lines, AddToBlocklist(t, line)
      PROVE  InTime'
  <2>1. /\ UNCHANGED <<look, now>> /\ \A ip \in Ips : listedAt'[ip] \in {now, listedAt[ip]}
        /\ look.ip \in Ips \cup {NoIp}
    BY <1>0, <1>1, LookTyped DEF AddToBlocklist
  <2>2. QED
    BY <2>1 DEF InTime
<1>2. CASE Reload \/ \E t \in Threads : LoadNext(t)
  <2>1. UNCHANGED <<now, listedAt>> /\ look'.ip = look.ip /\ look'.began = look.began
        /\ look'.listed = look.listed
    BY <1>0, <1>2, LookTyped
       DEF Reload, LoadNext, Clear, ClearNetworks, Open, OpenFails, AddEntry, Loaded, Disturb
  <2>2. QED
    BY <2>1 DEF InTime
<1>3. CASE \E ip \in Ips : AnswerFromMemory(ip) \/ AnswerFromRedis(ip)
  BY <1>3 DEF InTime, AnswerFromMemory, AnswerFromRedis, blocklist, threatVars
<1>4. ASSUME NEW ip \in Ips, BeginSearch(ip)
      PROVE  InTime'
  <2>1. /\ look'.ip = ip /\ look'.began = now /\ look'.listed = Listed(ip)
        /\ UNCHANGED <<now, listedAt>>
    BY <1>4 DEF BeginSearch, blocklist
  <2>2. ~Listed(ip) => listedAt[ip] = Never
    BY <1>0 DEF ThreatTypes, Dated
  <2>3. QED
    BY <1>0, <2>1, <2>2 DEF InTime, Never
<1>5. CASE SearchAddresses \/ SearchNetworks \/ AskAbuseIPDB
  <2>1. UNCHANGED <<now, listedAt>>
    BY <1>5, AnsweringFrame DEF Answering, blocklist
  <2>2. ASSUME NEW bad \in BOOLEAN, NEW ttl, Concluded(bad, ttl)
        PROVE  InTime'
    BY <2>2 DEF Concluded, Conclude, InTime, Idle
  <2>3. ASSUME NEW stage, Continue(stage)
        PROVE  InTime'
    <3>1. look'.ip = look.ip /\ look'.began = look.began /\ look'.listed = look.listed
      BY <1>0, <2>3, LookTyped DEF Continue
    <3>2. QED
      BY <2>1, <3>1 DEF InTime
  <2>4. QED
    BY <1>5, <2>2, <2>3, SearchSteps
<1>6. CASE Tick
  <2>1. /\ UNCHANGED <<look, listedAt>> /\ now' = now + 1
        /\ look.ip # NoIp => now < look.began + LookupTime
    BY <1>6 DEF Tick, blocklist
  <2>2. look.began \in Nat
    BY <1>0, LookTyped
  <2>3. QED
    BY <1>0, <2>1, <2>2 DEF InTime
<1>7. CASE Restart \/ UNCHANGED threatVars
  BY <1>7 DEF InTime, Restart, Fresh, Idle, threatVars
<1>8. QED
  BY <1>1, <1>2, <1>3, <1>4, <1>5, <1>6, <1>7 DEF ThreatNext
----------------------------------------------------------------------------
(* Caches. *)
LEMMA TermsInit == ThreatInit => Terms /\ CleanTerms
BY DEF ThreatInit, Terms, CleanTerms, InRedis

(* What a verdict of a lookup says: a clean one is about an address that was listed no
   earlier than the lookup began. *)
LEMMA VerdictMeaning ==
  ASSUME VerdictInv, look.ip # NoIp, NEW bad \in BOOLEAN, NEW ttl, Concluded(bad, ttl),
         bad = FALSE, look.read = "file"
  PROVE  now <= listedAt[look.ip] + LookupTime
<1>1. look.ip \in Ips /\ look.began \in Nat /\ now \in Nat /\ listedAt[look.ip] \in Nat
      /\ LookupTime \in Nat
  BY LookTyped, ThreatAssumption DEF VerdictInv, ListInv
<1>2. ~look.listed
  BY DEF VerdictInv, Passed, Concluded
<1>3. QED
  BY <1>1, <1>2 DEF VerdictInv, InTime

LEMMA TermsConcluded ==
  ASSUME VerdictInv, look.ip # NoIp, NEW bad \in BOOLEAN, NEW ttl \in {RedisTTL, NothingTTL},
         Concluded(bad, ttl)
  PROVE  Terms' /\ CleanTerms'
<1>. DEFINE a == look.ip
<1>1. a \in Ips /\ now \in Nat /\ now <= MaxTime /\ ttl \in Nat /\ ttl >= 1 /\ ttl <= RedisTTL
      /\ memory \in [Ips -> Verdicts] /\ redis \in [Ips -> Verdicts]
  BY LookTyped, TermsPositive DEF VerdictInv, ListInv
<1>2. UNCHANGED <<now, listedAt>>
  BY DEF Concluded, Conclude, blocklist
<1>3. /\ memory'[a].bad = bad /\ memory'[a].read = look.read
      /\ memory'[a].until = now + MemoryTTL
      /\ \A ip \in Ips \ {a} : memory'[ip] = memory[ip] /\ redis'[ip] = redis[ip]
      /\ redis'[a] = redis[a] \/ /\ redis'[a].bad = bad /\ redis'[a].read = look.read
                                 /\ redis'[a].until = now + ttl
  BY <1>1 DEF Concluded, Conclude
<1>4. bad = FALSE /\ look.read = "file" => now <= listedAt[a] + LookupTime
  BY VerdictMeaning
<1>5. Terms'
  BY <1>1, <1>2, <1>3, TermsPositive DEF VerdictInv, Terms, InRedis
<1>6. CleanTerms'
  <2>1. listedAt[a] \in Nat
    BY <1>1, LookTyped DEF VerdictInv, ListInv
  <2>2. QED
    BY <1>1, <1>2, <1>3, <1>4, <2>1, TermsPositive DEF VerdictInv, CleanTerms, InRedis
<1>7. QED
  BY <1>5, <1>6

LEMMA TermsAnswered ==
  ASSUME VerdictInv, NEW a \in Ips, AnswerFromRedis(a)
  PROVE  Terms' /\ CleanTerms'
<1>1. /\ now \in Nat /\ redis[a].until \in Nat /\ listedAt[a] \in Nat
      /\ memory \in [Ips -> Verdicts] /\ redis \in [Ips -> Verdicts]
  BY LookTyped DEF VerdictInv, ListInv
<1>2. UNCHANGED <<now, listedAt, redis>>
  BY DEF AnswerFromRedis, blocklist
<1>3. /\ memory'[a].bad = redis[a].bad /\ memory'[a].read = redis[a].read
      /\ memory'[a].until = now + MemoryTTL
      /\ \A ip \in Ips \ {a} : memory'[ip] = memory[ip]
  BY <1>1 DEF AnswerFromRedis, Verdicts
<1>4. InRedis(a) /\ now < redis[a].until
  BY DEF AnswerFromRedis, VerdictInv, Terms
<1>5. Terms'
  BY <1>1, <1>2, <1>3, TermsPositive DEF VerdictInv, Terms, InRedis
<1>6. CleanTerms'
  BY <1>1, <1>2, <1>3, <1>4, TermsPositive DEF VerdictInv, CleanTerms, InRedis
<1>7. QED
  BY <1>5, <1>6

LEMMA TermsAdded ==
  ASSUME VerdictInv, NEW t \in Threads, NEW line \in Lines, AddToBlocklist(t, line)
  PROVE  Terms' /\ CleanTerms'
<1>1. UNCHANGED <<now, memory, redis>>
  BY DEF AddToBlocklist
<1>2. now \in Nat /\ \A ip \in Ips : /\ memory[ip].until \in Nat /\ redis[ip].until \in Nat
                                     /\ listedAt[ip] \in Nat
  BY LookTyped DEF VerdictInv, ListInv
<1>3. \A ip \in Ips : listedAt'[ip] \in {now, listedAt[ip]}
  BY DEF AddToBlocklist
<1>4. Terms'
  BY <1>1 DEF VerdictInv, Terms, InRedis
<1>5. CleanTerms'
  BY <1>1, <1>2, <1>3, TermsPositive DEF VerdictInv, Terms, CleanTerms, InRedis
<1>6. QED
  BY <1>4, <1>5

LEMMA TermsTicked ==
  ASSUME VerdictInv, Tick
  PROVE  Terms' /\ CleanTerms'
<1>1. UNCHANGED <<memory, listedAt>> /\ now' = now + 1
      /\ \A ip \in Ips : redis'[ip] = IF now + 1 < redis[ip].until THEN redis[ip] ELSE None
  BY DEF Tick, blocklist
<1>2. now \in Nat /\ \A ip \in Ips : memory[ip].until \in Nat /\ redis[ip].until \in Nat
  BY LookTyped DEF VerdictInv, ListInv
<1>3. QED
  BY <1>1, <1>2, TermsPositive DEF VerdictInv, Terms, CleanTerms, InRedis

LEMMA TermsKept ==
  ASSUME VerdictInv, UNCHANGED <<now, redis, listedAt>>,
         \A ip \in Ips : memory'[ip] \in {None, memory[ip]}
  PROVE  Terms' /\ CleanTerms'
BY DEF VerdictInv, Terms, CleanTerms, InRedis

LEMMA TermsStep == VerdictInv /\ [ThreatNext]_threatVars => Terms' /\ CleanTerms'
<1>. SUFFICES ASSUME VerdictInv, [ThreatNext]_threatVars
              PROVE  Terms' /\ CleanTerms'
  OBVIOUS
<1>1. CASE Reload \/ (\E t \in Threads : LoadNext(t)) \/ Restart \/ UNCHANGED threatVars
           \/ \E ip \in Ips : AnswerFromMemory(ip) \/ BeginSearch(ip)
  <2>1. UNCHANGED <<now, redis, listedAt>>
    BY <1>1 DEF Reload, LoadNext, Clear, ClearNetworks, Open, OpenFails, AddEntry, Loaded,
                Restart, threatVars, AnswerFromMemory, BeginSearch, blocklist
  <2>2. \A ip \in Ips : memory'[ip] \in {None, memory[ip]}
    <3>1. CASE UNCHANGED memory
      BY <3>1
    <3>2. CASE Restart
      BY <3>2 DEF Restart, Fresh
    <3>3. ASSUME NEW a \in Ips, BeginSearch(a)
          PROVE  \A ip \in Ips : memory'[ip] \in {None, memory[ip]}
      <4>1. memory \in [Ips -> Verdicts] /\ memory' = [memory EXCEPT ![a] = None]
        BY <3>3, LookTyped DEF VerdictInv, ListInv, BeginSearch
      <4>2. QED
        BY <4>1
    <3>4. QED
      BY <1>1, <3>1, <3>2, <3>3
         DEF Reload, LoadNext, Clear, ClearNetworks, Open, OpenFails, AddEntry, Loaded,
             threatVars, AnswerFromMemory
  <2>3. QED
    BY <2>1, <2>2, TermsKept
<1>2. CASE SearchAddresses \/ SearchNetworks \/ AskAbuseIPDB
  <2>1. CASE Continue("networks") \/ Continue("abuseipdb")
    <3>1. UNCHANGED <<now, redis, listedAt, memory>>
      BY <2>1 DEF Continue, blocklist
    <3>2. QED
      BY <3>1, TermsKept
  <2>2. QED
    BY <1>2, <2>1, SearchSteps, TermsConcluded
<1>3. QED
  BY <1>1, <1>2, TermsAdded, TermsAnswered, TermsTicked DEF ThreatNext

(* Nothing takes a cached verdict back when its address is listed, but a clean one, unless
   a load overlapped the looks it rests on, is no longer given when the rest of its lookup,
   one Redis term and one memory term are over. *)
THEOREM CleanVerdictsExpire == ThreatSpec => []VerdictCatchesUp
<1>1. ThreatInit => VerdictInv
  BY ListInvInit, PassedInit, InTimeInit, TermsInit DEF VerdictInv
<1>2. VerdictInv /\ [ThreatNext]_threatVars => VerdictInv'
  BY ListInvStep, PassedStep, InTimeStep, TermsStep DEF VerdictInv
<1>3. VerdictInv => VerdictCatchesUp
  <2>. SUFFICES ASSUME VerdictInv
                PROVE  VerdictCatchesUp
    OBVIOUS
  <2>1. now \in Nat /\ \A ip \in Ips : /\ memory[ip].until \in Nat /\ redis[ip].until \in Nat
                                       /\ listedAt[ip] \in Nat
    BY LookTyped DEF VerdictInv, ListInv
  <2>2. QED
    BY <2>1, TermsPositive DEF VerdictInv, Terms, CleanTerms, VerdictCatchesUp, InMemory
<1>4. QED
  BY <1>1, <1>2, <1>3, PTL DEF ThreatSpec
=============================================================================
