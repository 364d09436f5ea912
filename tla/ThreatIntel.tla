----------------------------- MODULE ThreatIntel -----------------------------
(***************************************************************************)
(* ThreatIntelEngine, BlocklistLoader and TTLCache of                      *)
(* config/threat_intel.py.  The API's calls run on the event loop, one at  *)
(* a time: lookups, additions and reloads.  The playbooks' additions run   *)
(* in threads of their own beside them, and nothing holds the loader's     *)
(* lock.  A file of the blocklist directory stands for all of them.        *)
(*                                                                         *)
(* Redis (external) may be absent or fail at any call: a read may find     *)
(* nothing and a write may store nothing.  remove_from_blocklist, which no *)
(* endpoint and no playbook calls, is left out.                            *)
(***************************************************************************)
EXTENDS Naturals, Sequences, FiniteSets, SequencesExt

CONSTANTS
  Ips,          (* the addresses looked up; as lines, entries of one address *)
  Networks,     (* the entries in CIDR notation                              *)
  Covered,      (* the addresses in each network                             *)
  Junk,         (* lines that are neither                                    *)
  Workers,      (* threads of playbooks                                      *)
  Loop,         (* the event loop's thread                                   *)
  NoIp,         (* no lookup is going on                                     *)
  MemoryTTL,    (* cache_ttl_seconds                                         *)
  RedisTTL,     (* how long Redis keeps what a source has said (3600 s)      *)
  NothingTTL,   (* and that no source has said anything (1800 s)             *)
  LookupTime,   (* bound on the time a lookup takes: the sources' timeouts   *)
  MaxTime,      (* bound on the clock                                        *)
  MaxLines,     (* bound on the lines of the file                            *)
  MaxStarts     (* bound on the starts of the process                        *)

ASSUME ThreatAssumption ==
  /\ IsFiniteSet(Ips) /\ IsFiniteSet(Networks)
  /\ Covered \in [Networks -> SUBSET Ips]
  /\ Ips \cap (Networks \cup Junk) = {} /\ Networks \cap Junk = {}
  /\ Loop \notin Workers
  /\ NoIp \notin Ips
  /\ {MemoryTTL, RedisTTL, NothingTTL, LookupTime, MaxTime, MaxLines, MaxStarts} \subseteq Nat
  /\ NothingTTL \in 1..RedisTTL
  /\ 0 \notin {MaxLines, MaxStarts}

Lines   == Ips \cup Networks \cup Junk
Threads == Workers \cup {Loop}

VARIABLES
  now,          (* time.time()                                               *)
  file,         (* the lines of the file                                     *)
  addresses,    (* BlocklistLoader._blocklist                                *)
  networks,     (* BlocklistLoader._subnets                                  *)
  load,         (* what each thread does next in load()                      *)
  todo,         (* the lines it has read and not yet added                   *)
  look,         (* the lookup in progress; listed is history: whether the    *)
                (* file blocked its address when it began                    *)
  memory,       (* TTLCache                                                  *)
  redis,        (* the keys threat_intel:...                                 *)
  starts,       (* counts starts of the process, for the bound               *)
  source,       (* history: what the sets come from                          *)
  listedAt      (* history: when each address came onto the blocklist        *)

threatVars == <<now, file, addresses, networks, load, todo, look, memory, redis,
                starts, source, listedAt>>
blocklist  == <<file, addresses, networks, load, todo, source, listedAt>>

Stages  == {"done", "clear", "clear networks", "open", "add"}
Sources == {"nothing", "file", "failure", "disturbed"}
None    == [bad |-> FALSE, read |-> "nothing", until |-> 0]
Idle    == [ip |-> NoIp, stage |-> "addresses", read |-> "nothing", began |-> 0,
            listed |-> FALSE]
Never   == MaxTime + 1

(* The addresses an entry blocks. *)
Blocks(line) == IF line \in Networks THEN Covered[line] ELSE {line} \cap Ips

Listed(ip) == \E i \in DOMAIN file : ip \in Blocks(file[i])
Loading    == \E t \in Threads : load[t] # "done"

(* A new process: the singleton of get_threat_intel_engine, whose start() nobody calls. *)
Fresh ==
  /\ addresses' = {} /\ networks' = {}
  /\ load' = [t \in Threads |-> "done"]
  /\ todo' = [t \in Threads |-> <<>>]
  /\ look' = Idle
  /\ memory' = [ip \in Ips |-> None]
  /\ source' = "nothing"

ThreatInit ==
  /\ now = 0
  /\ file \in {<<line>> : line \in Lines}
  /\ addresses = {} /\ networks = {}
  /\ load = [t \in Threads |-> "done"]
  /\ todo = [t \in Threads |-> <<>>]
  /\ look = Idle
  /\ memory = [ip \in Ips |-> None]
  /\ redis = [ip \in Ips |-> None]
  /\ starts = 1
  /\ source = "nothing"
  /\ listedAt = [ip \in Ips |-> IF Listed(ip) THEN 0 ELSE Never]
----------------------------------------------------------------------------
(* A thread may begin a call: a worker between two actions of its playbook, the loop
   between two requests. *)
Free(t) == load[t] = "done" /\ (t = Loop => look.ip = NoIp)

(* The sets are cleared under a lookup that has not looked at both of them. *)
Disturb ==
  look' = IF look.ip = NoIp \/ look.stage = "abuseipdb" THEN look
          ELSE [look EXCEPT !.read = "disturbed"]

(* add_to_blocklist: append a line, then load. *)
AddToBlocklist(t, line) ==
  /\ Free(t)
  /\ Len(file) < MaxLines
  /\ file' = Append(file, line)
  /\ load' = [load EXCEPT ![t] = "clear"]
  /\ listedAt' = [ip \in Ips |-> IF ip \in Blocks(line) /\ ~Listed(ip) THEN now ELSE listedAt[ip]]
  /\ UNCHANGED <<now, addresses, networks, todo, look, memory, redis, starts, source>>

(* reload_blocklists, from the reload endpoint. *)
Reload ==
  /\ Free(Loop)
  /\ load' = [load EXCEPT ![Loop] = "clear"]
  /\ UNCHANGED <<now, file, addresses, networks, todo, look, memory, redis, starts,
                 source, listedAt>>

Clear(t) ==
  /\ load[t] = "clear"
  /\ addresses' = {}
  /\ load' = [load EXCEPT ![t] = "clear networks"]
  /\ Disturb
  /\ UNCHANGED <<now, file, networks, todo, memory, redis, starts, source, listedAt>>

ClearNetworks(t) ==
  /\ load[t] = "clear networks"
  /\ networks' = {}
  /\ load' = [load EXCEPT ![t] = "open"]
  /\ source' = "file"
  /\ UNCHANGED <<now, file, addresses, todo, look, memory, redis, starts, listedAt>>

(* Mutant of Open: a load leaves the work to one that has already read the file. *)
OpenUnlessBusy(t) ==
  /\ load[t] = "open"
  /\ LET busy == \E u \in Threads : load[u] = "add"
     IN  /\ load' = [load EXCEPT ![t] = IF busy THEN "done" ELSE "add"]
         /\ todo' = [todo EXCEPT ![t] = IF busy THEN <<>> ELSE file]
  /\ UNCHANGED <<now, file, addresses, networks, look, memory, redis, starts, source, listedAt>>

(* The file is read as it is opened: it is smaller than a buffer. *)
Open(t) ==
  /\ load[t] = "open"
  /\ load' = [load EXCEPT ![t] = "add"]
  /\ todo' = [todo EXCEPT ![t] = file]
  /\ UNCHANGED <<now, file, addresses, networks, look, memory, redis, starts, source, listedAt>>

(* The file cannot be read or decoded: load() logs it and returns. *)
OpenFails(t) ==
  /\ load[t] = "open"
  /\ load' = [load EXCEPT ![t] = "done"]
  /\ source' = "failure"
  /\ UNCHANGED <<now, file, addresses, networks, todo, look, memory, redis, starts, listedAt>>

(* _add_entry; a line that is no entry is skipped. *)
AddEntry(t) ==
  /\ load[t] = "add" /\ todo[t] # <<>>
  /\ addresses' = addresses \cup ({Head(todo[t])} \cap Ips)
  /\ networks' = networks \cup ({Head(todo[t])} \cap Networks)
  /\ todo' = [todo EXCEPT ![t] = Tail(@)]
  /\ UNCHANGED <<now, file, load, look, memory, redis, starts, source, listedAt>>

(* Mutant of Loaded: a line that is no entry ends the reading. *)
LoadedEarly(t) ==
  /\ load[t] = "add" /\ (todo[t] = <<>> \/ Head(todo[t]) \in Junk)
  /\ load' = [load EXCEPT ![t] = "done"]
  /\ UNCHANGED <<now, file, addresses, networks, todo, look, memory, redis, starts,
                 source, listedAt>>

Loaded(t) ==
  /\ load[t] = "add" /\ todo[t] = <<>>
  /\ load' = [load EXCEPT ![t] = "done"]
  /\ UNCHANGED <<now, file, addresses, networks, todo, look, memory, redis, starts,
                 source, listedAt>>
----------------------------------------------------------------------------
(* TTLCache.get keeps a verdict through the second it expires in, Redis does not: its
   keys go as time passes. *)
InMemory(ip) == memory[ip] # None /\ now <= memory[ip].until
InRedis(ip)  == redis[ip] # None

(* Mutant of AnswerFromMemory: a verdict that is asked for is kept longer. *)
AnswerAndKeep(ip) ==
  /\ Free(Loop) /\ InMemory(ip)
  /\ memory' = [memory EXCEPT ![ip].until = now + MemoryTTL]
  /\ UNCHANGED <<now, look, redis, starts, blocklist>>

AnswerFromMemory(ip) ==
  /\ Free(Loop) /\ InMemory(ip)
  /\ UNCHANGED threatVars

(* A verdict from Redis is kept in memory for a full term of its own. *)
AnswerFromRedis(ip) ==
  /\ Free(Loop) /\ ~InMemory(ip) /\ InRedis(ip)
  /\ memory' = [memory EXCEPT ![ip] = [redis[ip] EXCEPT !.until = now + MemoryTTL]]
  /\ UNCHANGED <<now, look, redis, starts, blocklist>>

BeginSearch(ip) ==
  /\ Free(Loop) /\ ~InMemory(ip)
  /\ memory' = [memory EXCEPT ![ip] = None]
  /\ look' = [ip |-> ip, stage |-> "addresses", began |-> now,
              read |-> IF Loading THEN "disturbed" ELSE source, listed |-> Listed(ip)]
  /\ UNCHANGED <<now, redis, starts, blocklist>>

(* The verdict goes into both caches and to the caller. *)
Conclude(bad, ttl) ==
  LET verdict(term) == [bad |-> bad, read |-> look.read, until |-> now + term]
  IN  /\ memory' = [memory EXCEPT ![look.ip] = verdict(MemoryTTL)]
      /\ \/ redis' = [redis EXCEPT ![look.ip] = verdict(ttl)]
         \/ UNCHANGED redis
      /\ look' = Idle
      /\ UNCHANGED <<now, starts, blocklist>>

Searching(stage) == look.ip # NoIp /\ look.stage = stage

Continue(stage) ==
  /\ look' = [look EXCEPT !.stage = stage]
  /\ UNCHANGED <<now, memory, redis, starts, blocklist>>

(* Mutant of SearchAddresses: the networks are not looked at. *)
SearchAddressesOnly ==
  /\ Searching("addresses")
  /\ IF look.ip \in addresses THEN Conclude(TRUE, RedisTTL) ELSE Continue("abuseipdb")

(* is_blocked looks at the addresses, and then at the networks. *)
SearchAddresses ==
  /\ Searching("addresses")
  /\ IF look.ip \in addresses THEN Conclude(TRUE, RedisTTL) ELSE Continue("networks")

SearchNetworks ==
  /\ Searching("networks")
  /\ IF \E n \in networks : look.ip \in Covered[n]
     THEN Conclude(TRUE, RedisTTL) ELSE Continue("abuseipdb")

(* AbuseIPDB (external) has a score for the address, or there is no threat found. *)
AskAbuseIPDB ==
  /\ Searching("abuseipdb")
  /\ \/ \E bad \in BOOLEAN : Conclude(bad, RedisTTL)
     \/ Conclude(FALSE, NothingTTL)

Tick ==
  /\ now < MaxTime
  /\ look.ip # NoIp => now < look.began + LookupTime
  /\ now' = now + 1
  /\ redis' = [ip \in Ips |-> IF now' < redis[ip].until THEN redis[ip] ELSE None]
  /\ UNCHANGED <<look, memory, starts, blocklist>>

(* The process ends at any moment and is started again; the file and Redis stay. *)
Restart ==
  /\ starts < MaxStarts
  /\ starts' = starts + 1
  /\ Fresh
  /\ UNCHANGED <<now, file, redis, listedAt>>
----------------------------------------------------------------------------
LoadNext(t) == Clear(t) \/ ClearNetworks(t) \/ Open(t) \/ OpenFails(t) \/ AddEntry(t) \/ Loaded(t)

ThreatNext ==
  \/ \E t \in Threads : LoadNext(t) \/ \E line \in Lines : AddToBlocklist(t, line)
  \/ Reload
  \/ \E ip \in Ips : AnswerFromMemory(ip) \/ AnswerFromRedis(ip) \/ BeginSearch(ip)
  \/ SearchAddresses \/ SearchNetworks \/ AskAbuseIPDB
  \/ Tick \/ Restart

ThreatSpec == ThreatInit /\ [][ThreatNext]_threatVars
----------------------------------------------------------------------------
Verdicts == [bad : BOOLEAN, read : Sources, until : Nat]

(* The values of the variables; a thread holds lines only while it adds them. *)
ThreatTypeOK ==
  /\ now \in 0..MaxTime
  /\ file \in Seq(Lines) /\ Len(file) <= MaxLines
  /\ addresses \subseteq Ips /\ networks \subseteq Networks
  /\ load \in [Threads -> Stages]
  /\ todo \in [Threads -> Seq(Lines)]
  /\ \A t \in Threads : load[t] # "add" => todo[t] = <<>>
  /\ look \in [ip : Ips \cup {NoIp}, stage : {"addresses", "networks", "abuseipdb"},
               read : Sources, began : 0..MaxTime, listed : BOOLEAN]
  /\ memory \in [Ips -> Verdicts] /\ redis \in [Ips -> Verdicts]
  /\ starts \in 1..MaxStarts
  /\ source \in Sources \ {"disturbed"}
  /\ listedAt \in [Ips -> 0..Never]
  /\ \A ip \in Ips : listedAt[ip] <= now <=> Listed(ip)

(* Loads of several threads clear and fill the same sets in any order; when none is
   left, the sets are those of the file, whatever was appended meanwhile, unless the
   last one to clear them could not read it. *)
SetsMatchFile ==
  ~Loading /\ source = "file" =>
    /\ addresses = ToSet(file) \cap Ips
    /\ networks = ToSet(file) \cap Networks

(* A lookup whose looks at the two sets no load overlaps finds an address that the file
   blocked when it began, in either set, whatever is appended meanwhile.  A line appended
   later it may miss, and it may then ask its sources while a load brings that line. *)
SearchFindsListed ==
  Searching("abuseipdb") /\ look.read = "file" => ~look.listed

(* Nothing removes a cached verdict when an address is blocked; but a clean one, unless a
   load overlapped the looks it rests on, is gone after the rest of that lookup, one term
   in Redis and one in memory. *)
VerdictCatchesUp ==
  \A ip \in Ips :
    /\ InMemory(ip) /\ ~memory[ip].bad /\ memory[ip].read = "file"
       => now < listedAt[ip] + LookupTime + RedisTTL + MemoryTTL
    /\ InRedis(ip) /\ ~redis[ip].bad /\ redis[ip].read = "file"
       => now < listedAt[ip] + LookupTime + RedisTTL
=============================================================================
