---------------------------- MODULE HealthProofs ----------------------------
(***************************************************************************)
(* Proofs about Health.  The process is a lawful user of the plan cache,   *)
(* so what PlanCacheProofs shows of every behaviour of the cache holds     *)
(* under it, and the report of a probe rests on that.                      *)
(***************************************************************************)
EXTENDS Health, PlanCacheProofs, FiniteSetTheorems

-----------------------------------------------------------------------------
(* The cache under the process. *)

LEMMA HealthInitIsInit == HealthInit => Init
BY DEF HealthInit

(* What of the process is not the cache's leaves the cache alone. *)
Apart ==
  \/ Serve \/ Signal \/ Shutdown
  \/ \E r \in Requests : Accept(r)
  \/ \E t \in Threads : Refuse(t) \/ Embed(t) \/ Search(t)
  \/ \E p \in Probes : Probe(p)

LEMMA ApartFromCache == Apart => UNCHANGED vars
<1>1. Serve \/ Signal \/ Shutdown => UNCHANGED vars
  BY DEF Serve, Signal, Shutdown
<1>2. ASSUME NEW r \in Requests, Accept(r) PROVE UNCHANGED vars
  BY <1>2 DEF Accept
<1>3. ASSUME NEW t \in Threads, Refuse(t) \/ Embed(t) \/ Search(t) PROVE UNCHANGED vars
  BY <1>3 DEF Refuse, Embed, Search
<1>4. ASSUME NEW p \in Probes, Probe(p) PROVE UNCHANGED vars
  BY <1>4 DEF Probe, Handle, CheckOllama, CheckQdrant, Send
<1> QED BY <1>1, <1>2, <1>3, <1>4 DEF Apart

LEMMA HealthSteps ==
  ASSUME HealthNext
  PROVE  \/ LoadPlan \/ OtherFile \/ NewProcess \/ Apart
         \/ \E t \in Threads : CacheStep(t) \/ Resolved(t) \/ Ask(t)
BY DEF HealthNext, Running, Query, Apart

LEMMA HealthStepIsStep == [HealthNext]_healthVars => [Next]_vars
<1>1. CASE LoadPlan
  BY <1>1 DEF LoadPlan, Next
<1>2. CASE OtherFile
  BY <1>2 DEF OtherFile, Next
<1>3. CASE NewProcess
  BY <1>3 DEF NewProcess, Next
<1>4. CASE Apart \/ UNCHANGED healthVars
  BY <1>4, ApartFromCache DEF healthVars
<1>5. ASSUME NEW t \in Threads, CacheStep(t) \/ Resolved(t) \/ Ask(t) PROVE Next
  BY <1>5 DEF CacheStep, Resolved, Ask, Next, Step
<1> QED BY <1>1, <1>2, <1>3, <1>4, <1>5, HealthSteps

(* Whatever the lifespan, the probes and the restarts do, the cache behaves
   as PlanCache says: serve, healthz and lifespan call it only as it may be
   called.                                                                 *)
THEOREM UsesTheCacheLawfully == HealthSpec => Spec
BY HealthInitIsInit, HealthStepIsStep, PTL DEF HealthSpec, Spec

-----------------------------------------------------------------------------
(* The inductive invariant.                                                *)

(* A request is under way only while the process serves or drains, a process
   that serves has a plan; the only lookups are those of its queries, and
   before there are any the only calls are those of initial_load.          *)
LifeInv ==
  /\ mode # "starting" =>
       loaded /\ \A t \in Threads : pc[t] # "idle" <=> at[t] = "lookup"
  /\ mode = "starting" => \A t \in Threads : cn[t] = NoCN
  /\ mode \in {"starting", "closing", "stopped"} => \A r \in Requests : at[r] = "none"
  /\ mode \in {"starting", "serving", "draining"} => closed = {} /\ ~raised
  /\ mode = "closing" => closed = own \cap {"ollama"} /\ ~raised
  /\ mode = "stopped" => closed \subseteq own /\ (raised \/ closed = own)

(* A request has a call under way only of the client it waits for. *)
UseInv == \A r \in Requests : using[r] = {at[r]} \cap Clients

(* The check a probe carries is true of a version. *)
Reports(p, v) ==
  /\ v >= since0[p] /\ hist[v].kind = "plan"
  /\ check[p].agents = Count(hist[v].plan, "agent")
  /\ check[p].admins = Count(hist[v].plan, "admin")

ProbeInv(p) ==
  at[p] \in {"ollama", "qdrant", "send"} =>
    check[p].loaded /\ \E v \in 1 .. Latest : Reports(p, v)

HealthIInv ==
  /\ IInv
  /\ HealthTypeOK
  /\ LifeInv /\ UseInv
  /\ \A p \in Probes : ProbeInv(p)

-----------------------------------------------------------------------------
(* PlanCache.counts of a plan is a number of its names. *)
LEMMA Counts ==
  ASSUME NEW plan \in Plans \cup {NoPlan}, NEW role
  PROVE  Count(plan, role) \in 0 .. Cardinality(CNs)
<1> DEFINE named == {c \in DOMAIN plan : RoleOf[plan[c]] = role}
<1>1. named \in SUBSET CNs
  BY PlanEntries
<1>2. IsFiniteSet(named) /\ Cardinality(named) <= Cardinality(CNs)
  BY <1>1, FS_Subset, HealthAssumption
<1>3. Cardinality(named) \in Nat /\ Cardinality(CNs) \in Nat
  BY <1>2, FS_CardinalityType, HealthAssumption
<1> QED BY <1>2, <1>3 DEF Count

LEMMA NoCounts == NoCheck \in [loaded : BOOLEAN, agents : 0 .. Cardinality(CNs),
                                admins : 0 .. Cardinality(CNs)]
BY FS_CardinalityType, HealthAssumption DEF NoCheck

(* What the process leaves of the file's past: all of it. *)
LEMMA PastKept ==
  ASSUME TypeOK, [HealthNext]_healthVars
  PROVE  /\ Latest \in Nat \ {0} /\ Latest' \in Nat /\ Latest <= Latest'
         /\ \A v \in 1 .. Latest : hist'[v] = hist[v]
<1>1. hist \in Seq(Snapshots) /\ Latest \in Nat \ {0}
  BY PlanFileAssumption DEF TypeOK
<1>2. CASE UNCHANGED hist
  BY <1>1, <1>2 DEF Latest
<1>3. CASE WriteFile
  BY <1>1, <1>3, Written DEF WriteFile
<1>4. WriteFile \/ UNCHANGED hist
  <2>1. ASSUME NEW t \in Threads, InitialLoad(t) \/ Lookup(t) \/ Step(t)
        PROVE  UNCHANGED hist
    BY <2>1 DEF InitialLoad, Lookup, Begin, Step, Acquire, MtimeCheck, CheckPath,
                Read, Stat, Get, ReloadForUnknown, Release, envVars
  <2>2. Restart \/ Tick => UNCHANGED hist
    BY DEF Restart, Tick
  <2>3. UNCHANGED vars => UNCHANGED hist
    BY DEF vars, envVars
  <2> QED BY <2>1, <2>2, <2>3, HealthStepIsStep DEF Next
<1> QED BY <1>2, <1>3, <1>4

(* Only another process forgets the plan. *)
LEMMA LoadedStays ==
  ASSUME loaded, [HealthNext]_healthVars
  PROVE  loaded' \/ NewProcess
<1>1. ASSUME NEW t \in Threads, InitialLoad(t) \/ Lookup(t) \/ Step(t)
      PROVE  loaded'
  BY <1>1 DEF InitialLoad, Lookup, Begin, Step, Acquire, MtimeCheck, CheckPath,
              Read, Stat, Commit, Get, ReloadForUnknown, Release, cacheVars
<1>2. WriteFile \/ UNCHANGED vars => loaded'
  BY DEF WriteFile, ProgramVars, vars, cacheVars
<1>3. ASSUME NEW t \in Threads, CacheStep(t) \/ Resolved(t) \/ Ask(t) PROVE loaded'
  BY <1>1, <1>3 DEF CacheStep, Resolved, Ask, Step
<1>4. LoadPlan => loaded'
  BY <1>1 DEF LoadPlan
<1>5. OtherFile \/ UNCHANGED healthVars => loaded'
  BY <1>2 DEF OtherFile, healthVars
<1> QED BY <1>2, <1>3, <1>4, <1>5, ApartFromCache, HealthSteps

(* While the loop is free no caller of the cache can move. *)
LEMMA FreeMeansStill ==
  ASSUME LoopFree, NEW t \in Threads
  PROVE  ~Step(t)
BY DEF LoopFree, Step, Acquire, MtimeCheck, CheckPath, Read, Stat, Get,
       ReloadForUnknown, Release

-----------------------------------------------------------------------------
(* What the requests wait for. *)

LEMMA Moved ==
  ASSUME HealthTypeOK, NEW r \in Requests, NEW place \in Places, Move(r, place)
  PROVE  /\ at' \in [Requests -> Places] /\ using' \in [Requests -> SUBSET Clients]
         /\ at'[r] = place /\ \A q \in Requests \ {r} : at'[q] = at[q]
         /\ UseInv => UseInv'
<1>1. at \in [Requests -> Places] /\ using \in [Requests -> SUBSET Clients]
  BY DEF HealthTypeOK
<1>2. at' \in [Requests -> Places] /\ at'[r] = place
      /\ \A q \in Requests \ {r} : at'[q] = at[q]
  BY <1>1 DEF Move
<1>3. /\ using' = [using EXCEPT ![r] = (@ \ {at[r]}) \cup ({place} \cap Clients)]
      /\ (using[r] \ {at[r]}) \cup ({place} \cap Clients) \in SUBSET Clients
  BY <1>1 DEF Move
<1>4. using' \in [Requests -> SUBSET Clients]
      /\ \A q \in Requests \ {r} : using'[q] = using[q]
  BY <1>1, <1>3
<1>5. using[r] = {at[r]} \cap Clients => using'[r] = {place} \cap Clients
  BY <1>1, <1>3
<1> QED BY <1>2, <1>4, <1>5 DEF UseInv

LEMMA CheckedOllama ==
  ASSUME NEW p \in Probes, CheckOllama(p)
  PROVE  \/ Respond(p, 500) /\ UNCHANGED ollama
         \/ /\ Move(p, "qdrant") /\ UNCHANGED status
            /\ \E b \in BOOLEAN : ollama' = [ollama EXCEPT ![p] = b]
<1>1. PICK reply \in TagsReplies :
         IF TagsRaise(reply) THEN Respond(p, 500) /\ UNCHANGED ollama
         ELSE /\ Move(p, "qdrant")
              /\ ollama' = [ollama EXCEPT ![p] = Healthy(OllamaStatus(reply))]
              /\ UNCHANGED status
  BY DEF CheckOllama
<1>2. Healthy(OllamaStatus(reply)) \in BOOLEAN
  BY DEF Healthy
<1> QED BY <1>1, <1>2

LEMMA CheckedQdrant ==
  ASSUME NEW p \in Probes, CheckQdrant(p)
  PROVE  \E code \in {200, 503} : Respond(p, code)
BY DEF CheckQdrant

(* Every step moves one request, or none, or all to the next process. *)
LEMMA OneMoves ==
  ASSUME [HealthNext]_healthVars
  PROVE  \/ UNCHANGED requestVars \/ NewProcess
         \/ \E r \in Requests, place \in Places : Move(r, place)
<1>1. {"none", "accepted", "lookup", "ollama", "qdrant", "send"} = Places
  BY DEF Places
<1>2. LoadPlan \/ OtherFile \/ Serve \/ Signal \/ Shutdown \/ UNCHANGED healthVars
        => UNCHANGED requestVars
  BY DEF LoadPlan, OtherFile, Serve, Signal, Shutdown, healthVars
<1>3. ASSUME NEW r \in Requests, Accept(r)
      PROVE  \E place \in Places : Move(r, place)
  BY <1>1, <1>3 DEF Accept
<1>4. ASSUME NEW t \in Threads, Running(t) \/ Query(t)
      PROVE  UNCHANGED requestVars \/ \E place \in Places : Move(t, place)
  <2>1. CASE CacheStep(t)
    BY <2>1 DEF CacheStep
  <2>2. CASE Resolved(t) \/ Query(t)
    <3>1. PICK place \in {"none", "lookup", "ollama", "qdrant"} : Move(t, place)
      BY <2>2 DEF Resolved, Query, Ask, Refuse, Search, Embed
    <3> QED BY <1>1, <3>1
  <2> QED BY <1>4, <2>1, <2>2 DEF Running
<1>5. ASSUME NEW p \in Probes, Probe(p)
      PROVE  \E place \in Places : Move(p, place)
  BY <1>1, <1>5, CheckedOllama, CheckedQdrant DEF Probe, Handle, Send, Respond
<1>6. Threads \subseteq Requests /\ Probes \subseteq Requests
  BY DEF Requests
<1> QED BY <1>2, <1>3, <1>4, <1>5, <1>6 DEF HealthNext

LEMMA RequestStep ==
  ASSUME HealthTypeOK, UseInv, [HealthNext]_healthVars
  PROVE  /\ at' \in [Requests -> Places] /\ using' \in [Requests -> SUBSET Clients]
         /\ UseInv'
<1>1. CASE UNCHANGED requestVars
  BY <1>1 DEF requestVars, HealthTypeOK, UseInv
<1>2. CASE NewProcess
  <2>1. at' = [r \in Requests |-> "none"] /\ using' = [r \in Requests |-> {}]
    BY <1>2 DEF NewProcess, ForEach
  <2> QED BY <2>1 DEF Places, Clients, UseInv
<1>3. ASSUME NEW r \in Requests, NEW place \in Places, Move(r, place)
      PROVE  /\ at' \in [Requests -> Places] /\ using' \in [Requests -> SUBSET Clients]
             /\ UseInv'
  BY <1>3, Moved
<1> QED BY <1>1, <1>2, <1>3, OneMoves

-----------------------------------------------------------------------------
Reporting == {"ollama", "qdrant", "send"}

(* A probe under way carries on with the report it has. *)
LEMMA OtherProbes ==
  ASSUME HealthIInv, [HealthNext]_healthVars, NEW p \in Probes,
         at'[p] \in Reporting =>
           at[p] \in Reporting /\ UNCHANGED <<check[p], since0[p]>>
  PROVE  ProbeInv(p)'
<1> SUFFICES ASSUME at'[p] \in Reporting
             PROVE  check'[p].loaded /\ \E v \in 1 .. Latest' : Reports(p, v)'
  BY DEF ProbeInv, Reporting
<1>1. check[p].loaded /\ \E v \in 1 .. Latest : Reports(p, v)
  BY DEF HealthIInv, ProbeInv, Reporting
<1>2. PICK v \in 1 .. Latest : Reports(p, v)
  BY <1>1
<1>3. v \in 1 .. Latest' /\ hist'[v] = hist[v]
  BY PastKept DEF HealthIInv, IInv
<1>4. Reports(p, v)'
  BY <1>2, <1>3 DEF Reports, Count
<1> QED BY <1>1, <1>3, <1>4

-----------------------------------------------------------------------------
LEMMA HealthInvInit == HealthInit => HealthIInv
<1> SUFFICES ASSUME HealthInit PROVE HealthIInv
  OBVIOUS
<1>1. IInv
  BY InvInit, HealthInitIsInit
<1>2. Latest \in Nat \ {0}
  BY <1>1, Sizes DEF IInv
<1>3. /\ mode = "starting" /\ own \subseteq Clients /\ closed = {} /\ raised = FALSE
      /\ at = [r \in Requests |-> "none"] /\ using = [r \in Requests |-> {}]
      /\ status = [p \in Probes |-> 0] /\ ollama = [p \in Probes |-> FALSE]
  BY DEF HealthInit, ForAll, ForEach
<1>4. at \in [Requests -> Places] /\ using \in [Requests -> SUBSET Clients]
  BY <1>3 DEF Places
<1>5. Probes \subseteq Requests /\ Threads \subseteq Requests
  BY DEF Requests
<1>6. HealthTypeOK
  <2>1. check \in [Probes -> [loaded : BOOLEAN, agents : 0 .. Cardinality(CNs),
                              admins : 0 .. Cardinality(CNs)]]
    BY NoCounts DEF HealthInit, ForAll
  <2>2. since0 \in [Probes -> 0 .. Latest]
    BY <1>2 DEF HealthInit, ForAll
  <2>3. \A p \in Probes : status[p] # 0 <=> at[p] = "send"
    BY <1>3, <1>5
  <2> QED BY <1>3, <1>4, <2>1, <2>2, <2>3 DEF HealthTypeOK
<1>7. LifeInv /\ UseInv
  <2>1. \A t \in Threads : cn[t] = NoCN
    BY DEF HealthInit, Init, Everyone
  <2> QED BY <1>3, <2>1 DEF LifeInv, UseInv, Clients
<1>8. \A p \in Probes : ProbeInv(p)
  BY <1>3, <1>5 DEF ProbeInv
<1> QED BY <1>1, <1>6, <1>7, <1>8 DEF HealthIInv

(* The process keeps its types ... *)
LEMMA LifeTypes ==
  ASSUME HealthTypeOK, [HealthNext]_healthVars
  PROVE  /\ mode' \in {"starting", "serving", "draining", "closing", "stopped"}
         /\ own' \subseteq Clients /\ closed' \subseteq Clients /\ raised' \in BOOLEAN
<1> USE DEF HealthTypeOK
<1>1. CASE UNCHANGED lifeVars
  BY <1>1 DEF lifeVars
<1>2. CASE Serve \/ Signal \/ NewProcess
  BY <1>2 DEF Serve, Signal, NewProcess
<1>3. CASE Shutdown
  BY <1>3 DEF Shutdown, Close, Clients
<1>4. LoadPlan \/ OtherFile \/ UNCHANGED healthVars => UNCHANGED lifeVars
  BY DEF LoadPlan, OtherFile, healthVars
<1>5. ASSUME NEW r \in Requests, Accept(r) PROVE UNCHANGED lifeVars
  BY <1>5 DEF Accept
<1>6. ASSUME NEW t \in Threads, Running(t) \/ Query(t) PROVE UNCHANGED lifeVars
  BY <1>6 DEF Running, Query, CacheStep, Resolved, Ask, Refuse, Embed, Search
<1>7. ASSUME NEW p \in Probes, Probe(p) PROVE UNCHANGED lifeVars
  BY <1>7 DEF Probe, Handle, CheckOllama, CheckQdrant, Send
<1> QED BY <1>1, <1>2, <1>3, <1>4, <1>5, <1>6, <1>7 DEF HealthNext

(* ... and so do the probes. *)
ProbeTypes ==
  /\ check \in [Probes -> [loaded : BOOLEAN, agents : 0 .. Cardinality(CNs),
                           admins : 0 .. Cardinality(CNs)]]
  /\ ollama \in [Probes -> BOOLEAN]
  /\ status \in [Probes -> {0, 200, 500, 503}]
  /\ \A p \in Probes : status[p] # 0 <=> at[p] = "send"
  /\ since0 \in [Probes -> 0 .. Latest]

LEMMA ProbeTypesStep ==
  ASSUME HealthIInv, [HealthNext]_healthVars
  PROVE  ProbeTypes'
<1>1. /\ ProbeTypes /\ HealthTypeOK /\ TypeOK
      /\ Latest \in Nat /\ Latest' \in Nat /\ Latest <= Latest'
  BY PastKept DEF HealthIInv, HealthTypeOK, IInv, ProbeTypes
<1>2. since0 \in [Probes -> 0 .. Latest']
  BY <1>1 DEF ProbeTypes
<1>3. Probes \subseteq Requests /\ Threads \subseteq Requests /\ Probes \cap Threads = {}
  BY HealthAssumption DEF Requests
<1>4. CASE UNCHANGED <<at, probeVars>>
  BY <1>1, <1>2, <1>4 DEF ProbeTypes, probeVars
<1>5. CASE NewProcess
  <2>1. since0' \in [Probes -> 0 .. Latest']
    BY <1>1, <1>5 DEF NewProcess, ForAll
  <2>2. check' \in [Probes -> [loaded : BOOLEAN, agents : 0 .. Cardinality(CNs),
                               admins : 0 .. Cardinality(CNs)]]
    BY <1>5, NoCounts DEF NewProcess, ForAll
  <2>3. /\ at' = [r \in Requests |-> "none"] /\ status' = [p \in Probes |-> 0]
        /\ ollama' = [p \in Probes |-> FALSE]
    BY <1>5 DEF NewProcess, ForAll, ForEach
  <2> QED BY <1>3, <2>1, <2>2, <2>3 DEF ProbeTypes
<1>6. ASSUME UNCHANGED probeVars, NEW r \in Requests, NEW place \in Places \ {"send"},
             Move(r, place), r \in Threads \/ at[r] # "send"
      PROVE  ProbeTypes'
  <2>1. at'[r] = place /\ \A q \in Requests \ {r} : at'[q] = at[q]
    BY <1>1, <1>6, Moved
  <2>2. \A p \in Probes : at'[p] = "send" <=> at[p] = "send"
    BY <1>3, <1>6, <2>1
  <2> QED BY <1>1, <1>2, <1>6, <2>2 DEF ProbeTypes, probeVars
<1>7. ASSUME NEW r \in Requests, Accept(r) PROVE ProbeTypes'
  BY <1>6, <1>7 DEF Accept, Places
<1>8. ASSUME NEW t \in Threads, Running(t) \/ Query(t) PROVE ProbeTypes'
  <2>1. CASE CacheStep(t)
    BY <1>4, <2>1 DEF CacheStep, requestVars
  <2>2. UNCHANGED probeVars
    BY <1>8 DEF Running, Query, CacheStep, Resolved, Ask, Refuse, Embed, Search
  <2>3. CASE Resolved(t) \/ Ask(t) \/ Refuse(t) \/ Search(t) \/ Embed(t)
    <3>1. \E place \in {"none", "lookup", "ollama", "qdrant"} : Move(t, place)
      BY <2>3 DEF Resolved, Ask, Refuse, Search, Embed
    <3> QED BY <1>3, <1>6, <2>2, <3>1 DEF Places
  <2> QED BY <1>8, <2>1, <2>3 DEF Running, Query
<1>9. ASSUME NEW p \in Probes, Probe(p) PROVE ProbeTypes'
  <2>1. CASE Handle(p)
    <3>1. served \in 0 .. Latest'
      BY <1>1, Sizes DEF HealthIInv, IInv, CacheInv
    <3>2. since0' \in [Probes -> 0 .. Latest']
      BY <1>2, <2>1, <3>1 DEF Handle
    <3>3. PlanCheck \in [loaded : BOOLEAN, agents : 0 .. Cardinality(CNs),
                         admins : 0 .. Cardinality(CNs)]
      BY <1>1, Counts DEF TypeOK, PlanCheck
    <3>4. check' \in [Probes -> [loaded : BOOLEAN, agents : 0 .. Cardinality(CNs),
                                 admins : 0 .. Cardinality(CNs)]]
      BY <1>1, <2>1, <3>3 DEF Handle, ProbeTypes
    <3>5. at'[p] = "ollama" /\ \A q \in Requests \ {p} : at'[q] = at[q]
      BY <1>1, <1>3, <2>1, Moved DEF Handle, Places
    <3>6. at[p] = "accepted" /\ UNCHANGED <<ollama, status>>
      BY <2>1 DEF Handle
    <3>7. \A q \in Probes : status'[q] # 0 <=> at'[q] = "send"
      BY <1>1, <1>3, <3>5, <3>6 DEF ProbeTypes
    <3> QED BY <1>1, <3>2, <3>4, <3>6, <3>7 DEF ProbeTypes
  <2>2. CASE CheckOllama(p) \/ CheckQdrant(p)
    <3>1. UNCHANGED <<check, since0>>
      BY <2>2 DEF CheckOllama, CheckQdrant
    <3>2. ollama' \in [Probes -> BOOLEAN]
      BY <1>1, <2>2, CheckedOllama DEF ProbeTypes, CheckQdrant
    <3>3. ASSUME NEW code \in {200, 500, 503}, Respond(p, code)
          PROVE  /\ status' \in [Probes -> {0, 200, 500, 503}]
                 /\ \A q \in Probes : status'[q] # 0 <=> at'[q] = "send"
      <4>1. at'[p] = "send" /\ \A q \in Requests \ {p} : at'[q] = at[q]
        BY <1>1, <1>3, <3>3, Moved DEF Respond, Places
      <4>2. /\ status' \in [Probes -> {0, 200, 500, 503}] /\ status'[p] = code
            /\ \A q \in Probes \ {p} : status'[q] = status[q]
        BY <1>1, <3>3 DEF Respond, ProbeTypes
      <4> QED BY <1>1, <1>3, <4>1, <4>2 DEF ProbeTypes
    <3>4. ASSUME Move(p, "qdrant"), UNCHANGED status, at[p] = "ollama"
          PROVE  /\ status' \in [Probes -> {0, 200, 500, 503}]
                 /\ \A q \in Probes : status'[q] # 0 <=> at'[q] = "send"
      <4>1. at'[p] = "qdrant" /\ \A q \in Requests \ {p} : at'[q] = at[q]
        BY <1>1, <1>3, <3>4, Moved DEF Places
      <4> QED BY <1>1, <1>3, <3>4, <4>1 DEF ProbeTypes
    <3>5. at[p] = "ollama" \/ CheckQdrant(p)
      BY <2>2 DEF CheckOllama
    <3>6. /\ status' \in [Probes -> {0, 200, 500, 503}]
          /\ \A q \in Probes : status'[q] # 0 <=> at'[q] = "send"
      <4>1. CASE CheckOllama(p)
        BY <3>3, <3>4, <4>1, CheckedOllama DEF CheckOllama
      <4>2. CASE CheckQdrant(p)
        BY <3>3, <4>2, CheckedQdrant
      <4> QED BY <2>2, <4>1, <4>2
    <3> QED BY <1>2, <3>1, <3>2, <3>6, <1>1 DEF ProbeTypes
  <2>3. CASE Send(p)
    <3>1. check' \in [Probes -> [loaded : BOOLEAN, agents : 0 .. Cardinality(CNs),
                                 admins : 0 .. Cardinality(CNs)]]
      BY <1>1, <2>3, NoCounts DEF Send, ProbeTypes
    <3>2. since0' \in [Probes -> 0 .. Latest'] /\ ollama' \in [Probes -> BOOLEAN]
      BY <1>1, <1>2, <2>3 DEF Send, ProbeTypes
    <3>3. at'[p] = "none" /\ \A q \in Requests \ {p} : at'[q] = at[q]
      BY <1>1, <1>3, <2>3, Moved DEF Send, Places
    <3>4. /\ status' \in [Probes -> {0, 200, 500, 503}] /\ status'[p] = 0
          /\ \A q \in Probes \ {p} : status'[q] = status[q]
      BY <1>1, <2>3 DEF Send, ProbeTypes
    <3>5. \A q \in Probes : status'[q] # 0 <=> at'[q] = "send"
      BY <1>1, <1>3, <3>3, <3>4 DEF ProbeTypes
    <3> QED BY <3>1, <3>2, <3>4, <3>5 DEF ProbeTypes
  <2> QED BY <1>9, <2>1, <2>2, <2>3 DEF Probe
<1>10. LoadPlan \/ OtherFile \/ Serve \/ Signal \/ Shutdown \/ UNCHANGED healthVars
         => UNCHANGED <<at, probeVars>>
  BY DEF LoadPlan, OtherFile, Serve, Signal, Shutdown, healthVars, requestVars
<1> QED BY <1>4, <1>5, <1>7, <1>8, <1>9, <1>10 DEF HealthNext

LEMMA HealthTypeStep ==
  ASSUME HealthIInv, [HealthNext]_healthVars
  PROVE  HealthTypeOK'
BY LifeTypes, ProbeTypesStep, RequestStep DEF HealthIInv, HealthTypeOK, ProbeTypes

(* What a step inside a call does to the calls. *)
LEMMA CallGoesOn ==
  ASSUME TypeOK, NEW t \in Threads, CacheStep(t)
  PROVE  /\ pc[t] # "idle" /\ pc'[t] # "idle" /\ cn' = cn
         /\ \A u \in Threads \ {t} : pc'[u] = pc[u]
<1>1. pc \in [Threads -> Steps]
  BY DEF TypeOK
<1>2. PICK step \in Steps \ {"idle"} : Goto(t, step) /\ pc[t] # "idle" /\ cn' = cn
  <2>1. CASE Acquire(t)
    BY <2>1 DEF Acquire, FirstStep, Steps
  <2>2. CASE MtimeCheck(t) \/ ReloadForUnknown(t)
    BY <2>2 DEF MtimeCheck, ReloadForUnknown, Steps
  <2>3. CASE CheckPath(t) \/ Read(t) \/ Get(t)
    BY <2>3 DEF CheckPath, Read, Get, Return, Steps
  <2>4. CASE Stat(t)
    BY <2>4 DEF Stat, Return, Steps
  <2>5. ~Release(t)
    BY DEF CacheStep, Release
  <2> QED BY <2>1, <2>2, <2>3, <2>4, <2>5 DEF CacheStep, Step
<1> QED BY <1>1, <1>2 DEF Goto

(* The process: what it has closed, and when there is nobody left. *)
LEMMA LifeStep ==
  ASSUME HealthIInv, [HealthNext]_healthVars
  PROVE  LifeInv'
<1>1. /\ LifeInv /\ HealthTypeOK /\ TypeOK /\ own \subseteq Clients
      /\ at \in [Requests -> Places]
  BY DEF HealthIInv, HealthTypeOK, IInv
<1>2. Probes \subseteq Requests /\ Threads \subseteq Requests /\ Probes \cap Threads = {}
  BY HealthAssumption DEF Requests
<1>3. CASE NewProcess
  <2>1. /\ mode' = "starting" /\ closed' = {} /\ ~raised'
        /\ at' = [r \in Requests |-> "none"] /\ cn' = [t \in Threads |-> NoCN]
    BY <1>3 DEF NewProcess, Restart, ForEach, Everyone
  <2> QED BY <2>1 DEF LifeInv
<1> SUFFICES ASSUME ~NewProcess PROVE LifeInv'
  BY <1>3
<1>4. mode # "starting" => loaded'
  BY <1>1, LoadedStays DEF LifeInv
<1>5. CASE LoadPlan
  <2>1. mode = "starting" /\ UNCHANGED <<mode, own, closed, raised, at>>
    BY <1>5 DEF LoadPlan, lifeVars, requestVars
  <2>2. \A t \in Threads : cn'[t] = NoCN
    BY <1>1, <1>5, <2>1 DEF LoadPlan, InitialLoad, Begin, LifeInv, TypeOK
  <2> QED BY <1>1, <2>1, <2>2 DEF LifeInv
<1>6. CASE OtherFile \/ UNCHANGED healthVars
  <2>1. UNCHANGED <<mode, own, closed, raised, at, pc, cn>>
    BY <1>6 DEF OtherFile, WriteFile, ProgramVars, callVars, healthVars, vars,
                lifeVars, requestVars
  <2> QED BY <1>1, <1>4, <2>1 DEF LifeInv
<1>7. CASE Serve \/ Signal
  <2>1. UNCHANGED <<own, closed, raised, at, pc, loaded>>
    BY <1>7 DEF Serve, Signal, vars, cacheVars, callVars, requestVars
  <2>2. CASE Serve
    <3>1. mode = "starting" /\ mode' = "serving" /\ loaded /\ LoopFree
      BY <2>2 DEF Serve
    <3> QED BY <1>1, <1>2, <2>1, <3>1 DEF LifeInv, LoopFree
  <2>3. CASE Signal
    <3>1. mode = "serving" /\ mode' = "draining"
      BY <2>3 DEF Signal
    <3> QED BY <1>1, <2>1, <3>1 DEF LifeInv
  <2> QED BY <1>7, <2>2, <2>3
<1>8. CASE Shutdown
  <2>1. UNCHANGED <<own, at, pc, cn>>
    BY <1>8 DEF Shutdown, vars, callVars, requestVars
  <2>2. CASE mode = "draining" /\ Drained /\ Close("ollama", "closing")
    <3>1. closed = {} /\ ~raised /\ \A r \in Requests : at'[r] = "none"
      BY <1>1, <2>1, <2>2 DEF Drained, LifeInv
    <3>2. mode' \in {"closing", "stopped"}
      BY <2>2 DEF Close
    <3> QED BY <1>1, <1>4, <2>1, <2>2, <3>1, <3>2 DEF Close, LifeInv, Clients
  <2>3. CASE mode = "closing" /\ Close("qdrant", "stopped")
    <3>1. closed = own \cap {"ollama"} /\ ~raised /\ \A r \in Requests : at'[r] = "none"
      BY <1>1, <2>1, <2>3 DEF LifeInv
    <3>2. (IF "qdrant" \in own THEN closed \cup {"qdrant"} ELSE closed) = own
      BY <1>1, <3>1 DEF Clients
    <3>3. mode' = "stopped" /\ closed' \subseteq own' /\ (raised' \/ closed' = own')
      BY <2>1, <2>3, <3>1, <3>2 DEF Close
    <3> QED BY <1>1, <1>4, <2>1, <2>3, <3>1, <3>3 DEF LifeInv
  <2> QED BY <1>8, <2>2, <2>3 DEF Shutdown
<1>9. ASSUME NEW t \in Threads, CacheStep(t) PROVE LifeInv'
  <2>1. /\ pc[t] # "idle" /\ pc'[t] # "idle" /\ cn' = cn
        /\ \A u \in Threads \ {t} : pc'[u] = pc[u]
    BY <1>1, <1>9, CallGoesOn
  <2>2. UNCHANGED <<mode, own, closed, raised, at>>
    BY <1>9 DEF CacheStep, lifeVars, requestVars
  <2>3. \A u \in Threads : pc'[u] # "idle" <=> pc[u] # "idle"
    BY <2>1
  <2> QED BY <1>1, <1>4, <2>1, <2>2, <2>3 DEF LifeInv
(* The other steps move a request, and those of a query with the loop free
   or at the end of its lookup.                                            *)
<1>10. ASSUME UNCHANGED <<mode, own, closed, raised, cn>>, mode \in {"serving", "draining"},
              \A t \in Threads : pc'[t] # "idle" <=> at'[t] = "lookup"
       PROVE  LifeInv'
  BY <1>1, <1>4, <1>10 DEF LifeInv
<1>11. ASSUME NEW r \in Requests, Accept(r) PROVE LifeInv'
  <2>1. at'[r] = "accepted" /\ \A q \in Requests \ {r} : at'[q] = at[q]
    BY <1>1, <1>11, Moved DEF Accept, Places
  <2>2. mode = "serving" /\ at[r] = "none" /\ UNCHANGED <<mode, own, closed, raised, cn, pc>>
    BY <1>11 DEF Accept, vars, callVars, lifeVars
  <2> QED BY <1>1, <1>2, <1>10, <2>1, <2>2 DEF LifeInv
<1>12. ASSUME NEW p \in Probes, Probe(p) PROVE LifeInv'
  <2>1. PICK place \in {"none", "ollama", "qdrant", "send"} : Move(p, place)
    BY <1>12, CheckedOllama, CheckedQdrant DEF Probe, Handle, Send, Respond
  <2>2. \A q \in Requests \ {p} : at'[q] = at[q]
    BY <1>1, <1>2, <2>1, Moved DEF Places
  <2>3. at[p] # "none" /\ UNCHANGED <<mode, own, closed, raised, cn, pc>>
    BY <1>12 DEF Probe, Handle, CheckOllama, CheckQdrant, Send, vars, callVars, lifeVars
  <2>4. mode \in {"serving", "draining"}
    BY <1>1, <1>2, <2>3 DEF LifeInv, HealthTypeOK
  <2> QED BY <1>1, <1>2, <1>10, <2>2, <2>3, <2>4 DEF LifeInv
<1>13. ASSUME NEW t \in Threads, Query(t) PROVE LifeInv'
  <2>1. LoopFree /\ at[t] \notin {"none", "lookup"} /\ UNCHANGED <<mode, own, closed, raised>>
    BY <1>13 DEF Query, Ask, Refuse, Embed, Search, lifeVars
  <2>2. mode \in {"serving", "draining"}
    BY <1>1, <1>2, <2>1 DEF LifeInv, HealthTypeOK
  <2>3. CASE Ask(t)
    <3>1. at'[t] = "lookup" /\ \A q \in Requests \ {t} : at'[q] = at[q]
      BY <1>1, <1>2, <2>3, Moved DEF Ask, Places
    <3>2. pc' = [pc EXCEPT ![t] = "lock"]
      BY <2>3 DEF Ask, Lookup, Begin, Goto
    <3>3. \A u \in Threads : pc'[u] # "idle" <=> at'[u] = "lookup"
      BY <1>1, <1>2, <2>2, <3>1, <3>2 DEF LifeInv, TypeOK
    <3> QED BY <1>1, <1>4, <2>1, <2>2, <3>3 DEF LifeInv
  <2>4. CASE Refuse(t) \/ Embed(t) \/ Search(t)
    <3>1. PICK place \in {"none", "qdrant"} : Move(t, place)
      BY <2>4 DEF Refuse, Embed, Search
    <3>2. at'[t] = place /\ \A q \in Requests \ {t} : at'[q] = at[q]
      BY <1>1, <1>2, <3>1, Moved DEF Places
    <3>3. UNCHANGED <<pc, cn>>
      BY <2>4 DEF Refuse, Embed, Search, vars, callVars
    <3> QED BY <1>1, <1>2, <1>10, <2>1, <2>2, <3>2, <3>3 DEF LifeInv
  <2> QED BY <1>13, <2>3, <2>4 DEF Query
<1>14. ASSUME NEW t \in Threads, Resolved(t) PROVE LifeInv'
  <2>1. /\ pc[t] = "release" /\ pc' = [pc EXCEPT ![t] = "idle"]
        /\ cn' = [cn EXCEPT ![t] = NoCN] /\ UNCHANGED <<mode, own, closed, raised>>
    BY <1>14 DEF Resolved, Release, Goto, lifeVars
  <2>2. PICK place \in {"ollama", "none"} :
          Move(t, place) /\ (place = "none" \/ result[t].tag = "found")
    BY <1>14 DEF Resolved
  <2>3. at'[t] = place /\ \A q \in Requests \ {t} : at'[q] = at[q]
    BY <1>1, <1>2, <2>2, Moved DEF Places
  <2>4. CASE mode = "starting"
    <3>1. cn[t] = NoCN
      BY <1>1, <2>4 DEF LifeInv
    <3>2. result[t].tag # "found"
      <4> SUFFICES ASSUME result[t].tag = "found" PROVE FALSE
        OBVIOUS
      <4>1. Exact(t) /\ agents \in Plans \cup {NoPlan}
        BY <1>1 DEF HealthIInv, IInv, CallInv, Answered, TypeOK
      <4>2. cn[t] \in DOMAIN agents
        BY <4>1 DEF Exact
      <4>3. DOMAIN agents \subseteq CNs
        BY <4>1, PlanEntries
      <4> QED BY <3>1, <4>2, <4>3, PlanCacheAssumption
    <3>3. (\A r \in Requests : at'[r] = "none") /\ \A u \in Threads : cn'[u] = NoCN
      BY <1>1, <2>1, <2>2, <2>3, <2>4, <3>2 DEF LifeInv, TypeOK
    <3> QED BY <1>1, <2>1, <2>4, <3>3 DEF LifeInv
  <2>5. CASE mode # "starting"
    <3>1. at[t] = "lookup"
      BY <1>1, <2>1, <2>5 DEF LifeInv
    <3>2. mode \in {"serving", "draining"}
      BY <1>1, <1>2, <3>1 DEF LifeInv, HealthTypeOK
    <3>3. \A u \in Threads : pc'[u] # "idle" <=> at'[u] = "lookup"
      BY <1>1, <1>2, <2>1, <2>3, <3>2 DEF LifeInv, TypeOK
    <3> QED BY <1>1, <1>4, <2>1, <3>2, <3>3 DEF LifeInv
  <2> QED BY <2>4, <2>5
<1> QED BY <1>3, <1>5, <1>6, <1>7, <1>8, <1>9, <1>11, <1>12, <1>13, <1>14
        DEF HealthNext, Running

(* The probes: a report is taken from the cache, which holds one version,
   and goes with its probe.                                                *)
LEMMA ProbeStep ==
  ASSUME HealthIInv, [HealthNext]_healthVars, NEW p \in Probes
  PROVE  ProbeInv(p)'
<1>1. /\ HealthTypeOK /\ at \in [Requests -> Places]
      /\ DOMAIN check = Probes /\ DOMAIN since0 = Probes
  BY DEF HealthIInv, HealthTypeOK
<1>2. p \in Requests /\ Threads \subseteq Requests /\ p \notin Threads
      /\ Probes \subseteq Requests
  BY HealthAssumption DEF Requests
<1>3. CASE UNCHANGED <<at, probeVars>>
  BY <1>3, OtherProbes DEF probeVars
<1>4. CASE NewProcess
  <2>1. at'[p] = "none"
    BY <1>2, <1>4 DEF NewProcess, ForEach
  <2> QED BY <2>1 DEF ProbeInv
<1>5. ASSUME NEW r \in Requests, r # p, NEW place \in Places, Move(r, place),
             UNCHANGED <<check[p], since0[p]>>
      PROVE  ProbeInv(p)'
  <2>1. at'[p] = at[p]
    BY <1>1, <1>2, <1>5, Moved
  <2> QED BY <1>5, <2>1, OtherProbes
<1>6. ASSUME NEW r \in Requests, Accept(r) PROVE ProbeInv(p)'
  <2>1. CASE r = p
    <3>1. at'[p] = "accepted"
      BY <1>1, <1>6, <2>1, Moved DEF Accept, Places
    <3> QED BY <3>1 DEF ProbeInv
  <2>2. CASE r # p
    BY <1>5, <1>6, <2>2 DEF Accept, Places, probeVars
  <2> QED BY <2>1, <2>2
<1>7. ASSUME NEW t \in Threads, Running(t) \/ Query(t) PROVE ProbeInv(p)'
  <2>1. UNCHANGED probeVars
    BY <1>7 DEF Running, Query, CacheStep, Resolved, Ask, Refuse, Embed, Search
  <2>2. CASE CacheStep(t)
    BY <1>3, <2>2 DEF CacheStep, requestVars
  <2>3. CASE Resolved(t) \/ Query(t)
    <3>1. PICK place \in {"none", "lookup", "ollama", "qdrant"} : Move(t, place)
      BY <2>3 DEF Resolved, Query, Ask, Refuse, Search, Embed
    <3> QED BY <1>2, <1>5, <2>1, <3>1 DEF Places, probeVars
  <2> QED BY <1>7, <2>2, <2>3 DEF Running
<1>8. CASE Handle(p)
  <2>1. /\ LoopFree /\ since0'[p] = served /\ hist' = hist /\ ver' = ver
        /\ check'[p] = [loaded |-> loaded, agents |-> Count(agents, "agent"),
                        admins |-> Count(agents, "admin")]
    BY <1>1, <1>8 DEF Handle, PlanCheck, vars, envVars, ghostVars
  <2>2. mode # "starting"
    BY <1>2, <1>8 DEF Handle, HealthIInv, LifeInv
  <2>3. loaded /\ ver \in 1 .. Latest
        /\ ver >= served /\ hist[ver].kind = "plan" /\ agents = hist[ver].plan
    BY <2>2, Sizes DEF HealthIInv, IInv, CacheInv, LifeInv
  <2>4. Reports(p, ver)'
    BY <2>1, <2>3 DEF Reports, Count
  <2>5. ver' \in 1 .. Latest' /\ check'[p].loaded
    BY <2>1, <2>3 DEF Latest
  <2> QED BY <2>4, <2>5 DEF ProbeInv
<1>9. CASE Send(p)
  <2>1. at'[p] = "none"
    BY <1>1, <1>2, <1>9, Moved DEF Send, Places
  <2> QED BY <2>1 DEF ProbeInv
<1>10. CASE CheckOllama(p) \/ CheckQdrant(p)
  <2>1. at[p] \in Reporting /\ UNCHANGED <<check, since0>>
    BY <1>10 DEF CheckOllama, CheckQdrant, Reporting
  <2> QED BY <2>1, OtherProbes
<1>11. ASSUME NEW q \in Probes, q # p, Probe(q) PROVE ProbeInv(p)'
  <2>1. PICK place \in {"none", "ollama", "qdrant", "send"} : Move(q, place)
    BY <1>11, CheckedOllama, CheckedQdrant DEF Probe, Handle, Send, Respond
  <2>2. UNCHANGED <<check[p], since0[p]>>
    BY <1>1, <1>11 DEF Probe, Handle, CheckOllama, CheckQdrant, Send
  <2> QED BY <1>2, <1>5, <1>11, <2>1, <2>2 DEF Places
<1>12. LoadPlan \/ OtherFile \/ Serve \/ Signal \/ Shutdown \/ UNCHANGED healthVars
         => UNCHANGED <<at, probeVars>>
  BY DEF LoadPlan, OtherFile, Serve, Signal, Shutdown, healthVars, requestVars
<1> QED BY <1>3, <1>4, <1>6, <1>7, <1>8, <1>9, <1>10, <1>11, <1>12
        DEF HealthNext, Probe

LEMMA HealthInvStep == HealthIInv /\ [HealthNext]_healthVars => HealthIInv'
<1> SUFFICES ASSUME HealthIInv, [HealthNext]_healthVars PROVE HealthIInv'
  OBVIOUS
<1>1. IInv'
  BY InvStep, HealthStepIsStep DEF HealthIInv
<1>2. HealthTypeOK' /\ LifeInv'
  BY HealthTypeStep, LifeStep
<1>4. UseInv'
  BY RequestStep DEF HealthIInv
<1>3. \A p \in Probes : ProbeInv(p)'
  BY ProbeStep
<1> QED BY <1>1, <1>2, <1>3, <1>4 DEF HealthIInv

(* The plan is loaded from the first request to the last, every report is
   one version's, and closing the clients begins only once all is quiet.   *)
THEOREM HealthInvariance == HealthSpec => []HealthIInv
BY HealthInvInit, HealthInvStep, PTL DEF HealthSpec

-----------------------------------------------------------------------------
(* Every variable of the process and its probes keeps its type. *)
THEOREM HealthTypeCorrect == HealthSpec => []HealthTypeOK
<1>1. HealthIInv => HealthTypeOK
  BY DEF HealthIInv
<1> QED BY <1>1, HealthInvariance, PTL

(* /healthz reports on one version of the plan, none older than what had
   been answered from when the probe arrived, whatever replaces the file or
   the cached plan while it awaits Ollama and Qdrant.                      *)
THEOREM ReportsAreExact == HealthSpec => []ReportExact
<1>1. HealthIInv => ReportExact
  <2> SUFFICES ASSUME HealthIInv, NEW p \in Probes, status[p] \in {200, 503}
               PROVE  /\ check[p].loaded
                      /\ \E v \in 1 .. Latest :
                           /\ v >= since0[p] /\ hist[v].kind = "plan"
                           /\ check[p].agents = Count(hist[v].plan, "agent")
                           /\ check[p].admins = Count(hist[v].plan, "admin")
    BY DEF ReportExact
  <2>1. at[p] = "send" /\ ProbeInv(p)
    BY DEF HealthIInv, HealthTypeOK
  <2> QED BY <2>1 DEF ProbeInv, Reports
<1> QED BY <1>1, HealthInvariance, PTL

(* No client is closed while a probe or a query has a call of it under way
   or may come to make one: a handler waits for each call it makes before
   it answers, and the lifespan ends after the last answer.                *)
THEOREM ClientsOutliveUse == HealthSpec => []NoUseAfterClose
<1>1. HealthIInv => NoUseAfterClose
  <2> SUFFICES ASSUME HealthIInv, NEW r \in Requests
               PROVE  /\ using[r] \cap closed = {}
                      /\ at[r] \notin {"none", "send"} => closed = {}
    BY DEF NoUseAfterClose
  <2>1. using[r] = {at[r]} \cap Clients
    BY DEF HealthIInv, UseInv
  <2>2. at[r] # "none" => closed = {}
    BY DEF HealthIInv, HealthTypeOK, LifeInv
  <2> QED BY <2>1, <2>2 DEF Clients
<1> QED BY <1>1, HealthInvariance, PTL

(* The lifespan closes what the application made and all of it, unless an
   aclose raises, and never what it was handed.                            *)
THEOREM OwnClientsClosed == HealthSpec => []ClosesItsOwn
<1>1. HealthIInv => ClosesItsOwn
  BY DEF HealthIInv, HealthTypeOK, LifeInv, ClosesItsOwn
<1> QED BY <1>1, HealthInvariance, PTL

=============================================================================
