--------------------------- MODULE PlanCacheProofs ---------------------------
(***************************************************************************)
(* Proofs about PlanCache, for every set of callers, plans, faults and     *)
(* options and without the bounds the model checker needs.                 *)
(***************************************************************************)
EXTENDS PlanCache, PlanFileProofs

LEMMA TypeInit == Init => TypeOK
<1> SUFFICES ASSUME Init PROVE TypeOK
  OBVIOUS
<1>1. hist \in Seq(Snapshots) /\ Latest \in 1 .. MaxVersions
  BY FirstContent, PlanFileAssumption DEF Init
<1>2. draft \in [Threads -> [plan : Plans \cup {NoPlan}, ver : Nat]]
  BY DEF Init, Everyone, NoDraft
<1>3. result \in [Threads -> [tag : Tags, entry : Entries \cup {NoEntry}, from : Nat]]
  BY DEF Init, Everyone, NoResult, Tagged, Tags
<1>4. pc \in [Threads -> Steps] /\ site \in [Threads -> Sites]
  BY DEF Init, Everyone, Steps, Sites
<1>5. /\ config \in Configs /\ lock \in Threads \cup {NoThread}
      /\ agents \in Plans \cup {NoPlan} /\ loaded \in BOOLEAN
      /\ cn \in [Threads -> CNs \cup {NoCN}]
  BY DEF Init, Everyone
<1>6. /\ mtime \in Nat /\ now \in 0 .. MaxClock /\ lastUnknown \in 0 .. now
      /\ restarts \in 0 .. MaxRestarts
      /\ ver \in Nat /\ stampVer \in Nat /\ served \in Nat
      /\ started \in 0 .. now /\ nUnknown \in Nat /\ nChanged \in Nat
  BY PlanCacheAssumption DEF Init
<1>7. since \in [Threads -> Nat] /\ floor \in [Threads -> Nat]
  BY DEF Init, Everyone
<1> QED BY <1>1, <1>2, <1>3, <1>4, <1>5, <1>6, <1>7 DEF TypeOK

(* What a return leaves behind. *)
Results == [tag : Tags, entry : Entries \cup {NoEntry}, from : Nat]

LEMMA Returned ==
  ASSUME TypeOK, NEW t \in Threads, NEW r \in Results, Return(t, r)
  PROVE  pc' \in [Threads -> Steps] /\ result' \in [Threads -> Results]
BY DEF TypeOK, Return, Goto, Steps, Results

LEMMA Refusals == ASSUME NEW tag \in Tags PROVE Tagged(tag) \in Results
BY DEF Tagged, Results

LEMMA TypeStep == TypeOK /\ [Next]_vars => TypeOK'
<1> SUFFICES ASSUME TypeOK, [Next]_vars PROVE TypeOK'
  OBVIOUS
<1> USE DEF TypeOK, Latest
<1>1. ASSUME NEW t \in Threads, InitialLoad(t) \/ Lookup(t) PROVE TypeOK'
  <2>1. PICK s \in {"initial", "lookup"}, c \in CNs \cup {NoCN} : Begin(t, s, c)
    BY <1>1 DEF InitialLoad, Lookup
  <2>2. pc' \in [Threads -> Steps] /\ site' \in [Threads -> Sites]
    BY <2>1 DEF Begin, Goto, Steps, Sites
  <2>3. /\ cn' \in [Threads -> CNs \cup {NoCN}]
        /\ since' \in [Threads -> Nat] /\ floor' \in [Threads -> Nat]
    BY <2>1 DEF Begin
  <2> QED BY <2>1, <2>2, <2>3 DEF Begin, cacheVars, ghostVars, envVars
<1>2. ASSUME NEW t \in Threads, Acquire(t) PROVE TypeOK'
  BY <1>2 DEF Acquire, FirstStep, Goto, Steps, Sites, ghostVars, envVars
<1>3. ASSUME NEW t \in Threads, MtimeCheck(t) PROVE TypeOK'
  BY <1>3 DEF MtimeCheck, Goto, Steps, Sites, cacheVars, ghostVars, envVars
<1>4. ASSUME NEW t \in Threads, CheckPath(t) PROVE TypeOK'
  <2>1. pc' \in [Threads -> Steps] /\ result' \in [Threads -> Results]
    <3>1. CASE PathIsFile(Present)
      BY <1>4, <3>1 DEF CheckPath, Goto, Steps, Results
    <3>2. CASE ~PathIsFile(Present)
      BY <1>4, <3>2, Refusals, Returned DEF CheckPath, Tags
    <3> QED BY <3>1, <3>2
  <2> QED BY <1>4, <2>1 DEF CheckPath, Results, cacheVars, ghostVars, envVars
<1>5. ASSUME NEW t \in Threads, Read(t) PROVE TypeOK'
  <2>1. Present \in Snapshots
    BY DEF Present
  <2>2. LoadOutcome(Present) \in Tags
    BY DEF LoadOutcome, Tags
  <2>3. /\ pc' \in [Threads -> Steps] /\ result' \in [Threads -> Results]
        /\ draft' \in [Threads -> [plan : Plans \cup {NoPlan}, ver : Nat]]
    <3>1. CASE LoadOutcome(Present) = "loaded"
      <4>1. [plan |-> Present.plan, ver |-> Latest]
              \in [plan : Plans \cup {NoPlan}, ver : Nat]
        BY <2>1 DEF Snapshots
      <4>2. draft' = [draft EXCEPT ![t] = [plan |-> Present.plan, ver |-> Latest]]
        BY <1>5, <3>1 DEF Read
      <4>3. Goto(t, "stat") /\ UNCHANGED result
        BY <1>5, <3>1 DEF Read
      <4>4. draft' \in [Threads -> [plan : Plans \cup {NoPlan}, ver : Nat]]
        BY <4>1, <4>2
      <4>5. pc' \in [Threads -> Steps] /\ result' \in [Threads -> Results]
        BY <4>3 DEF Goto, Steps, Results
      <4> QED BY <4>4, <4>5
    <3>2. CASE LoadOutcome(Present) # "loaded"
      BY <1>5, <2>2, <3>2, Refusals, Returned DEF Read
    <3> QED BY <3>1, <3>2
  <2> QED BY <1>5, <2>3 DEF Read, Results, cacheVars, ghostVars, envVars
<1>6. ASSUME NEW t \in Threads, Stat(t) PROVE TypeOK'
  <2>1. Present \in Snapshots
    BY DEF Present
  <2>2. pc' \in [Threads -> Steps] /\ result' \in [Threads -> Results]
    <3>1. CASE Return(t, Tagged("plan_error")) \/ Return(t, Tagged("loaded"))
      BY <3>1, Refusals, Returned DEF Tags
    <3>2. CASE Goto(t, "get") /\ UNCHANGED result
      BY <3>2 DEF Goto, Steps, Results
    <3> QED BY <1>6, <3>1, <3>2 DEF Stat
  <2>3. draft' \in [Threads -> [plan : Plans \cup {NoPlan}, ver : Nat]]
    BY <1>6 DEF Stat, NoDraft
  <2>4. /\ agents' \in Plans \cup {NoPlan} /\ mtime' \in Nat
        /\ loaded' \in BOOLEAN /\ ver' \in Nat /\ stampVer' \in Nat
        /\ nChanged' \in Nat
    <3>1. CASE StatFails(Present)
      BY <1>6, <3>1 DEF Stat
    <3>2. CASE ~StatFails(Present)
      <4>1. Commit(t)
        BY <1>6, <3>2 DEF Stat
      <4>2. draft[t] \in [plan : Plans \cup {NoPlan}, ver : Nat]
        OBVIOUS
      <4>3. nChanged' \in Nat
        BY <1>6, <3>2 DEF Stat
      <4> QED BY <2>1, <4>1, <4>2, <4>3 DEF Commit, Snapshots
    <3> QED BY <3>1, <3>2
  <2> QED BY <1>6, <2>2, <2>3, <2>4 DEF Stat, Results, envVars
<1>7. ASSUME NEW t \in Threads, Get(t) PROVE TypeOK'
  <2>1. (IF Hit(t) THEN [tag |-> "found", entry |-> agents[cn[t]], from |-> ver]
                   ELSE [tag |-> "unknown", entry |-> NoEntry, from |-> ver])
          \in [tag : Tags, entry : Entries \cup {NoEntry}, from : Nat]
    BY PlanEntries DEF Hit, Tags
  <2> QED BY <1>7, <2>1 DEF Get, Return, Goto, Steps, cacheVars, envVars
<1>8. ASSUME NEW t \in Threads, ReloadForUnknown(t) PROVE TypeOK'
  BY <1>8 DEF ReloadForUnknown, Goto, Steps, Sites, envVars
<1>9. ASSUME NEW t \in Threads, Release(t) PROVE TypeOK'
  BY <1>9 DEF Release, Goto, NoResult, Tagged, Steps, Sites, Tags, ghostVars, envVars
<1>10. ASSUME WriteFile PROVE TypeOK'
  BY <1>10, Written, PlanFileAssumption
  DEF WriteFile, ProgramVars, cacheVars, callVars, ghostVars
<1>11. ASSUME Tick PROVE TypeOK'
  BY <1>11, PlanCacheAssumption DEF Tick, ProgramVars, cacheVars, callVars, ghostVars
<1>12. ASSUME Restart PROVE TypeOK'
  <2>1. draft' \in [Threads -> [plan : Plans \cup {NoPlan}, ver : Nat]]
    BY <1>12 DEF Restart, Everyone, NoDraft
  <2>2. result' \in [Threads -> [tag : Tags, entry : Entries \cup {NoEntry}, from : Nat]]
    BY <1>12 DEF Restart, Everyone, NoResult, Tagged, Tags
  <2>3. pc' \in [Threads -> Steps] /\ site' \in [Threads -> Sites]
    BY <1>12 DEF Restart, Everyone, Steps, Sites
  <2>4. /\ cn' \in [Threads -> CNs \cup {NoCN}]
        /\ since' \in [Threads -> Nat] /\ floor' \in [Threads -> Nat]
    BY <1>12 DEF Restart, Everyone
  <2>5. restarts' \in 0 .. MaxRestarts /\ lastUnknown' \in 0 .. now' /\ started' \in 0 .. now'
    BY <1>12, PlanCacheAssumption DEF Restart
  <2> QED BY <1>12, <2>1, <2>2, <2>3, <2>4, <2>5 DEF Restart
<1>13. ASSUME UNCHANGED vars PROVE TypeOK'
  BY <1>13 DEF vars, cacheVars, callVars, ghostVars, envVars
<1> QED BY <1>1, <1>2, <1>3, <1>4, <1>5, <1>6, <1>7, <1>8, <1>9, <1>10, <1>11,
           <1>12, <1>13 DEF Next, Step

(* Every field of the cache and of its callers keeps to its type. *)
THEOREM TypeCorrect == Spec => []TypeOK
BY TypeInit, TypeStep, PTL DEF Spec

-----------------------------------------------------------------------------
(* The inductive invariant behind the safety properties.                   *)

(* Exactly the caller that is past Acquire holds the lock. *)
LockInv == \A t \in Threads : pc[t] \in Holding <=> lock = t

(* The cached plan is one whole version and the stamp that of the same or a
   later one; nothing has been served that is newer.                       *)
CacheInv ==
  /\ served <= Latest
  /\ loaded =>
       /\ ver \in 1 .. stampVer /\ stampVer <= Latest /\ served <= ver
       /\ hist[ver].kind = "plan" /\ agents = hist[ver].plan
       /\ mtime = hist[stampVer].mtime

(* What a caller has just read is a version as new as its call. *)
Drafted(t) ==
  /\ draft[t].ver \in since[t] .. Latest /\ draft[t].ver >= served
  /\ hist[draft[t].ver].kind = "plan" /\ draft[t].plan = hist[draft[t].ver].plan

(* The cache is as fresh as the call's options promise. *)
Fresh(t) ==
  /\ ~config.cache_enabled => ver >= since[t]
  /\ config.reload_on_mtime_change =>
       ver >= since[t] \/ Raced \/ SameStamp(since[t])

(* An answer under way is the cache's present answer. *)
Exact(t) ==
  /\ loaded /\ result[t].from = ver
  /\ result[t].tag = "found" <=> cn[t] \in DOMAIN agents
  /\ result[t].tag = "found" => result[t].entry = agents[cn[t]]

Current(t) ==
  \E v \in since[t] .. Latest : LoadOutcome(hist[v]) = result[t].tag

CallInv(t) ==
  /\ pc[t] # "idle" =>
       /\ since[t] \in 1 .. Latest /\ floor[t] <= served
       /\ site[t] # "initial" => loaded
       /\ site[t] = "initial" <=> cn[t] = NoCN
  /\ pc[t] \in {"mtime", "get"} => site[t] # "initial"
  /\ pc[t] = "mtime" => config.cache_enabled
  /\ pc[t] = "stat" => Drafted(t)
  /\ pc[t] = "get" => Fresh(t)
  /\ pc[t] # "release" => result[t] = NoResult
  /\ pc[t] = "release" => result[t].tag # "none"
  /\ Answered(t) => Exact(t) /\ Fresh(t)
  /\ Failed(t) => Current(t)

IInv == TypeOK /\ LockInv /\ CacheInv /\ \A t \in Threads : CallInv(t)

(* Sizes that later steps reckon with. *)
LEMMA Sizes ==
  ASSUME TypeOK
  PROVE  /\ Latest \in Nat \ {0} /\ served \in Nat /\ ver \in Nat /\ stampVer \in Nat
         /\ \A t \in Threads : since[t] \in Nat /\ floor[t] \in Nat
BY PlanFileAssumption DEF TypeOK

LEMMA InvInit == Init => IInv
<1> SUFFICES ASSUME Init PROVE IInv
  OBVIOUS
<1>1. TypeOK
  BY TypeInit
<1>2. LockInv
  BY PlanCacheAssumption DEF Init, Everyone, LockInv, Holding, Steps
<1>3. CacheInv
  BY FirstContent DEF Init, CacheInv
<1>4. ASSUME NEW t \in Threads PROVE CallInv(t)
  BY DEF Init, Everyone, CallInv, NoResult, Tagged, Answered, Failed
<1> QED BY <1>1, <1>2, <1>3, <1>4 DEF IInv

(* Callers that a step does not concern. *)
LEMMA OthersWait ==
  ASSUME NEW u \in Threads, CallInv(u), pc[u] \in {"idle", "lock"},
         Latest \in Nat, served \in Int, served' \in Int, floor[u] \in Int,
         loaded => loaded', served <= served',
         UNCHANGED <<hist, pc[u], site[u], cn[u], result[u], since[u], floor[u]>>
  PROVE  CallInv(u)'
BY DEF CallInv, Latest, NoResult, Tagged, Answered, Failed

LEMMA OthersGoOn ==
  ASSUME NEW u \in Threads, CallInv(u),
         UNCHANGED <<pc[u], site[u], cn[u], draft[u], result[u], since[u], floor[u],
                     hist, config, agents, mtime, loaded, ver, stampVer, served>>
  PROVE  CallInv(u)'
BY DEF CallInv, Latest, NoResult, Tagged, Answered, Failed, Drafted, Fresh,
       Exact, Current, Raced, SameStamp

LEMMA CacheKept ==
  ASSUME CacheInv,
         UNCHANGED <<hist, agents, mtime, loaded, ver, stampVer, served>>
  PROVE  CacheInv'
BY DEF CacheInv, Latest

(* The holder moves on inside the lock. *)
LEMMA LockKept ==
  ASSUME TypeOK, LockInv, NEW t \in Threads, NEW s \in Holding, pc[t] \in Holding,
         Goto(t, s), UNCHANGED lock
  PROVE  LockInv'
BY DEF TypeOK, LockInv, Goto

LEMMA InvBegin ==
  ASSUME IInv, TypeOK', NEW t \in Threads, InitialLoad(t) \/ Lookup(t)
  PROVE  IInv'
<1>1. PICK s \in {"initial", "lookup"}, c \in CNs \cup {NoCN} :
        /\ Begin(t, s, c)
        /\ s # "initial" => loaded
        /\ s = "initial" <=> c = NoCN
  BY PlanCacheAssumption DEF InitialLoad, Lookup
<1>2. LockInv'
  BY <1>1 DEF IInv, TypeOK, LockInv, Holding, Steps, Begin, Goto, cacheVars
<1>3. CacheInv'
  BY <1>1, CacheKept DEF IInv, Begin, cacheVars, ghostVars, envVars
<1>4. ASSUME NEW u \in Threads PROVE CallInv(u)'
  <2>1. CASE u # t
    BY <1>1, <2>1, OthersGoOn
    DEF IInv, TypeOK, Begin, Goto, cacheVars, ghostVars, envVars
  <2>2. CASE u = t
    <3>1. /\ pc'[t] = "lock" /\ site'[t] = s /\ cn'[t] = c /\ since'[t] = Latest
          /\ floor'[t] = served /\ result' = result /\ hist' = hist
          /\ served' = served /\ loaded' = loaded
      BY <1>1 DEF IInv, TypeOK, Begin, Goto, cacheVars, ghostVars, envVars
    <3>2. result[t] = NoResult
      BY <1>1 DEF IInv, CallInv, Begin
    <3>3. Latest \in Nat \ {0} /\ served \in Nat
      BY Sizes DEF IInv
    <3>4. Latest' = Latest
      BY <3>1 DEF Latest
    <3> QED BY <1>1, <2>2, <3>1, <3>2, <3>3, <3>4
            DEF CallInv, NoResult, Tagged, Answered, Failed
  <2> QED BY <2>1, <2>2
<1> QED BY <1>2, <1>3, <1>4 DEF IInv

(* A step of a caller that has the lock and changes neither the cache nor
   anything of another caller.                                             *)
LEMMA StepInside ==
  ASSUME IInv, TypeOK', NEW t \in Threads, NEW s \in Holding,
         pc[t] \in Holding, Goto(t, s), CallInv(t)',
         \A u \in Threads \ {t} :
           UNCHANGED <<site[u], cn[u], draft[u], result[u], since[u], floor[u]>>,
         UNCHANGED <<hist, config, lock, agents, mtime, loaded, ver, stampVer, served>>
  PROVE  IInv'
<1>1. LockInv'
  BY LockKept DEF IInv
<1>2. CacheInv'
  BY CacheKept DEF IInv
<1>3. ASSUME NEW u \in Threads PROVE CallInv(u)'
  <2>1. CASE u = t
    BY <2>1
  <2>2. CASE u # t
    BY <2>2, OthersGoOn DEF IInv, TypeOK, Goto
  <2> QED BY <2>1, <2>2
<1> QED BY <1>1, <1>2, <1>3 DEF IInv

LEMMA InvAcquire ==
  ASSUME IInv, TypeOK', NEW t \in Threads, Acquire(t)
  PROVE  IInv'
<1>1. FirstStep(t) \in Holding
  BY DEF FirstStep, Holding, Steps
<1>2. LockInv'
  BY <1>1, PlanCacheAssumption DEF IInv, TypeOK, LockInv, Acquire, Goto
<1>3. CacheInv'
  BY CacheKept DEF IInv, Acquire, ghostVars, envVars
<1>4. ASSUME NEW u \in Threads PROVE CallInv(u)'
  <2>1. CASE u # t
    BY <2>1, OthersGoOn DEF IInv, TypeOK, Acquire, Goto, ghostVars, envVars
  <2>2. CASE u = t
    <3>1. /\ pc'[t] = FirstStep(t) /\ since' = since /\ floor' = floor
          /\ cn' = cn /\ result' = result /\ hist' = hist /\ served' = served
          /\ loaded' = loaded /\ config' = config
          /\ site'[t] = "initial" <=> site[t] = "initial"
      BY DEF IInv, TypeOK, Acquire, Goto, ghostVars, envVars
    <3>2. pc[t] = "lock" /\ result[t] = NoResult /\ CallInv(t)
      BY DEF IInv, CallInv, Acquire
    <3>3. Latest' = Latest
      BY <3>1 DEF Latest
    <3> QED BY <2>2, <3>1, <3>2, <3>3
            DEF CallInv, FirstStep, Fresh, NoResult, Tagged, Answered, Failed
  <2> QED BY <2>1, <2>2
<1> QED BY <1>2, <1>3, <1>4 DEF IInv

(* An unchanged stamp means a fresh plan, but for a race or a stamp used
   again.                                                                  *)
LEMMA UnchangedIsFresh ==
  ASSUME IInv, NEW t \in Threads, loaded, config.cache_enabled,
         since[t] \in 1 .. Latest, ~MtimeChanged
  PROVE  Fresh(t)
<1>1. mtime = hist[Latest].mtime
  BY DEF MtimeChanged, Present
<1>2. ver \in 1 .. stampVer /\ stampVer <= Latest
  BY DEF IInv, CacheInv
<1>3. CASE stampVer = Latest
  BY <1>2, <1>3, Sizes DEF IInv, Fresh, Raced
<1>4. CASE stampVer # Latest
  BY <1>1, <1>4, Sizes DEF IInv, Fresh, SameStamp
<1> QED BY <1>3, <1>4

LEMMA InvMtimeCheck ==
  ASSUME IInv, TypeOK', NEW t \in Threads, MtimeCheck(t)
  PROVE  IInv'
<1>1. /\ pc[t] = "mtime" /\ CallInv(t) /\ result[t] = NoResult
      /\ loaded /\ config.cache_enabled /\ since[t] \in 1 .. Latest
      /\ cn[t] # NoCN
  BY DEF IInv, CallInv, MtimeCheck
<1>2. /\ UNCHANGED <<hist, config, lock, agents, mtime, loaded, ver, stampVer, served>>
      /\ UNCHANGED <<cn, draft, result, since, floor>>
  BY DEF MtimeCheck, cacheVars, ghostVars, envVars
<1>3. Latest' = Latest
  BY <1>2 DEF Latest
<1>4. CASE MtimeChanged
  <2>1. Goto(t, "check") /\ site' = [site EXCEPT ![t] = "mtime"]
    BY <1>4 DEF MtimeCheck
  <2>2. pc'[t] = "check" /\ site'[t] = "mtime"
    BY <2>1 DEF IInv, TypeOK, Goto
  <2>3. CallInv(t)'
    BY <1>1, <1>2, <1>3, <2>2 DEF CallInv, NoResult, Tagged, Answered, Failed
  <2>4. \A u \in Threads \ {t} :
          UNCHANGED <<site[u], cn[u], draft[u], result[u], since[u], floor[u]>>
    BY <1>2, <2>1 DEF IInv, TypeOK
  <2> QED BY <1>1, <1>2, <2>1, <2>3, <2>4, StepInside DEF Holding, Steps
<1>5. CASE ~MtimeChanged
  <2>1. Goto(t, "get") /\ UNCHANGED site
    BY <1>5 DEF MtimeCheck
  <2>2. pc'[t] = "get" /\ Fresh(t)
    BY <1>1, <1>5, <2>1, UnchangedIsFresh DEF IInv, TypeOK, Goto
  <2>3. Fresh(t)'
    BY <1>2, <1>3, <2>2 DEF Fresh, Raced, SameStamp
  <2>4. CallInv(t)'
    BY <1>1, <1>2, <1>3, <2>1, <2>2, <2>3
    DEF CallInv, NoResult, Tagged, Answered, Failed
  <2>5. \A u \in Threads \ {t} :
          UNCHANGED <<site[u], cn[u], draft[u], result[u], since[u], floor[u]>>
    BY <1>2, <2>1
  <2> QED BY <1>1, <1>2, <2>1, <2>4, <2>5, StepInside DEF Holding, Steps
<1> QED BY <1>4, <1>5

(* A caller that stops with a refusal. *)
LEMMA StepRefused ==
  ASSUME IInv, TypeOK', NEW t \in Threads, pc[t] \in Holding \ {"release"},
         NEW tag \in {"plan_error", "uncaught"}, Return(t, Tagged(tag)),
         \E v \in since[t] .. Latest : LoadOutcome(hist[v]) = tag,
         \A u \in Threads \ {t} : UNCHANGED draft[u],
         UNCHANGED <<site, cn, since, floor>>,
         UNCHANGED <<hist, config, lock, agents, mtime, loaded, ver, stampVer, served>>
  PROVE  IInv'
<1>1. Goto(t, "release") /\ "release" \in Holding
  BY DEF Return, Holding, Steps
<1>2. pc'[t] = "release" /\ result'[t] = Tagged(tag)
  BY DEF IInv, TypeOK, Return, Goto
<1>3. result'[t].tag = tag
  BY <1>2 DEF Tagged
<1>4. Latest' = Latest
  BY DEF Latest
<1>5. pc[t] # "idle" /\ CallInv(t)
  BY DEF IInv, Holding
<1>6. CallInv(t)'
  BY <1>2, <1>3, <1>4, <1>5 DEF CallInv, Answered, Failed, Current
<1>7. \A u \in Threads \ {t} :
        UNCHANGED <<site[u], cn[u], draft[u], result[u], since[u], floor[u]>>
  BY DEF IInv, TypeOK, Return
<1> QED BY <1>1, <1>6, <1>7, StepInside

LEMMA InvCheckPath ==
  ASSUME IInv, TypeOK', NEW t \in Threads, CheckPath(t)
  PROVE  IInv'
<1>1. /\ pc[t] = "check" /\ CallInv(t) /\ result[t] = NoResult
      /\ since[t] \in 1 .. Latest
  BY DEF IInv, CallInv, CheckPath
<1>2. /\ UNCHANGED <<hist, config, lock, agents, mtime, loaded, ver, stampVer, served>>
      /\ UNCHANGED <<site, cn, draft, since, floor>>
  BY DEF CheckPath, cacheVars, ghostVars, envVars
<1>3. CASE PathIsFile(Present)
  <2>1. Goto(t, "read") /\ UNCHANGED result
    BY <1>3 DEF CheckPath
  <2>2. pc'[t] = "read" /\ Latest' = Latest
    BY <1>2, <2>1 DEF IInv, TypeOK, Goto, Latest
  <2>3. CallInv(t)'
    BY <1>1, <1>2, <2>1, <2>2 DEF CallInv, NoResult, Tagged, Answered, Failed
  <2> QED BY <1>1, <1>2, <2>1, <2>3, StepInside DEF Holding, Steps
<1>4. CASE ~PathIsFile(Present)
  <2>1. LoadOutcome(hist[Latest]) = "plan_error"
    BY <1>4 DEF PathIsFile, LoadOutcome, Present
  <2>2. Latest \in since[t] .. Latest
    BY <1>1, Sizes DEF IInv
  <2>3. Return(t, Tagged("plan_error"))
    BY <1>4 DEF CheckPath
  <2> QED BY <1>1, <1>2, <2>1, <2>2, <2>3, StepRefused DEF Holding, Steps
<1> QED BY <1>3, <1>4

LEMMA InvRead ==
  ASSUME IInv, TypeOK', NEW t \in Threads, Read(t)
  PROVE  IInv'
<1>1. /\ pc[t] = "read" /\ CallInv(t) /\ result[t] = NoResult
      /\ since[t] \in 1 .. Latest
  BY DEF IInv, CallInv, Read
<1>2. /\ UNCHANGED <<hist, config, lock, agents, mtime, loaded, ver, stampVer, served>>
      /\ UNCHANGED <<site, cn, since, floor>>
  BY DEF Read, cacheVars, ghostVars, envVars
<1>3. Latest \in since[t] .. Latest
  BY <1>1, Sizes DEF IInv
<1>4. CASE LoadOutcome(Present) = "loaded"
  <2>1. Goto(t, "stat") /\ UNCHANGED result
    BY <1>4 DEF Read
  <2>2. draft' = [draft EXCEPT ![t] = [plan |-> Present.plan, ver |-> Latest]]
    BY <1>4 DEF Read
  <2>3. pc'[t] = "stat" /\ Latest' = Latest
    BY <1>2, <2>1 DEF IInv, TypeOK, Goto, Latest
  <2>4. draft'[t].plan = hist[Latest].plan /\ draft'[t].ver = Latest
    BY <2>2 DEF IInv, TypeOK, Present
  <2>5. hist[Latest].kind = "plan" /\ served <= Latest
    BY <1>4 DEF LoadOutcome, Present, IInv, CacheInv
  <2>6. Drafted(t)'
    BY <1>2, <1>3, <2>3, <2>4, <2>5 DEF Drafted
  <2>7. CallInv(t)'
    BY <1>1, <1>2, <2>1, <2>3, <2>6 DEF CallInv, NoResult, Tagged, Answered, Failed
  <2>8. \A u \in Threads \ {t} :
          UNCHANGED <<site[u], cn[u], draft[u], result[u], since[u], floor[u]>>
    BY <1>2, <2>1, <2>2 DEF IInv, TypeOK
  <2> QED BY <1>1, <1>2, <2>1, <2>7, <2>8, StepInside DEF Holding, Steps
<1>5. CASE LoadOutcome(Present) # "loaded"
  <2>1. Return(t, Tagged(LoadOutcome(Present))) /\ UNCHANGED draft
    BY <1>5 DEF Read
  <2>2. LoadOutcome(Present) \in {"plan_error", "uncaught"}
    BY <1>5 DEF LoadOutcome
  <2>3. \E v \in since[t] .. Latest : LoadOutcome(hist[v]) = LoadOutcome(Present)
    BY <1>3 DEF Present
  <2> QED BY <1>1, <1>2, <2>1, <2>2, <2>3, StepRefused DEF Holding, Steps
<1> QED BY <1>4, <1>5

(* While one caller is inside the lock the others are outside. *)
LEMMA OthersOutside ==
  ASSUME IInv, NEW t \in Threads, pc[t] \in Holding, NEW u \in Threads, u # t
  PROVE  pc[u] \in {"idle", "lock"}
BY DEF IInv, TypeOK, LockInv, Holding

LEMMA InvCommit ==
  ASSUME IInv, TypeOK', NEW t \in Threads, Stat(t), ~StatFails(Present)
  PROVE  IInv'
<1>1. /\ pc[t] = "stat" /\ pc[t] \in Holding /\ CallInv(t) /\ Drafted(t)
      /\ result[t] = NoResult /\ since[t] \in 1 .. Latest
  BY DEF IInv, CallInv, Stat, Holding, Steps
<1>2. UNCHANGED <<hist, config, lock, site, cn, since, floor, served>>
  BY DEF Stat, envVars
<1>3. Latest' = Latest
  BY <1>2 DEF Latest
<1>4. /\ agents' = draft[t].plan /\ ver' = draft[t].ver
      /\ mtime' = hist[Latest].mtime /\ stampVer' = Latest /\ loaded' = TRUE
  BY DEF Stat, Commit, Present
<1>5. PICK s \in {"release", "get"} : Goto(t, s)
  BY DEF Stat, Return
<1>6. LockInv'
  BY <1>1, <1>2, <1>5, LockKept DEF IInv, Holding, Steps
<1>7. CacheInv'
  <2>1. draft[t].ver \in 1 .. Latest /\ served <= draft[t].ver
    BY <1>1, Sizes DEF IInv, Drafted
  <2>2. hist[draft[t].ver].kind = "plan" /\ draft[t].plan = hist[draft[t].ver].plan
    BY <1>1 DEF Drafted
  <2>3. served <= Latest /\ Latest \in Nat
    BY Sizes DEF IInv, CacheInv
  <2> QED BY <1>2, <1>3, <1>4, <2>1, <2>2, <2>3 DEF CacheInv
<1>8. CallInv(t)'
  <2>1. ver' >= since[t]
    BY <1>1, <1>4, Sizes DEF IInv, Drafted
  <2>2. Fresh(t)'
    BY <1>2, <2>1 DEF Fresh
  <2>3. CASE site[t] = "initial"
    <3>1. pc'[t] = "release" /\ result'[t] = Tagged("loaded")
      BY <2>3 DEF IInv, TypeOK, Stat, Return, Goto
    <3> QED BY <1>1, <1>2, <1>3, <2>3, <3>1
            DEF CallInv, Tagged, Answered, Failed
  <2>4. CASE site[t] # "initial"
    <3>1. pc'[t] = "get" /\ result' = result
      BY <2>4 DEF IInv, TypeOK, Stat, Goto
    <3> QED BY <1>1, <1>2, <1>3, <1>4, <2>2, <2>4, <3>1
            DEF CallInv, NoResult, Tagged, Answered, Failed
  <2> QED BY <2>3, <2>4
<1>9. ASSUME NEW u \in Threads, u # t PROVE CallInv(u)'
  <2>1. UNCHANGED <<pc[u], result[u]>>
    BY <1>9 DEF IInv, TypeOK, Stat, Return, Goto
  <2>2. /\ Latest \in Nat /\ served \in Int /\ served' \in Int /\ floor[u] \in Int
        /\ served <= served'
    BY <1>2, Sizes DEF IInv
  <2> QED BY <1>1, <1>2, <1>4, <1>9, <2>1, <2>2, OthersWait, OthersOutside DEF IInv
<1> QED BY <1>6, <1>7, <1>8, <1>9 DEF IInv

LEMMA InvStat ==
  ASSUME IInv, TypeOK', NEW t \in Threads, Stat(t)
  PROVE  IInv'
<1>1. CASE StatFails(Present)
  <2>1. /\ pc[t] = "stat" /\ CallInv(t) /\ since[t] \in 1 .. Latest
    BY DEF IInv, CallInv, Stat
  <2>2. /\ UNCHANGED <<hist, config, lock, agents, mtime, loaded, ver, stampVer, served>>
        /\ UNCHANGED <<site, cn, since, floor>>
        /\ Return(t, Tagged("plan_error"))
    BY <1>1 DEF Stat, envVars
  <2>3. LoadOutcome(hist[Latest]) = "plan_error"
    BY <1>1 DEF StatFails, LoadOutcome, Present
  <2>4. Latest \in since[t] .. Latest
    BY <2>1, Sizes DEF IInv
  <2>5. \A u \in Threads \ {t} : UNCHANGED draft[u]
    BY DEF IInv, TypeOK, Stat
  <2> QED BY <2>1, <2>2, <2>3, <2>4, <2>5, StepRefused DEF Holding, Steps
<1> QED BY <1>1, InvCommit

LEMMA InvGet ==
  ASSUME IInv, TypeOK', NEW t \in Threads, Get(t)
  PROVE  IInv'
<1> DEFINE answer == IF Hit(t)
                     THEN [tag |-> "found", entry |-> agents[cn[t]], from |-> ver]
                     ELSE [tag |-> "unknown", entry |-> NoEntry, from |-> ver]
<1>1. /\ pc[t] = "get" /\ pc[t] \in Holding /\ CallInv(t) /\ Fresh(t) /\ loaded
      /\ since[t] \in 1 .. Latest /\ floor[t] <= served
  BY DEF IInv, CallInv, Get, Holding, Steps
<1>2. /\ UNCHANGED <<hist, config, lock, agents, mtime, loaded, ver, stampVer>>
      /\ UNCHANGED <<site, cn, draft, since, floor>>
      /\ served' = ver
  BY DEF Get, cacheVars, envVars
<1>3. Latest' = Latest
  BY <1>2 DEF Latest
<1>4. Goto(t, "release") /\ result' = [result EXCEPT ![t] = answer]
  BY DEF Get, Return
<1>5. served <= ver /\ ver <= Latest
  BY <1>1, Sizes DEF IInv, CacheInv
<1>6. LockInv'
  BY <1>1, <1>2, <1>4, LockKept DEF IInv, Holding, Steps
<1>7. CacheInv'
  BY <1>2, <1>3, <1>5, Sizes DEF IInv, CacheInv
<1>8. CallInv(t)'
  <2>1. pc'[t] = "release" /\ result'[t] = answer
    BY <1>4 DEF IInv, TypeOK, Goto
  <2>2. /\ answer.from = ver /\ answer.tag \in {"found", "unknown"}
        /\ answer.tag = "found" <=> cn[t] \in DOMAIN agents
        /\ answer.tag = "found" => answer.entry = agents[cn[t]]
    BY DEF Hit
  <2>3. Exact(t)'
    BY <1>1, <1>2, <2>1, <2>2 DEF Exact
  <2>4. Fresh(t)'
    BY <1>1, <1>2, <1>3 DEF Fresh, Raced, SameStamp
  <2>5. floor[t] <= ver
    BY <1>1, <1>5, Sizes DEF IInv
  <2>6. pc'[t] = "release" /\ result'[t].tag \in {"found", "unknown"}
    BY <2>1, <2>2
  <2> HIDE DEF answer
  <2>7. /\ since'[t] \in 1 .. Latest' /\ floor'[t] <= served' /\ loaded'
        /\ site'[t] = "initial" <=> cn'[t] = NoCN
    BY <1>1, <1>2, <1>3, <2>5 DEF CallInv
  <2>8. ~Failed(t)'
    BY <2>6 DEF Failed
  <2> QED BY <2>3, <2>4, <2>6, <2>7, <2>8 DEF CallInv
<1>9. ASSUME NEW u \in Threads, u # t PROVE CallInv(u)'
  <2>1. UNCHANGED <<pc[u], result[u]>>
    BY <1>4, <1>9 DEF IInv, TypeOK, Goto
  <2>2. /\ Latest \in Nat /\ served \in Int /\ served' \in Int /\ floor[u] \in Int
        /\ served <= served'
    BY <1>2, <1>5, Sizes DEF IInv
  <2> QED BY <1>1, <1>2, <1>9, <2>1, <2>2, OthersWait, OthersOutside DEF IInv
<1> QED BY <1>6, <1>7, <1>8, <1>9 DEF IInv

LEMMA InvReloadForUnknown ==
  ASSUME IInv, TypeOK', NEW t \in Threads, ReloadForUnknown(t)
  PROVE  IInv'
<1>1. /\ pc[t] = "get" /\ CallInv(t) /\ result[t] = NoResult /\ loaded
      /\ since[t] \in 1 .. Latest /\ cn[t] # NoCN
  BY DEF IInv, CallInv, ReloadForUnknown
<1>2. /\ UNCHANGED <<hist, config, lock, agents, mtime, loaded, ver, stampVer, served>>
      /\ UNCHANGED <<cn, draft, result, since, floor>>
      /\ Goto(t, "check") /\ site' = [site EXCEPT ![t] = "unknown"]
  BY DEF ReloadForUnknown, envVars
<1>3. pc'[t] = "check" /\ site'[t] = "unknown" /\ Latest' = Latest
  BY <1>2 DEF IInv, TypeOK, Goto, Latest
<1>4. CallInv(t)'
  BY <1>1, <1>2, <1>3 DEF CallInv, NoResult, Tagged, Answered, Failed
<1>5. \A u \in Threads \ {t} :
        UNCHANGED <<site[u], cn[u], draft[u], result[u], since[u], floor[u]>>
  BY <1>2 DEF IInv, TypeOK
<1> QED BY <1>1, <1>2, <1>4, <1>5, StepInside DEF Holding, Steps

LEMMA InvRelease ==
  ASSUME IInv, TypeOK', NEW t \in Threads, Release(t)
  PROVE  IInv'
<1>1. /\ pc[t] = "release" /\ pc[t] \in Holding
      /\ UNCHANGED <<hist, agents, mtime, loaded, ver, stampVer, served, config, draft>>
      /\ pc' = [pc EXCEPT ![t] = "idle"] /\ lock' = NoThread
      /\ site' = [site EXCEPT ![t] = "none"] /\ result' = [result EXCEPT ![t] = NoResult]
  BY DEF Release, Goto, Holding, Steps, ghostVars, envVars
<1>2. LockInv'
  BY <1>1, PlanCacheAssumption DEF IInv, TypeOK, LockInv, Holding
<1>3. CacheInv'
  BY <1>1, CacheKept DEF IInv
<1>4. ASSUME NEW u \in Threads PROVE CallInv(u)'
  <2>1. CASE u = t
    <3>1. pc'[t] = "idle" /\ result'[t] = NoResult
      BY <1>1 DEF IInv, TypeOK
    <3> QED BY <2>1, <3>1 DEF CallInv, NoResult, Tagged, Answered, Failed
  <2>2. CASE u # t
    BY <1>1, <2>2, OthersGoOn DEF IInv, TypeOK, Release
  <2> QED BY <2>1, <2>2
<1> QED BY <1>2, <1>3, <1>4 DEF IInv

(* A write leaves the versions there were as they are. *)
LEMMA InvWriteFile ==
  ASSUME IInv, TypeOK', WriteFile
  PROVE  IInv'
<1>1. /\ UNCHANGED <<config, lock, agents, mtime, loaded>>
      /\ UNCHANGED <<pc, site, cn, draft, result, since, floor>>
      /\ UNCHANGED <<ver, stampVer, served>>
  BY DEF WriteFile, ProgramVars, cacheVars, callVars, ghostVars
<1>2. /\ Latest' = Latest + 1 /\ Latest \in Nat \ {0}
      /\ \A v \in 1 .. Latest : hist'[v] = hist[v]
  BY Written, Sizes DEF WriteFile, IInv, TypeOK
<1>3. LockInv'
  BY <1>1 DEF IInv, LockInv
<1>4. CacheInv'
  <2>1. served <= Latest'
    BY <1>2, Sizes DEF IInv, CacheInv
  <2>2. CASE ~loaded
    BY <1>1, <2>1, <2>2 DEF CacheInv
  <2>3. CASE loaded
    <3>1. ver \in 1 .. Latest /\ stampVer \in 1 .. Latest
      BY <2>3, Sizes DEF IInv, CacheInv
    <3>2. hist'[ver] = hist[ver] /\ hist'[stampVer] = hist[stampVer]
      BY <1>2, <3>1
    <3>3. stampVer <= Latest'
      BY <1>2, <3>1
    <3> QED BY <1>1, <2>1, <2>3, <3>2, <3>3 DEF IInv, CacheInv
  <2> QED BY <2>2, <2>3
<1>5. ASSUME NEW u \in Threads PROVE CallInv(u)'
  <2>1. CallInv(u) /\ since[u] \in Nat
    BY Sizes DEF IInv
  <2>2. pc[u] # "idle" => since'[u] \in 1 .. Latest'
    BY <1>1, <1>2, <2>1 DEF CallInv
  <2>3. pc[u] = "stat" => Drafted(u)'
    <3> SUFFICES ASSUME pc[u] = "stat" PROVE Drafted(u)'
      OBVIOUS
    <3>1. Drafted(u) /\ since[u] \in 1 .. Latest
      BY <2>1 DEF CallInv
    <3>2. draft[u].ver \in 1 .. Latest
      BY <1>2, <3>1 DEF Drafted
    <3>3. draft[u].ver \in since[u] .. Latest'
      BY <1>2, <3>1 DEF Drafted
    <3> QED BY <1>1, <1>2, <3>1, <3>2, <3>3 DEF Drafted
  <2>4. since[u] \in 1 .. Latest /\ Fresh(u) => Fresh(u)'
    <3>1. since[u] \in 1 .. Latest /\ SameStamp(since[u]) => SameStamp(since[u])'
      BY <1>1, <1>2 DEF SameStamp
    <3> QED BY <1>1, <3>1 DEF Fresh, Raced
  <2>5. since[u] \in 1 .. Latest /\ Current(u) => Current(u)'
    BY <1>1, <1>2 DEF Current
  <2>6. Exact(u) => Exact(u)'
    BY <1>1 DEF Exact
  <2>7. result[u].tag # "none" => pc[u] = "release"
    BY <2>1 DEF CallInv, NoResult, Tagged
  <2> QED BY <1>1, <2>1, <2>2, <2>3, <2>4, <2>5, <2>6, <2>7
          DEF CallInv, Answered, Failed
<1> QED BY <1>3, <1>4, <1>5 DEF IInv

LEMMA InvQuiet ==
  ASSUME IInv, TypeOK', Tick \/ UNCHANGED vars
  PROVE  IInv'
<1>1. /\ UNCHANGED <<config, lock, agents, mtime, loaded, hist>>
      /\ UNCHANGED <<pc, site, cn, draft, result, since, floor>>
      /\ UNCHANGED <<ver, stampVer, served>>
  BY DEF Tick, ProgramVars, vars, cacheVars, callVars, ghostVars, envVars
<1>2. LockInv'
  BY <1>1 DEF IInv, LockInv
<1>3. CacheInv'
  BY <1>1, CacheKept DEF IInv
<1>4. ASSUME NEW u \in Threads PROVE CallInv(u)'
  BY <1>1, OthersGoOn DEF IInv
<1> QED BY <1>2, <1>3, <1>4 DEF IInv

LEMMA InvRestart ==
  ASSUME IInv, TypeOK', Restart
  PROVE  IInv'
<1>1. LockInv'
  BY PlanCacheAssumption DEF Restart, Everyone, LockInv, Holding
<1>2. CacheInv'
  <2>1. served' = served /\ hist' = hist /\ loaded' = FALSE
    BY DEF Restart
  <2>2. Latest' = Latest
    BY <2>1 DEF Latest
  <2> QED BY <2>1, <2>2 DEF IInv, CacheInv
<1>3. ASSUME NEW u \in Threads PROVE CallInv(u)'
  BY DEF Restart, Everyone, CallInv, NoResult, Tagged, Answered, Failed
<1> QED BY <1>1, <1>2, <1>3 DEF IInv

LEMMA InvStep == IInv /\ [Next]_vars => IInv'
<1> SUFFICES ASSUME IInv, [Next]_vars PROVE IInv'
  OBVIOUS
<1>1. TypeOK'
  BY TypeStep DEF IInv
<1>2. ASSUME NEW t \in Threads, InitialLoad(t) \/ Lookup(t) \/ Step(t) PROVE IInv'
  BY <1>1, <1>2, InvBegin, InvAcquire, InvMtimeCheck, InvCheckPath, InvRead,
     InvStat, InvGet, InvReloadForUnknown, InvRelease DEF Step
<1>3. CASE WriteFile
  BY <1>1, <1>3, InvWriteFile
<1>4. CASE Tick \/ UNCHANGED vars
  BY <1>1, <1>4, InvQuiet
<1>5. CASE Restart
  BY <1>1, <1>5, InvRestart
<1> QED BY <1>2, <1>3, <1>4, <1>5 DEF Next

THEOREM Invariance == Spec => []IInv
BY InvInit, InvStep, PTL DEF Spec

-----------------------------------------------------------------------------
(* What the invariant says to a caller. *)

(* No answer mixes two plans or comes from a plan that was never deployed:
   the cache always holds one whole version and get reads from it alone.   *)
THEOREM AnswersAreExact == Spec => []AnswerExact
<1>1. IInv => AnswerExact
  <2> SUFFICES ASSUME IInv, NEW t \in Threads, Answered(t)
               PROVE  LET r == result[t] IN
                      /\ r.from \in 1 .. Latest /\ hist[r.from].kind = "plan"
                      /\ r.tag = "found" <=> cn[t] \in DOMAIN hist[r.from].plan
                      /\ r.tag = "found" => r.entry = hist[r.from].plan[cn[t]]
    BY DEF AnswerExact
  <2>1. Exact(t)
    BY DEF IInv, CallInv
  <2>2. ver \in 1 .. Latest /\ hist[ver].kind = "plan" /\ agents = hist[ver].plan
    BY <2>1, Sizes DEF Exact, IInv, CacheInv
  <2> QED BY <2>1, <2>2 DEF Exact
<1> QED BY <1>1, Invariance, PTL

(* Versions answered from never go back, across threads and restarts. *)
THEOREM ReadsAreMonotonic == Spec => []MonotonicReads
<1>1. IInv => MonotonicReads
  <2> SUFFICES ASSUME IInv, NEW t \in Threads, Answered(t)
               PROVE  result[t].from >= floor[t]
    BY DEF MonotonicReads
  <2>1. Exact(t) /\ pc[t] = "release" /\ floor[t] <= served
    BY DEF IInv, CallInv, Answered, NoResult, Tagged
  <2>2. served <= ver
    BY <2>1 DEF Exact, IInv, CacheInv
  <2> QED BY <2>1, <2>2, Sizes DEF Exact, IInv
<1> QED BY <1>1, Invariance, PTL

(* With the mtime check an answer older than its call needs a race inside a
   reload or a stamp used again; with the cache off there is none.         *)
THEOREM StaleOnlyWhenMisstamped == Spec => []StaleOnlyByRace
<1>1. IInv => StaleOnlyByRace
  <2> SUFFICES ASSUME IInv, NEW t \in Threads, Answered(t)
               PROVE  /\ ~config.cache_enabled => result[t].from >= since[t]
                      /\ config.reload_on_mtime_change =>
                           result[t].from >= since[t] \/ Raced \/ SameStamp(since[t])
    BY DEF StaleOnlyByRace
  <2>1. Exact(t) /\ Fresh(t)
    BY DEF IInv, CallInv
  <2> QED BY <2>1 DEF Exact, Fresh
<1> QED BY <1>1, Invariance, PTL

(* An error is always about the file as it was during the call. *)
THEOREM ErrorsAreCurrentAlways == Spec => []ErrorsAreCurrent
<1>1. IInv => ErrorsAreCurrent
  BY DEF IInv, CallInv, ErrorsAreCurrent, Current
<1> QED BY <1>1, Invariance, PTL

-----------------------------------------------------------------------------
(* How often the file is read.                                             *)

(* A caller that goes to the file because its stamp has changed goes there
   for a later version than the one that is stamped.                       *)
Behind(t) ==
  /\ pc[t] \in {"check", "read", "stat"} /\ site[t] = "mtime" => stampVer < Latest
  /\ pc[t] = "lock" => site[t] # "mtime"

(* The reloads for unknown CNs up to the last took their intervals. *)
Spaced ==
  nUnknown > 0 =>
    /\ started <= lastUnknown
    /\ (nUnknown - 1) * config.reload_min_interval_seconds <= lastUnknown - started

Stamped ==
  /\ ~loaded => nChanged = 0
  /\ loaded => nChanged < stampVer /\ ~StatFails(hist[stampVer])

FloodInv == Spaced /\ Stamped /\ \A t \in Threads : Behind(t)

LEMMA SpacedStep ==
  ASSUME TypeOK, Spaced, [Next]_vars
  PROVE  Spaced'
<1> DEFINE k == config.reload_min_interval_seconds
<1>1. /\ k \in Nat /\ nUnknown \in Nat /\ now \in Nat /\ lastUnknown \in 0 .. now
      /\ started \in 0 .. now
  BY PlanCacheAssumption DEF TypeOK, PlanConfigs
<1>2. ASSUME NEW t \in Threads, ReloadForUnknown(t) PROVE Spaced'
  <2>1. /\ nUnknown' = nUnknown + 1 /\ lastUnknown' = now /\ k' = k
        /\ started' = started /\ now - lastUnknown >= k
    BY <1>2 DEF ReloadForUnknown, UnknownReloadDue
  <2>2. nUnknown' - 1 = nUnknown
    BY <1>1, <2>1
  <2>3. nUnknown * k <= now - started
    <3>1. CASE nUnknown = 0
      <4> HIDE DEF k
      <4>1. nUnknown * k = 0
        BY <1>1, <3>1
      <4> QED BY <1>1, <4>1
    <3>2. CASE nUnknown # 0
      <4> DEFINE spent == (nUnknown - 1) * k
      <4>1. spent <= lastUnknown - started
        BY <1>1, <3>2 DEF Spaced
      <4> HIDE DEF k
      <4>2. \A n, m \in Nat : (n - 1) * m \in Int /\ n * m = (n - 1) * m + m
        OBVIOUS
      <4>3. spent \in Int /\ nUnknown * k = spent + k
        BY <1>1, <4>2
      <4> HIDE DEF spent
      <4> QED BY <1>1, <2>1, <4>1, <4>3
    <3> QED BY <3>1, <3>2
  <2> SUFFICES started' <= lastUnknown' /\ (nUnknown' - 1) * k' <= lastUnknown' - started'
    BY DEF Spaced
  <2> HIDE DEF k
  <2>4. (nUnknown' - 1) * k' = nUnknown * k
    BY <2>1, <2>2
  <2> QED BY <1>1, <2>1, <2>3, <2>4
<1>3. CASE Restart
  BY <1>3 DEF Restart, Spaced
<1>4. CASE UNCHANGED <<config, started, nUnknown, lastUnknown>>
  BY <1>4 DEF Spaced
<1>5. ASSUME NEW t \in Threads,
             \/ InitialLoad(t) \/ Lookup(t) \/ Acquire(t) \/ MtimeCheck(t)
             \/ CheckPath(t) \/ Read(t) \/ Stat(t) \/ Get(t) \/ Release(t)
      PROVE  UNCHANGED <<config, started, nUnknown, lastUnknown>>
  BY <1>5 DEF InitialLoad, Lookup, Begin, Acquire, MtimeCheck, CheckPath, Read,
              Stat, Get, Release, cacheVars, ghostVars
<1>6. CASE WriteFile \/ Tick \/ UNCHANGED vars
  BY <1>4, <1>6 DEF WriteFile, Tick, ProgramVars, vars, cacheVars, ghostVars
<1> QED BY <1>2, <1>3, <1>4, <1>5, <1>6 DEF Next, Step

(* A stamp that differs, or that there is none, is a later content's. *)
LEMMA ChangedIsLater ==
  ASSUME IInv, Stamped, loaded, MtimeChanged
  PROVE  stampVer < Latest
<1>1. stampVer \in 1 .. Latest /\ mtime = hist[stampVer].mtime
  BY Sizes DEF IInv, CacheInv
<1>2. stampVer # Latest
  BY <1>1 DEF Stamped, MtimeChanged, Present
<1> QED BY <1>1, <1>2, Sizes DEF IInv

LEMMA StampStep ==
  ASSUME IInv, FloodInv, NEW t \in Threads, Stat(t), ~StatFails(Present)
  PROVE  Stamped' /\ \A u \in Threads : Behind(u)'
<1>1. /\ loaded' = TRUE /\ stampVer' = Latest /\ hist' = hist
      /\ nChanged' = IF site[t] = "mtime" THEN nChanged + 1 ELSE nChanged
  BY DEF Stat, Commit, envVars
<1>2. /\ pc[t] = "stat" /\ pc[t] \in Holding /\ nChanged \in Nat /\ Latest \in Nat \ {0}
      /\ site[t] # "initial" => loaded
  BY Sizes DEF Stat, Holding, Steps, IInv, TypeOK, CallInv
<1>3. nChanged' < Latest
  <2>1. CASE ~loaded
    BY <1>1, <1>2, <2>1 DEF FloodInv, Stamped
  <2>2. CASE loaded /\ site[t] = "mtime"
    <3>1. nChanged < stampVer /\ stampVer < Latest /\ stampVer \in Nat
      BY <1>2, <2>2, Sizes DEF FloodInv, Stamped, Behind, IInv
    <3> QED BY <1>1, <1>2, <2>2, <3>1
  <2>3. CASE loaded /\ site[t] # "mtime"
    <3>1. nChanged < stampVer /\ stampVer <= Latest /\ stampVer \in Nat
      BY <2>3, Sizes DEF FloodInv, Stamped, IInv, CacheInv
    <3> QED BY <1>1, <1>2, <2>3, <3>1
  <2> QED BY <2>1, <2>2, <2>3
<1>4. Stamped'
  BY <1>1, <1>3 DEF Stamped, Present
<1>5. ASSUME NEW u \in Threads PROVE Behind(u)'
  <2>1. CASE u = t
    BY <2>1 DEF Stat, Return, Goto, IInv, TypeOK, Behind
  <2>2. CASE u # t
    <3>1. pc[u] \in {"idle", "lock"} /\ pc'[u] = pc[u] /\ site'[u] = site[u]
      BY <1>2, <2>2, OthersOutside DEF Stat, Return, Goto, IInv, TypeOK
    <3> QED BY <3>1 DEF FloodInv, Behind
  <2> QED BY <2>1, <2>2
<1> QED BY <1>4, <1>5

(* The steps that touch neither stamp nor plan: only the mtime check sends a
   caller to the file in the name of the stamp.                            *)
LEMMA BehindStep ==
  ASSUME IInv, FloodInv, NEW t \in Threads,
         \/ InitialLoad(t) \/ Lookup(t) \/ Acquire(t) \/ MtimeCheck(t) \/ CheckPath(t)
         \/ Read(t) \/ (Stat(t) /\ StatFails(Present))
         \/ Get(t) \/ ReloadForUnknown(t) \/ Release(t)
  PROVE  Stamped' /\ \A u \in Threads : Behind(u)'
<1>1. UNCHANGED <<hist, loaded, stampVer, nChanged>>
  BY DEF InitialLoad, Lookup, Begin, Acquire, MtimeCheck, CheckPath, Read, Stat, Get,
         ReloadForUnknown, Release, cacheVars, ghostVars, envVars
<1>2. Stamped' /\ Latest' = Latest
  BY <1>1 DEF FloodInv, Stamped, Latest
<1>3. ASSUME NEW u \in Threads, u # t PROVE Behind(u)'
  <2>1. UNCHANGED <<pc[u], site[u]>>
    BY <1>3 DEF InitialLoad, Lookup, Begin, Acquire, MtimeCheck, CheckPath, Read, Stat,
                Get, ReloadForUnknown, Release, Goto, Return, IInv, TypeOK
  <2> QED BY <1>1, <1>2, <2>1 DEF FloodInv, Behind
<1>4. Behind(t)'
  <2>1. CASE MtimeCheck(t) /\ MtimeChanged
    <3>1. loaded
      BY <2>1 DEF MtimeCheck, IInv, CallInv
    <3>2. pc'[t] = "check" /\ stampVer' < Latest'
      BY <1>1, <1>2, <2>1, <3>1, ChangedIsLater DEF FloodInv, MtimeCheck, Goto, IInv, TypeOK
    <3> QED BY <3>2 DEF Behind
  <2>2. CASE MtimeCheck(t) /\ ~MtimeChanged
    BY <2>2 DEF MtimeCheck, Goto, IInv, TypeOK, Behind
  <2>3. CASE CheckPath(t) \/ Read(t)
    <3>1. pc[t] \in {"check", "read"} /\ site'[t] = site[t] /\ Behind(t)
      BY <2>3 DEF CheckPath, Read, FloodInv
    <3>2. pc'[t] # "lock"
      BY <2>3 DEF CheckPath, Read, Return, Goto, IInv, TypeOK
    <3> QED BY <1>1, <1>2, <3>1, <3>2 DEF Behind
  <2>4. CASE Acquire(t)
    <3>1. pc[t] = "lock" /\ CallInv(t)
      BY <2>4 DEF Acquire, IInv
    <3>2. pc'[t] = FirstStep(t)
      BY <2>4 DEF Acquire, Goto, IInv, TypeOK
    <3>3. site'[t] # "mtime"
      BY <2>4, <3>1 DEF Acquire, FloodInv, Behind, IInv, TypeOK
    <3>4. pc'[t] # "lock"
      BY <3>2 DEF FirstStep
    <3> QED BY <3>3, <3>4 DEF Behind
  <2>5. CASE InitialLoad(t) \/ Lookup(t) \/ ReloadForUnknown(t)
    <3>1. site'[t] \in {"initial", "lookup", "unknown"}
      BY <2>5 DEF InitialLoad, Lookup, Begin, ReloadForUnknown, IInv, TypeOK
    <3> QED BY <3>1 DEF Behind
  <2>6. CASE Get(t) \/ Release(t) \/ (Stat(t) /\ StatFails(Present))
    <3>1. pc'[t] \in {"release", "idle"}
      BY <2>6 DEF Get, Release, Stat, Return, Goto, IInv, TypeOK
    <3> QED BY <3>1 DEF Behind
  <2> QED BY <2>1, <2>2, <2>3, <2>4, <2>5, <2>6
<1> QED BY <1>2, <1>3, <1>4

LEMMA FloodInvInit == Init => FloodInv
<1> SUFFICES ASSUME Init PROVE FloodInv
  OBVIOUS
<1>1. nUnknown = 0 /\ nChanged = 0 /\ ~loaded /\ \A t \in Threads : pc[t] = "idle"
  BY DEF Init, Everyone
<1> QED BY <1>1 DEF FloodInv, Spaced, Stamped, Behind

LEMMA FloodInvStep == IInv /\ FloodInv /\ [Next]_vars => FloodInv'
<1> SUFFICES ASSUME IInv, FloodInv, [Next]_vars PROVE FloodInv'
  OBVIOUS
<1>1. Spaced'
  BY SpacedStep DEF IInv, FloodInv
<1> SUFFICES Stamped' /\ \A u \in Threads : Behind(u)'
  BY <1>1 DEF FloodInv
<1>2. ASSUME NEW t \in Threads, InitialLoad(t) \/ Lookup(t) \/ Step(t)
      PROVE  Stamped' /\ \A u \in Threads : Behind(u)'
  <2>1. CASE Stat(t) /\ ~StatFails(Present)
    BY <2>1, StampStep
  <2>2. CASE ~(Stat(t) /\ ~StatFails(Present))
    <3>1. \/ InitialLoad(t) \/ Lookup(t) \/ Acquire(t) \/ MtimeCheck(t) \/ CheckPath(t)
          \/ Read(t) \/ (Stat(t) /\ StatFails(Present))
          \/ Get(t) \/ ReloadForUnknown(t) \/ Release(t)
      BY <1>2, <2>2 DEF Step
    <3> QED BY <3>1, BehindStep
  <2> QED BY <2>1, <2>2
<1>3. CASE WriteFile
  <2>1. UNCHANGED <<pc, site, loaded, stampVer, nChanged>>
    BY <1>3 DEF WriteFile, ProgramVars, cacheVars, callVars, ghostVars
  <2>2. /\ Latest' = Latest + 1 /\ Latest \in Nat /\ stampVer \in Nat
        /\ \A v \in 1 .. Latest : hist'[v] = hist[v]
    BY <1>3, Written, Sizes DEF WriteFile, IInv, TypeOK
  <2>3. loaded => stampVer \in 1 .. Latest
    BY Sizes DEF IInv, CacheInv
  <2>4. Stamped'
    BY <2>1, <2>2, <2>3 DEF FloodInv, Stamped
  <2> QED BY <2>1, <2>2, <2>4 DEF FloodInv, Behind
<1>4. CASE Tick \/ UNCHANGED vars
  <2>1. UNCHANGED <<hist, pc, site, loaded, stampVer, nChanged>>
    BY <1>4 DEF Tick, ProgramVars, vars, cacheVars, callVars, ghostVars, envVars
  <2> QED BY <2>1 DEF FloodInv, Stamped, Behind, Latest
<1>5. CASE Restart
  <2>1. nChanged' = 0 /\ ~loaded' /\ \A t \in Threads : pc'[t] = "idle"
    BY <1>5 DEF Restart, Everyone
  <2> QED BY <2>1 DEF Stamped, Behind
<1> QED BY <1>2, <1>3, <1>4, <1>5 DEF Next

(* Reloads for unknown CNs are an interval apart in the life of a process,
   whoever asks and whatever they end in, and the mtime check has loaded no
   content twice.                                                          *)
THEOREM ReloadsAreBounded == Spec => []FloodBounded
<1>1. IInv /\ FloodInv => FloodBounded
  <2> SUFFICES ASSUME IInv, FloodInv PROVE FloodBounded
    OBVIOUS
  <2> DEFINE k == config.reload_min_interval_seconds
             spent == (nUnknown - 1) * k
  <2>1. nUnknown > 0 => spent <= now - started
    <3> SUFFICES ASSUME nUnknown > 0 PROVE spent <= now - started
      OBVIOUS
    <3>1. spent <= lastUnknown - started
      BY DEF FloodInv, Spaced
    <3>2. /\ k \in Nat /\ nUnknown \in Nat /\ now \in Nat /\ lastUnknown \in 0 .. now
          /\ started \in Nat
      BY PlanCacheAssumption DEF IInv, TypeOK, PlanConfigs
    <3>3. spent \in Int
      <4> HIDE DEF k
      <4> QED BY <3>2
    <3> HIDE DEF spent
    <3> QED BY <3>1, <3>2, <3>3
  <2>2. nChanged > 0 => nChanged < Latest
    BY Sizes DEF FloodInv, Stamped, IInv, TypeOK, CacheInv
  <2> QED BY <2>1, <2>2 DEF FloodBounded
<1> QED BY <1>1, FloodInvInit, FloodInvStep, Invariance, PTL DEF Spec

=============================================================================
