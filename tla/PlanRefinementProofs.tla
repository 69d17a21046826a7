------------------------ MODULE PlanRefinementProofs ------------------------
(***************************************************************************)
(* Proof that PlanCache implements PlanService.  The register is the       *)
(* highest version served and a call is open while its caller is not idle; *)
(* a call is decided where its result is fixed: by Get, by the load, or by *)
(* the step of a reload that fails.  Every other step of the cache is a    *)
(* stutter of the service.                                                 *)
(***************************************************************************)
EXTENDS PlanCacheProofs

Busy == {t \in Threads : pc[t] # "idle"}

(* What the service can see of a step. *)
Seen == <<hist, served, Busy, cn, since, result>>

LEMMA Stutters == UNCHANGED Seen => UNCHANGED Service!svars
BY DEF Seen, Busy, Service!svars

LEMMA BusyKept ==
  ASSUME TypeOK, NEW t \in Threads, pc[t] # "idle",
         NEW s \in Steps \ {"idle"}, Goto(t, s)
  PROVE  Busy' = Busy
BY DEF TypeOK, Goto, Busy

(* A step of a reload that ends the call with an error. *)
LEMMA RefusedIsFail ==
  ASSUME IInv, NEW t \in Threads, pc[t] \in Holding \ {"release"},
         NEW tag \in {"plan_error", "uncaught"}, Return(t, Tagged(tag)),
         since[t] \in 1 .. Latest, LoadOutcome(Present) = tag,
         UNCHANGED <<hist, served, cn, since>>
  PROVE  Service!Fail(t)
<1>1. Busy' = Busy /\ t \in Busy
  BY BusyKept DEF IInv, Return, Holding, Steps, Busy
<1>2. result[t] = NoResult /\ result[t].tag = "none"
  BY DEF IInv, CallInv, NoResult, Tagged
<1>3. Latest \in since[t] .. Latest /\ hist[Latest].kind # "plan"
  BY Sizes DEF IInv, LoadOutcome, Present
<1>4. Service!Reply(Service!LoadOutcome(hist[Latest]), NoEntry, 0) = Tagged(tag)
  BY DEF Service!Reply, Service!LoadOutcome, LoadOutcome, Present, Tagged
<1>5. Tagged(tag) \in Service!Failures(since[t])
  BY <1>3, <1>4 DEF Service!Failures, Service!Latest, Latest
<1>6. result' = [result EXCEPT ![t] = Tagged(tag)]
  BY DEF Return
<1> QED BY <1>1, <1>2, <1>5, <1>6
        DEF Service!Fail, Service!Pending, Service!Decide, Busy

LEMMA RefineBegin ==
  ASSUME IInv, NEW t \in Threads, InitialLoad(t) \/ Lookup(t)
  PROVE  Service!Next
<1>1. PICK s \in {"initial", "lookup"}, c \in CNs \cup {NoCN} : Begin(t, s, c)
  BY DEF InitialLoad, Lookup
<1>2. /\ pc[t] = "idle" /\ pc' = [pc EXCEPT ![t] = "lock"]
      /\ cn' = [cn EXCEPT ![t] = c] /\ since' = [since EXCEPT ![t] = Latest]
      /\ UNCHANGED <<hist, served, result>>
  BY <1>1 DEF Begin, Goto, ghostVars, envVars
<1>3. t \notin Busy /\ Busy' = Busy \cup {t}
  BY <1>2 DEF IInv, TypeOK, Busy
<1>4. Service!Invoke(t, c)
  BY <1>2, <1>3 DEF Service!Invoke, Service!Latest, Latest, Busy
<1> QED BY <1>4 DEF Service!Next

LEMMA RefineAcquire ==
  ASSUME IInv, NEW t \in Threads, Acquire(t)
  PROVE  UNCHANGED Seen
<1>1. FirstStep(t) \in Steps \ {"idle"}
  BY DEF FirstStep, Steps
<1>2. Busy' = Busy
  BY <1>1, BusyKept DEF IInv, Acquire
<1> QED BY <1>2 DEF Acquire, Seen, ghostVars, envVars

LEMMA RefineInside ==
  ASSUME IInv, NEW t \in Threads, MtimeCheck(t) \/ ReloadForUnknown(t)
  PROVE  UNCHANGED Seen
<1>1. PICK s \in {"check", "get"} : Goto(t, s) /\ pc[t] # "idle"
  BY DEF MtimeCheck, ReloadForUnknown
<1>2. Busy' = Busy
  BY <1>1, BusyKept DEF IInv, Steps
<1> QED BY <1>2 DEF MtimeCheck, ReloadForUnknown, Seen, ghostVars, envVars

LEMMA RefineCheckPath ==
  ASSUME IInv, NEW t \in Threads, CheckPath(t)
  PROVE  Service!Fail(t) \/ UNCHANGED Seen
<1>1. pc[t] = "check" /\ since[t] \in 1 .. Latest
  BY DEF IInv, CallInv, CheckPath
<1>2. UNCHANGED <<hist, served, cn, since>>
  BY DEF CheckPath, ghostVars, envVars
<1>3. CASE PathIsFile(Present)
  <2>1. Goto(t, "read") /\ UNCHANGED result
    BY <1>3 DEF CheckPath
  <2>2. Busy' = Busy
    BY <1>1, <2>1, BusyKept DEF IInv, Steps
  <2> QED BY <1>2, <2>1, <2>2 DEF Seen
<1>4. CASE ~PathIsFile(Present)
  <2>1. LoadOutcome(Present) = "plan_error"
    BY <1>4 DEF PathIsFile, LoadOutcome
  <2>2. Return(t, Tagged("plan_error"))
    BY <1>4 DEF CheckPath
  <2> QED BY <1>1, <1>2, <2>1, <2>2, RefusedIsFail DEF Holding, Steps
<1> QED BY <1>3, <1>4

LEMMA RefineRead ==
  ASSUME IInv, NEW t \in Threads, Read(t)
  PROVE  Service!Fail(t) \/ UNCHANGED Seen
<1>1. pc[t] = "read" /\ since[t] \in 1 .. Latest
  BY DEF IInv, CallInv, Read
<1>2. UNCHANGED <<hist, served, cn, since>>
  BY DEF Read, ghostVars, envVars
<1>3. CASE LoadOutcome(Present) = "loaded"
  <2>1. Goto(t, "stat") /\ UNCHANGED result
    BY <1>3 DEF Read
  <2>2. Busy' = Busy
    BY <1>1, <2>1, BusyKept DEF IInv, Steps
  <2> QED BY <1>2, <2>1, <2>2 DEF Seen
<1>4. CASE LoadOutcome(Present) # "loaded"
  <2>1. LoadOutcome(Present) \in {"plan_error", "uncaught"}
    BY <1>4 DEF LoadOutcome
  <2>2. Return(t, Tagged(LoadOutcome(Present)))
    BY <1>4 DEF Read
  <2> QED BY <1>1, <1>2, <2>1, <2>2, RefusedIsFail DEF Holding, Steps
<1> QED BY <1>3, <1>4

LEMMA RefineStat ==
  ASSUME IInv, NEW t \in Threads, Stat(t)
  PROVE  Service!Fail(t) \/ Service!Load(t) \/ UNCHANGED Seen
<1>1. /\ pc[t] = "stat" /\ since[t] \in 1 .. Latest /\ result[t] = NoResult
      /\ site[t] = "initial" <=> cn[t] = NoCN
  BY DEF IInv, CallInv, Stat
<1>2. UNCHANGED <<hist, served, cn, since>>
  BY DEF Stat, envVars
<1>3. CASE StatFails(Present)
  <2>1. LoadOutcome(Present) = "plan_error"
    BY <1>3 DEF StatFails, LoadOutcome
  <2>2. Return(t, Tagged("plan_error"))
    BY <1>3 DEF Stat
  <2> QED BY <1>1, <1>2, <2>1, <2>2, RefusedIsFail DEF Holding, Steps
<1>4. CASE ~StatFails(Present) /\ site[t] = "initial"
  <2>1. Return(t, Tagged("loaded"))
    BY <1>4 DEF Stat
  <2>2. Busy' = Busy /\ t \in Busy
    BY <1>1, <2>1, BusyKept DEF IInv, Return, Steps, Busy
  <2>3. result' = [result EXCEPT ![t] = Service!Reply("loaded", NoEntry, 0)]
    BY <2>1 DEF Return, Tagged, Service!Reply
  <2>4. cn[t] = NoCN /\ result[t].tag = "none"
    BY <1>1, <1>4 DEF NoResult, Tagged
  <2> QED BY <1>2, <2>2, <2>3, <2>4
          DEF Service!Load, Service!Pending, Service!Decide, Busy
<1>5. CASE ~StatFails(Present) /\ site[t] # "initial"
  <2>1. Goto(t, "get") /\ UNCHANGED result
    BY <1>5 DEF Stat
  <2>2. Busy' = Busy
    BY <1>1, <2>1, BusyKept DEF IInv, Steps
  <2> QED BY <1>2, <2>1, <2>2 DEF Seen
<1> QED BY <1>3, <1>4, <1>5

(* The answer of the cached plan is the service's answer of its version. *)
LEMMA RefineGet ==
  ASSUME IInv, NEW t \in Threads, Get(t)
  PROVE  Service!Answer(t)
<1>1. /\ pc[t] = "get" /\ loaded /\ result[t] = NoResult /\ cn[t] # NoCN
  BY DEF IInv, CallInv, Get
<1>2. /\ Return(t, IF Hit(t)
                   THEN [tag |-> "found", entry |-> agents[cn[t]], from |-> ver]
                   ELSE [tag |-> "unknown", entry |-> NoEntry, from |-> ver])
      /\ served' = ver /\ UNCHANGED <<hist, cn, since>>
  BY DEF Get, envVars
<1>3. /\ ver \in 1 .. Latest /\ ver >= served
      /\ hist[ver].kind = "plan" /\ agents = hist[ver].plan
  BY <1>1, Sizes DEF IInv, CacheInv
<1>4. ver \in Service!Answering(served)
  BY <1>3 DEF Service!Answering, Service!Latest, Latest
<1>5. result' = [result EXCEPT ![t] = Service!AnswerOf(cn[t], ver)]
  BY <1>2, <1>3 DEF Return, Hit, Service!AnswerOf, Service!Reply
<1>6. Busy' = Busy /\ t \in Busy
  BY <1>1, <1>2, BusyKept DEF IInv, Return, Steps, Busy
<1>7. result[t].tag = "none"
  BY <1>1 DEF NoResult, Tagged
<1> QED BY <1>1, <1>2, <1>4, <1>5, <1>6, <1>7
        DEF Service!Answer, Service!Pending, Service!Decide, Busy

LEMMA RefineRelease ==
  ASSUME IInv, NEW t \in Threads, Release(t)
  PROVE  Service!Finish(t)
<1>1. pc[t] = "release" /\ result[t].tag # "none"
  BY DEF IInv, CallInv, Release
<1>2. /\ pc' = [pc EXCEPT ![t] = "idle"] /\ UNCHANGED <<hist, served>>
      /\ cn' = [cn EXCEPT ![t] = NoCN] /\ since' = [since EXCEPT ![t] = 0]
      /\ result' = [result EXCEPT ![t] = Service!Reply("none", NoEntry, 0)]
  BY DEF Release, Goto, NoResult, Tagged, Service!Reply, ghostVars, envVars
<1>3. t \in Busy /\ Busy' = Busy \ {t}
  BY <1>1, <1>2 DEF IInv, TypeOK, Busy
<1> QED BY <1>1, <1>2, <1>3 DEF Service!Finish, Busy

(* A write of the file is the same write of the service's. *)
LEMMA RefineWriteFile == WriteFile => Service!Change
<1> SUFFICES ASSUME WriteFile PROVE Service!Change
  OBVIOUS
<1>1. Service!DeployPlan \/ Service!BreakPlan
  BY DEF WriteFile, DeployPlan, BreakPlan, Write, Stamps, Latest, NoPlan,
         Service!DeployPlan, Service!BreakPlan, Service!Write, Service!Stamps,
         Service!Latest, Service!NoPlan
<1>2. UNCHANGED <<served, pc, cn, since, result>>
  BY DEF WriteFile, ProgramVars, callVars, ghostVars
<1> QED BY <1>1, <1>2 DEF Service!Change

LEMMA RefineRestart == Restart => Service!Crash
BY DEF Restart, Everyone, NoResult, Tagged, Service!Crash, Service!Reply

LEMMA RefineInit == Init => Service!Init
BY DEF Init, Everyone, NoResult, Tagged, FileInit, NoPlan,
       Service!Init, Service!FileInit, Service!NoPlan, Service!Reply

LEMMA RefineStep == IInv /\ [Next]_vars => [Service!Next]_(Service!svars)
<1> SUFFICES ASSUME IInv, [Next]_vars
             PROVE  Service!Next \/ UNCHANGED Service!svars
  OBVIOUS
<1>1. ASSUME NEW t \in Threads, InitialLoad(t) \/ Lookup(t)
      PROVE  Service!Next
  BY <1>1, RefineBegin
<1>2. ASSUME NEW t \in Threads, Step(t)
      PROVE  Service!Next \/ UNCHANGED Service!svars
  <2>1. \/ Service!Answer(t) \/ Service!Load(t) \/ Service!Fail(t)
        \/ Service!Finish(t) \/ UNCHANGED Seen
    BY <1>2, RefineAcquire, RefineInside, RefineCheckPath, RefineRead,
       RefineStat, RefineGet, RefineRelease DEF Step
  <2> QED BY <2>1, Stutters DEF Service!Next
<1>3. CASE WriteFile
  BY <1>3, RefineWriteFile DEF Service!Next
<1>4. CASE Restart
  BY <1>4, RefineRestart DEF Service!Next
<1>5. CASE Tick \/ UNCHANGED vars
  <2>1. UNCHANGED Seen
    BY <1>5 DEF Tick, ProgramVars, vars, cacheVars, callVars, ghostVars,
                envVars, Seen, Busy
  <2> QED BY <2>1, Stutters
<1> QED BY <1>1, <1>2, <1>3, <1>4, <1>5 DEF Next

(* PlanCache implements PlanService: seen by its callers, the cache with its
   lock, stamps and reloads is one register that moves forward only.       *)
THEOREM Implementation == Spec => ImplementsPlanService
<1>1. ImplementsPlanService <=> Service!Spec
  BY DEF ImplementsPlanService
<1> QED BY <1>1, RefineInit, RefineStep, Invariance, PTL DEF Spec, Service!Spec

=============================================================================
