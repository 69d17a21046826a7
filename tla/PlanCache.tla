------------------------------ MODULE PlanCache ------------------------------
(***************************************************************************)
(* PlanCache of src/dprox/plan.py, step by step: callers on several        *)
(* threads, one lock, a file that changes under a reload, the process      *)
(* restarting.  Between any two steps of a caller the file may be          *)
(* rewritten, the clock may move and the other callers may run; what the   *)
(* code does without touching the file or the lock is one step.            *)
(***************************************************************************)
EXTENDS PlanFile, FiniteSets

CONSTANTS
  Threads,      \* callers of the cache
  Configs,      \* PlanConfig values a deployment may choose
  MaxClock,     \* bound: time.monotonic() in seconds since the host booted
  MaxRestarts,  \* bound: restarts of the process
  NoThread,     \* the lock is free
  NoCN,         \* the argument of a call that has none
  NoEntry       \* no entry is returned

PlanConfigs ==
  [cache_enabled : BOOLEAN, reload_on_mtime_change : BOOLEAN,
   reload_on_unknown_cn : BOOLEAN, reload_min_interval_seconds : Nat]

ASSUME PlanCacheAssumption ==
  /\ Configs \subseteq PlanConfigs
  /\ MaxClock \in Nat
  /\ MaxRestarts \in Nat
  /\ NoThread \notin Threads
  /\ NoCN \notin CNs
  /\ NoEntry \notin Entries

VARIABLES
  config,       \* the deployment's PlanConfig; never changes
  lock,         \* holder of self._lock
  agents,       \* self._agents
  mtime,        \* self._mtime, 0 for None
  loaded,       \* self._loaded
  lastUnknown,  \* self._last_unknown_cn_reload_mono
  now,          \* time.monotonic()
  restarts,
  pc,           \* where each caller is
  site,         \* which call of _reload_locked it is in or has passed
  cn,           \* argument of its lookup
  draft,        \* the plan it has read and not yet stored
  result,       \* what its call returns or raises
  \* History variables, read by no guard:
  ver,          \* version agents was read from
  stampVer,     \* version mtime was taken from
  started,      \* clock when the process started
  nUnknown,     \* reloads it has tried for an unknown CN
  nChanged,     \* reloads the mtime check made it do that went through
  served,       \* highest version an answer has come from, restarts included
  since,        \* present version when the call began
  floor         \* served when the call began

cacheVars == <<lock, agents, mtime, loaded, lastUnknown>>
callVars == <<pc, site, cn, draft, result, since, floor>>
ghostVars == <<ver, stampVer, started, nUnknown, nChanged, served>>
envVars == <<hist, now, restarts>>
vars == <<config, cacheVars, callVars, ghostVars, envVars>>

NoDraft == [plan |-> NoPlan, ver |-> 0]
Tagged(tag) == [tag |-> tag, entry |-> NoEntry, from |-> 0]
NoResult == Tagged("none")

Steps == {"idle", "lock", "mtime", "check", "read", "stat", "get", "release"}
Holding == Steps \ {"idle", "lock"}
Sites == {"none", "initial", "lookup", "uncached", "mtime", "unknown"}
Tags == {"none", "loaded", "found", "unknown", "plan_error", "uncaught"}

TypeOK ==
  /\ hist \in Seq(Snapshots) /\ Latest \in 1 .. MaxVersions
  /\ config \in Configs
  /\ lock \in Threads \cup {NoThread}
  /\ agents \in Plans \cup {NoPlan}
  /\ mtime \in Nat
  /\ loaded \in BOOLEAN
  /\ lastUnknown \in 0 .. now
  /\ now \in 0 .. MaxClock
  /\ restarts \in 0 .. MaxRestarts
  /\ pc \in [Threads -> Steps]
  /\ site \in [Threads -> Sites]
  /\ cn \in [Threads -> CNs \cup {NoCN}]
  /\ draft \in [Threads -> [plan : Plans \cup {NoPlan}, ver : Nat]]
  /\ result \in [Threads -> [tag : Tags, entry : Entries \cup {NoEntry},
                             from : Nat]]
  /\ ver \in Nat /\ stampVer \in Nat /\ served \in Nat
  /\ started \in 0 .. now /\ nUnknown \in Nat /\ nChanged \in Nat
  /\ since \in [Threads -> Nat]
  /\ floor \in [Threads -> Nat]

-----------------------------------------------------------------------------
Everyone(x) == [t \in Threads |-> x]

(* PlanCache.__init__.  The host may have been up for any time by then.    *)
Init ==
  /\ FileInit
  /\ config \in Configs
  /\ now \in 0 .. MaxClock
  /\ restarts = 0 /\ served = 0
  /\ lock = NoThread /\ agents = NoPlan /\ mtime = 0 /\ loaded = FALSE
  /\ lastUnknown = 0
  /\ ver = 0 /\ stampVer = 0 /\ started = now /\ nUnknown = 0 /\ nChanged = 0
  /\ pc = Everyone("idle") /\ site = Everyone("none") /\ cn = Everyone(NoCN)
  /\ draft = Everyone(NoDraft) /\ result = Everyone(NoResult)
  /\ since = Everyone(0) /\ floor = Everyone(0)

Goto(t, step) == pc' = [pc EXCEPT ![t] = step]
Return(t, r) == result' = [result EXCEPT ![t] = r] /\ Goto(t, "release")

Begin(t, s, c) ==
  /\ pc[t] = "idle"
  /\ Goto(t, "lock")
  /\ site' = [site EXCEPT ![t] = s]
  /\ cn' = [cn EXCEPT ![t] = c]
  /\ since' = [since EXCEPT ![t] = Latest]
  /\ floor' = [floor EXCEPT ![t] = served]
  /\ UNCHANGED <<config, cacheVars, draft, result, ghostVars, envVars>>

(* cli.py loads the plan before anything serves; when that fails the
   process exits, and the next attempt is the next process's.              *)
InitialLoad(t) ==
  /\ ~loaded
  /\ \A u \in Threads : pc[u] = "idle"
  /\ Begin(t, "initial", NoCN)

Lookup(t) == loaded /\ \E c \in CNs : Begin(t, "lookup", c)

(* Definitions marked "Slip" are plausible bugs in the definition that
   follows them; no action uses them, and PROJECT.json names the property
   each one would break.                                                   *)

(* "with self._lock", and which way lookup goes under it.                  *)
(* Slip: the mtime check is left to unknown CNs. *)
FirstStepUnchecked(t) ==
  IF site[t] = "initial" \/ ~config.cache_enabled THEN "check" ELSE "get"

FirstStep(t) ==
  IF site[t] = "initial" \/ ~config.cache_enabled THEN "check"
  ELSE IF config.reload_on_mtime_change THEN "mtime" ELSE "get"

(* Slip: lookup runs without the lock. *)
AcquireUnlocked(t) ==
  /\ pc[t] = "lock"
  /\ lock' = t
  /\ Goto(t, FirstStep(t))
  /\ UNCHANGED <<config, agents, mtime, loaded, lastUnknown, site, cn, draft,
                 result, since, floor, ghostVars, envVars>>

(* Slip: a lock that is busy is an error. *)
AcquireOrFail(t) ==
  /\ pc[t] = "lock"
  /\ IF lock = NoThread
     THEN lock' = t /\ Goto(t, FirstStep(t)) /\ UNCHANGED result
     ELSE Return(t, Tagged("plan_error")) /\ UNCHANGED lock
  /\ UNCHANGED <<config, agents, mtime, loaded, lastUnknown, site, cn, draft,
                 since, floor, ghostVars, envVars>>

Acquire(t) ==
  /\ pc[t] = "lock"
  /\ lock = NoThread
  /\ lock' = t
  /\ Goto(t, FirstStep(t))
  /\ site' = IF site[t] = "lookup" /\ ~config.cache_enabled
             THEN [site EXCEPT ![t] = "uncached"] ELSE site
  /\ UNCHANGED <<config, agents, mtime, loaded, lastUnknown, cn, draft,
                 result, since, floor, ghostVars, envVars>>

(* Slip: a file is taken for changed only when it is newer. *)
MtimeNewer == StatFails(Present) \/ Present.mtime > mtime

(* _mtime_changed_locked. *)
MtimeChanged == StatFails(Present) \/ Present.mtime # mtime

MtimeCheck(t) ==
  /\ pc[t] = "mtime"
  /\ IF MtimeChanged
     THEN Goto(t, "check") /\ site' = [site EXCEPT ![t] = "mtime"]
     ELSE Goto(t, "get") /\ UNCHANGED site
  /\ UNCHANGED <<config, cacheVars, cn, draft, result, since, floor,
                 ghostVars, envVars>>

(* _reload_locked in three steps, the system calls it makes on the path:   *)
(* exists and is_file, then the read (and the parse of what it returned),  *)
(* then the stat.                                                          *)
CheckPath(t) ==
  /\ pc[t] = "check"
  /\ IF PathIsFile(Present)
     THEN Goto(t, "read") /\ UNCHANGED result
     ELSE Return(t, Tagged("plan_error"))
  /\ UNCHANGED <<config, cacheVars, site, cn, draft, since, floor,
                 ghostVars, envVars>>

Read(t) ==
  /\ pc[t] = "read"
  /\ IF LoadOutcome(Present) = "loaded"
     THEN /\ draft' = [draft EXCEPT ![t] = [plan |-> Present.plan,
                                            ver |-> Latest]]
          /\ Goto(t, "stat")
          /\ UNCHANGED result
     ELSE Return(t, Tagged(LoadOutcome(Present))) /\ UNCHANGED draft
  /\ UNCHANGED <<config, cacheVars, site, cn, since, floor, ghostVars,
                 envVars>>

(* Slip: the new plan is merged into the old one. *)
CommitMerging(t) ==
  /\ agents' = [c \in DOMAIN draft[t].plan \cup DOMAIN agents |->
                  IF c \in DOMAIN draft[t].plan THEN draft[t].plan[c] ELSE agents[c]]
  /\ ver' = draft[t].ver
  /\ mtime' = Present.mtime /\ stampVer' = Latest
  /\ loaded' = TRUE

(* Slip: the stamp of the first load is kept. *)
CommitUnstamped(t) ==
  /\ agents' = draft[t].plan /\ ver' = draft[t].ver
  /\ IF loaded THEN UNCHANGED <<mtime, stampVer>>
     ELSE mtime' = Present.mtime /\ stampVer' = Latest
  /\ loaded' = TRUE

(* The stat, and when it succeeds the three assignments; lookup goes on to
   self._agents.get(cn) and initial_load returns.                          *)
Commit(t) ==
  /\ agents' = draft[t].plan /\ ver' = draft[t].ver
  /\ mtime' = Present.mtime /\ stampVer' = Latest
  /\ loaded' = TRUE

Stat(t) ==
  /\ pc[t] = "stat"
  /\ IF StatFails(Present)
     THEN /\ Return(t, Tagged("plan_error"))
          /\ UNCHANGED <<agents, ver, mtime, stampVer, loaded, nChanged>>
     ELSE /\ Commit(t)
          /\ nChanged' = IF site[t] = "mtime" THEN nChanged + 1 ELSE nChanged
          /\ IF site[t] = "initial"
             THEN Return(t, Tagged("loaded"))
             ELSE Goto(t, "get") /\ UNCHANGED result
  /\ draft' = [draft EXCEPT ![t] = NoDraft]
  /\ UNCHANGED <<config, lock, lastUnknown, site, cn, since, floor,
                 started, nUnknown, served, envVars>>

(* self._agents.get(cn) and what lookup does with it. *)
Hit(t) == cn[t] \in DOMAIN agents

(* Slip: the time of the last reload is left out. *)
UnknownReloadDueAlways(t) ==
  /\ site[t] \in {"lookup", "mtime"}
  /\ config.reload_on_unknown_cn
  /\ now >= config.reload_min_interval_seconds

UnknownReloadDue(t) ==
  /\ site[t] \in {"lookup", "mtime"}
  /\ config.reload_on_unknown_cn
  /\ now - lastUnknown >= config.reload_min_interval_seconds

Get(t) ==
  /\ pc[t] = "get"
  /\ ~(~Hit(t) /\ UnknownReloadDue(t))
  /\ Return(t, IF Hit(t)
               THEN [tag |-> "found", entry |-> agents[cn[t]], from |-> ver]
               ELSE [tag |-> "unknown", entry |-> NoEntry, from |-> ver])
  /\ served' = ver
  /\ UNCHANGED <<config, cacheVars, site, cn, draft, since, floor, ver,
                 stampVer, started, nUnknown, nChanged, envVars>>

(* Slip: the time of the next reload is kept, in the field of the last. *)
ReloadForUnknownAhead(t) ==
  /\ pc[t] = "get"
  /\ ~Hit(t) /\ UnknownReloadDue(t)
  /\ lastUnknown' = now + config.reload_min_interval_seconds
  /\ nUnknown' = nUnknown + 1
  /\ site' = [site EXCEPT ![t] = "unknown"]
  /\ Goto(t, "check")
  /\ UNCHANGED <<config, lock, agents, mtime, loaded, cn, draft, result,
                 since, floor, ver, stampVer, started, nChanged, served, envVars>>

(* The time stamp is set before the reload is tried. *)
ReloadForUnknown(t) ==
  /\ pc[t] = "get"
  /\ ~Hit(t) /\ UnknownReloadDue(t)
  /\ lastUnknown' = now /\ nUnknown' = nUnknown + 1
  /\ site' = [site EXCEPT ![t] = "unknown"]
  /\ Goto(t, "check")
  /\ UNCHANGED <<config, lock, agents, mtime, loaded, cn, draft, result,
                 since, floor, ver, stampVer, started, nChanged, served, envVars>>

(* Slip: an exception leaves without releasing. *)
ReleaseUnlessRaised(t) ==
  /\ pc[t] = "release"
  /\ lock' = IF result[t].tag = "plan_error" THEN lock ELSE NoThread
  /\ Goto(t, "idle")
  /\ site' = [site EXCEPT ![t] = "none"]
  /\ cn' = [cn EXCEPT ![t] = NoCN]
  /\ result' = [result EXCEPT ![t] = NoResult]
  /\ since' = [since EXCEPT ![t] = 0]
  /\ floor' = [floor EXCEPT ![t] = 0]
  /\ UNCHANGED <<config, agents, mtime, loaded, lastUnknown, draft, ghostVars,
                 envVars>>

(* The lock is released on every way out of the with statement, exceptions
   included, and the caller has its result.                                *)
Release(t) ==
  /\ pc[t] = "release"
  /\ lock' = NoThread
  /\ Goto(t, "idle")
  /\ site' = [site EXCEPT ![t] = "none"]
  /\ cn' = [cn EXCEPT ![t] = NoCN]
  /\ result' = [result EXCEPT ![t] = NoResult]
  /\ since' = [since EXCEPT ![t] = 0]
  /\ floor' = [floor EXCEPT ![t] = 0]
  /\ UNCHANGED <<config, agents, mtime, loaded, lastUnknown, draft, ghostVars,
                 envVars>>

Step(t) ==
  \/ Acquire(t) \/ MtimeCheck(t) \/ CheckPath(t) \/ Read(t) \/ Stat(t)
  \/ Get(t) \/ ReloadForUnknown(t) \/ Release(t)

-----------------------------------------------------------------------------
(* The world around the cache. *)
ProgramVars == <<config, cacheVars, callVars, ghostVars>>

WriteFile ==
  /\ DeployPlan \/ BreakPlan
  /\ UNCHANGED <<ProgramVars, now, restarts>>

Tick ==
  /\ now < MaxClock
  /\ now' = now + 1
  /\ UNCHANGED <<ProgramVars, hist, restarts>>

(* The process is killed at any point and started again on the same host. *)
Restart ==
  /\ restarts < MaxRestarts
  /\ restarts' = restarts + 1
  /\ lock' = NoThread /\ agents' = NoPlan /\ mtime' = 0 /\ loaded' = FALSE
  /\ lastUnknown' = 0
  /\ ver' = 0 /\ stampVer' = 0 /\ started' = now /\ nUnknown' = 0 /\ nChanged' = 0
  /\ pc' = Everyone("idle") /\ site' = Everyone("none") /\ cn' = Everyone(NoCN)
  /\ draft' = Everyone(NoDraft) /\ result' = Everyone(NoResult)
  /\ since' = Everyone(0) /\ floor' = Everyone(0)
  /\ UNCHANGED <<config, served, hist, now>>

Next ==
  \/ \E t \in Threads : InitialLoad(t) \/ Lookup(t) \/ Step(t)
  \/ WriteFile \/ Tick \/ Restart

Spec == Init /\ [][Next]_vars

(* A thread that is running goes on running (nothing is claimed about who
   gets a contended lock), and there is always another caller.             *)
LiveSpec ==
  /\ Spec
  /\ \A t \in Threads : WF_vars(Step(t))
  /\ WF_vars(\E t \in Threads : InitialLoad(t) \/ Lookup(t))

-----------------------------------------------------------------------------
Answered(t) == result[t].tag \in {"found", "unknown"}
Failed(t) == result[t].tag \in {"plan_error", "uncaught"}

(* An answer is the one plan's answer it came from: never an entry of a
   plan that no longer names the CN, never a mix of two plans, however
   many reloads the cache has been through (lookup, _reload_locked).       *)
AnswerExact ==
  \A t \in Threads : Answered(t) =>
    LET r == result[t] IN
    /\ r.from \in 1 .. Latest /\ hist[r.from].kind = "plan"
    /\ r.tag = "found" <=> cn[t] \in DOMAIN hist[r.from].plan
    /\ r.tag = "found" => r.entry = hist[r.from].plan[cn[t]]

(* Once any caller has been answered from a version of the plan, no call
   that begins later is answered from an earlier one, on any thread and
   across restarts: a revocation that has been seen stays seen.            *)
MonotonicReads ==
  \A t \in Threads : Answered(t) => result[t].from >= floor[t]

(* The file was replaced between the read of the cached plan and the stat
   that stamped it.                                                        *)
Raced == ver < stampVer

(* A later content carries the very time stamp the cache compares with. *)
SameStamp(v) == \E w \in v .. Latest : w # stampVer /\ hist[w].mtime = mtime

(* With the cache off an answer is never older than the call.  With the
   mtime check on it is older only when the stamp is wrong, because of a
   replacement inside a reload, or says nothing, because of a write that
   reused it: the two ways "mtime-stat per query" can miss a change.       *)
StaleOnlyByRace ==
  \A t \in Threads : Answered(t) =>
    /\ ~config.cache_enabled => result[t].from >= since[t]
    /\ config.reload_on_mtime_change =>
         result[t].from >= since[t] \/ Raced \/ SameStamp(since[t])

(* A call fails only when the path held no loadable plan at some moment of
   that very call; no earlier failure is remembered and a busy lock is not
   an error.                                                               *)
ErrorsAreCurrent ==
  \A t \in Threads : Failed(t) =>
    \E v \in since[t] .. Latest : LoadOutcome(hist[v]) = result[t].tag

(* Unknown CNs make a process read the file once, and once more for each
   interval that it has been running, at the most, however many callers
   bring them and whether or not the reloads succeed; and the mtime check
   has each content of the file loaded once at the most, however its stamps
   go up and down (lookup, _mtime_changed_locked, _reload_locked).
   Nothing bounds the reads of a cache that is off, nor those of the mtime
   check while the path holds no plan: every lookup tries again.           *)
FloodBounded ==
  /\ nUnknown > 0 =>
       (nUnknown - 1) * config.reload_min_interval_seconds <= now - started
  /\ nChanged > 0 => nChanged < Latest

(* The lock comes free again after every way a call can end. *)
LockReleased == lock # NoThread ~> lock = NoThread

Settled == <>[](Present.kind = "plan")
UpToDate == loaded /\ ver = Latest

(* The cached stamp is the file's and the cached plan is not: what the
   mtime check cannot see.                                                 *)
Misled == loaded /\ ver < Latest /\ mtime = Present.mtime

(* Once the file is a plan for good, a cache that looks at the mtime or
   does not cache ends up with that plan, broken files, failed reloads and
   restarts on the way notwithstanding; the one exception is a cache with
   the mtime check that was misled.                                        *)
ConvergesUnlessMisled ==
  Settled /\ [](~config.cache_enabled \/ config.reload_on_mtime_change)
    => <>[](UpToDate \/ (config.cache_enabled /\ Misled))

(* plan.py:132-133: the caches of the workers "converge via the mtime stat
   on each lookup".  Stated for a file whose every write has a stamp of
   its own.                                                                *)
FreshStamps == \A v, w \in 1 .. Latest : hist[v].mtime = hist[w].mtime => v = w

Converges ==
  Settled /\ []FreshStamps /\ [](config.cache_enabled /\ config.reload_on_mtime_change)
    => <>[]UpToDate

(* tests/test_plan.py:297, "First unknown lookup should trigger a reload":
   no CN is refused before the process has reloaded for an unknown one.    *)
FirstMissReloads ==
  \A t \in Threads :
    result[t].tag = "unknown" /\ config.cache_enabled /\ config.reload_on_unknown_cn
      => nUnknown > 0

(* PlanCache implements PlanService. *)
Service == INSTANCE PlanService
             WITH reg <- served, open <- {t \in Threads : pc[t] # "idle"}
ImplementsPlanService == Service!Spec

=============================================================================
