----------------------------- MODULE PlanService -----------------------------
(***************************************************************************)
(* What a caller of PlanCache may rely on, whatever the caching options:   *)
(* the cache behaves like one register that holds a version of the plan    *)
(* file and only ever moves forward, across restarts too.  An answer is    *)
(* that version's answer, exactly; an error is raised only when the path   *)
(* held no plan at some moment of the call.  How far the register may lag  *)
(* behind the file is not part of this contract.  PlanCache implements it, *)
(* and Server stands on it.                                                *)
(***************************************************************************)
EXTENDS PlanFile

CONSTANTS Threads, NoCN, NoEntry

VARIABLES
  reg,      \* the version the last answer came from
  open,     \* callers with a call under way
  cn,       \* what each asks for
  since,    \* present version when its call began
  result    \* what it got, "none" until the answer is decided

svars == <<hist, reg, open, cn, since, result>>

Reply(tag, entry, v) == [tag |-> tag, entry |-> entry, from |-> v]

(* The answer for c of the plan that is version v. *)
AnswerOf(c, v) ==
  IF c \in DOMAIN hist[v].plan
  THEN Reply("found", hist[v].plan[c], v)
  ELSE Reply("unknown", NoEntry, v)

(* The versions an answer may come from when the register holds r. *)
Answering(r) == {v \in 1 .. Latest : v >= r /\ hist[v].kind = "plan"}

(* The ways a call that began at version s may fail. *)
Failures(s) ==
  {Reply(LoadOutcome(hist[v]), NoEntry, 0) :
     v \in {w \in s .. Latest : hist[w].kind # "plan"}}

Init ==
  /\ FileInit
  /\ reg = 0
  /\ open = {}
  /\ cn = [t \in Threads |-> NoCN]
  /\ since = [t \in Threads |-> 0]
  /\ result = [t \in Threads |-> Reply("none", NoEntry, 0)]

Invoke(t, c) ==
  /\ t \notin open
  /\ open' = open \cup {t}
  /\ cn' = [cn EXCEPT ![t] = c]
  /\ since' = [since EXCEPT ![t] = Latest]
  /\ UNCHANGED <<hist, reg, result>>

Pending(t) == t \in open /\ result[t].tag = "none"
Decide(t, r) == result' = [result EXCEPT ![t] = r]

Answer(t) ==
  /\ Pending(t) /\ cn[t] # NoCN
  /\ \E v \in Answering(reg) : reg' = v /\ Decide(t, AnswerOf(cn[t], v))
  /\ UNCHANGED <<hist, open, cn, since>>

Load(t) ==
  /\ Pending(t) /\ cn[t] = NoCN
  /\ Decide(t, Reply("loaded", NoEntry, 0))
  /\ UNCHANGED <<hist, reg, open, cn, since>>

Fail(t) ==
  /\ Pending(t)
  /\ \E r \in Failures(since[t]) : Decide(t, r)
  /\ UNCHANGED <<hist, reg, open, cn, since>>

Finish(t) ==
  /\ t \in open /\ result[t].tag # "none"
  /\ open' = open \ {t}
  /\ cn' = [cn EXCEPT ![t] = NoCN]
  /\ since' = [since EXCEPT ![t] = 0]
  /\ result' = [result EXCEPT ![t] = Reply("none", NoEntry, 0)]
  /\ UNCHANGED <<hist, reg>>

Change == (DeployPlan \/ BreakPlan) /\ UNCHANGED <<reg, open, cn, since, result>>

Crash ==
  /\ open' = {}
  /\ cn' = [t \in Threads |-> NoCN]
  /\ since' = [t \in Threads |-> 0]
  /\ result' = [t \in Threads |-> Reply("none", NoEntry, 0)]
  /\ UNCHANGED <<hist, reg>>

Next ==
  \/ \E t \in Threads :
       \/ \E c \in CNs \cup {NoCN} : Invoke(t, c)
       \/ Answer(t) \/ Load(t) \/ Fail(t) \/ Finish(t)
  \/ Change \/ Crash

Spec == Init /\ [][Next]_svars

=============================================================================
