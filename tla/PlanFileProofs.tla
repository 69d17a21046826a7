--------------------------- MODULE PlanFileProofs ---------------------------
(***************************************************************************)
(* Lemmas about the plan file: what a plan maps to what, how the history   *)
(* of contents begins, and that a write only ever adds to it.              *)
(***************************************************************************)
EXTENDS PlanFile, TLAPS

(* What an entry looked up in a plan is. *)
LEMMA PlanEntries ==
  ASSUME NEW p \in Plans \cup {NoPlan}, NEW c \in DOMAIN p
  PROVE  c \in CNs /\ p[c] \in Entries
<1>1. CASE p = NoPlan
  BY <1>1 DEF NoPlan
<1>2. CASE p \in Plans
  <2>1. PICK S \in (SUBSET CNs) \ {{}} : p \in [S -> Entries]
    BY <1>2 DEF Plans
  <2> QED BY <2>1
<1> QED BY <1>1, <1>2

(* The first content of the path, and what a write leaves of the old ones. *)
LEMMA FirstContent ==
  ASSUME FileInit
  PROVE  /\ hist \in Seq(Snapshots)
         /\ Latest = 1
<1>1. CASE \E p \in PlanDocs : hist = <<[kind |-> "plan", plan |-> p, mtime |-> 1]>>
  <2>1. PICK p \in PlanDocs : hist = <<[kind |-> "plan", plan |-> p, mtime |-> 1]>>
    BY <1>1
  <2>2. [kind |-> "plan", plan |-> p, mtime |-> 1] \in Snapshots
    BY PlanFileAssumption DEF Snapshots
  <2> QED BY <2>1, <2>2 DEF Latest
<1>2. CASE \E k \in Faults : hist = <<[kind |-> k, plan |-> NoPlan, mtime |-> 1]>>
  <2>1. PICK k \in Faults : hist = <<[kind |-> k, plan |-> NoPlan, mtime |-> 1]>>
    BY <1>2
  <2>2. [kind |-> k, plan |-> NoPlan, mtime |-> 1] \in Snapshots
    BY PlanFileAssumption DEF Snapshots
  <2> QED BY <2>1, <2>2 DEF Latest
<1> QED BY <1>1, <1>2 DEF FileInit

LEMMA Written ==
  ASSUME hist \in Seq(Snapshots), DeployPlan \/ BreakPlan
  PROVE  /\ hist' \in Seq(Snapshots)
         /\ Latest' = Latest + 1
         /\ Latest < MaxVersions
         /\ \A v \in 1 .. Latest : hist'[v] = hist[v]
<1>1. ASSUME NEW k \in FaultKinds \cup {"plan"}, NEW p \in Plans \cup {NoPlan},
             Write(k, p)
      PROVE  /\ hist' \in Seq(Snapshots)
             /\ Latest' = Latest + 1
             /\ Latest < MaxVersions
             /\ \A v \in 1 .. Latest : hist'[v] = hist[v]
  <2>1. PICK m \in Stamps : hist' = Append(hist, [kind |-> k, plan |-> p, mtime |-> m])
    BY <1>1 DEF Write
  <2>2. m \in Nat \ {0}
    BY DEF Stamps, Latest
  <2>3. [kind |-> k, plan |-> p, mtime |-> m] \in Snapshots
    BY <2>2 DEF Snapshots
  <2> QED BY <1>1, <2>1, <2>3 DEF Write, Latest
<1>2. CASE DeployPlan
  BY <1>1, <1>2, PlanFileAssumption DEF DeployPlan
<1>3. CASE BreakPlan
  BY <1>1, <1>3, PlanFileAssumption DEF BreakPlan
<1> QED BY <1>2, <1>3

=============================================================================
