------------------------------ MODULE PlanFile ------------------------------
(***************************************************************************)
(* The compiled plan file as dprox finds it on disk.                       *)
(*                                                                         *)
(* The file is written by another program and only read here, so its past  *)
(* is kept as a history: hist[v] is the v-th content the path has had and  *)
(* the last element is what a read or a stat of the path sees now.  A      *)
(* version number is never seen by the program, which has the mtime only;  *)
(* it is what the properties measure staleness with.                       *)
(***************************************************************************)
EXTENDS Integers, Sequences

CONSTANTS
  CNs,          \* certificate names an operator could put in a plan
  Entries,      \* AgentEntry values: role, display name and groups, opaque here
  PlanDocs,     \* the valid plans the operator may deploy
  Faults,       \* the ways the operator may leave the path without one
  StampsReused, \* whether a write may carry an earlier time stamp
  MaxVersions   \* bound: contents the path has over a behaviour

VARIABLE hist

(* Every outcome of parse_plan_dict that is not an error: at least one CN,
   each with exactly one entry.                                            *)
Plans == UNION {[S -> Entries] : S \in (SUBSET CNs) \ {{}}}

NoPlan == [c \in {} |-> c]

(* What load_plan_from_file meets, one kind per way it can end: missing,
   not a regular file, OSError on read, bytes that are not UTF-8, and text
   that is no plan (YAML error, empty, not a mapping, validation error).    *)
FaultKinds == {"gone", "not_file", "unreadable", "undecodable", "bad"}

ASSUME PlanFileAssumption ==
  /\ PlanDocs \subseteq Plans
  /\ Faults \subseteq FaultKinds
  /\ StampsReused \in BOOLEAN
  /\ MaxVersions \in Nat \ {0}

Snapshots == [kind : FaultKinds \cup {"plan"}, plan : Plans \cup {NoPlan},
              mtime : Nat \ {0}]

Latest == Len(hist)
Present == hist[Latest]

(* path.exists() and path.is_file(); stat() fails only on a missing path.  *)
PathIsFile(f) == f.kind \notin {"gone", "not_file"}
StatFails(f) == f.kind = "gone"

(* How the load ends on a file whose read found f.  read_text catches
   OSError and not UnicodeDecodeError, which leaves as it is.              *)
LoadOutcome(f) ==
  IF f.kind = "plan" THEN "loaded"
  ELSE IF f.kind = "undecodable" THEN "uncaught" ELSE "plan_error"

-----------------------------------------------------------------------------
FileInit ==
  \/ \E p \in PlanDocs : hist = <<[kind |-> "plan", plan |-> p, mtime |-> 1]>>
  \/ \E k \in Faults : hist = <<[kind |-> k, plan |-> NoPlan, mtime |-> 1]>>

(* A version's own mtime is its number; a write that keeps or restores a
   time stamp (cp -p, rsync -t, two writes in one clock tick) reuses an
   earlier one.                                                            *)
Stamps == IF StampsReused THEN 1 .. Latest + 1 ELSE {Latest + 1}

Write(kind, plan) ==
  /\ Latest < MaxVersions
  /\ \E m \in Stamps :
       hist' = Append(hist, [kind |-> kind, plan |-> plan, mtime |-> m])

DeployPlan == \E p \in PlanDocs : Write("plan", p)
BreakPlan == \E k \in Faults : Write(k, NoPlan)

=============================================================================
