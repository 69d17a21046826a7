----------------------------- MODULE MCPlanCache -----------------------------
(***************************************************************************)
(* Small instances of PlanCache.                                           *)
(***************************************************************************)
EXTENDS PlanCache, TLC

CONSTANTS t1, t2, c1, c2, e1, e2

(* From one to the other of these two plans a CN changes its entry and a CN
   comes or goes.                                                          *)
MCPlanDocs == {(c1 :> e1) @@ (c2 :> e1), c1 :> e2}

(* Where only the version of a plan matters. *)
MCOnePlan == {c1 :> e2}

Option(cache, stat, unknown, interval) ==
  [cache_enabled |-> cache, reload_on_mtime_change |-> stat,
   reload_on_unknown_cn |-> unknown, reload_min_interval_seconds |-> interval]

(* Every caching option; with the cache off the others are not read. *)
MCConfigs ==
  {Option(FALSE, TRUE, TRUE, 1), Option(TRUE, TRUE, TRUE, 1),
   Option(TRUE, TRUE, FALSE, 1), Option(TRUE, FALSE, TRUE, 1),
   Option(TRUE, FALSE, FALSE, 1)}

(* Where the interval is worth telling from a tick. *)
MCIntervals == {Option(TRUE, TRUE, TRUE, 1), Option(TRUE, FALSE, TRUE, 2)}

(* Those that look at the file at every lookup. *)
MCLooking == {Option(FALSE, TRUE, TRUE, 1), Option(TRUE, TRUE, TRUE, 1)}
MCDefault == {Option(TRUE, TRUE, TRUE, 1)}

Symmetry == Permutations(Threads)

=============================================================================
