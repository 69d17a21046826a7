------------------------------ MODULE MCHealth ------------------------------
(***************************************************************************)
(* A small instance of Health.                                             *)
(***************************************************************************)
EXTENDS Health, TLC

CONSTANTS t1, p1, c1, c2, e1, e2

(* The two plans have one agent and one admin, and two admins. *)
MCPlanDocs == {(c1 :> e1) @@ (c2 :> e2), (c1 :> e2) @@ (c2 :> e2)}
MCRoleOf == (e1 :> "agent") @@ (e2 :> "admin")

(* Reloads when the file has changed, and at every lookup. *)
MCConfigs ==
  {[cache_enabled |-> c, reload_on_mtime_change |-> TRUE,
    reload_on_unknown_cn |-> FALSE, reload_min_interval_seconds |-> 0] : c \in BOOLEAN}

=============================================================================
