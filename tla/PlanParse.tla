----------------------------- MODULE PlanParse -----------------------------
(***************************************************************************)
(* parse_plan_dict of src/dprox/plan.py: how the two lists of a plan       *)
(* document become one map from names to entries, or an error.  What a     *)
(* parsed plan is to the rest of the program is in PlanFile.               *)
(***************************************************************************)
EXTENDS Integers, Sequences

CONSTANTS
  Texts, Strip, Empty, \* strings, str.strip() on them, and ""
  Malformed,           \* an entry or list that the models reject, names apart
  PlanTexts            \* documents to parse, once YAML has been read

(* _Entry before the model has seen it.  Its groups are a list, of which a
   frozenset is made in the end.                                           *)
RawEntries == [name : Texts, groups : SUBSET Texts] \cup {Malformed}
Documents == [agents : Seq(RawEntries), admins : Seq(RawEntries)]

ASSUME PlanParseAssumption ==
  /\ Strip \in [Texts -> Texts]
  /\ Malformed \notin [name : Texts, groups : SUBSET Texts]
  /\ PlanTexts \subseteq Documents

VARIABLES
  doc,    \* the document
  next,   \* how many entries of the two lists are in "out"
  out,    \* the map under construction
  parse   \* "idle", "validate", "loop", and how it ended

parseVars == <<doc, next, out, parse>>

Roles == {"agent", "admin"}
ParsedEntries == [role : Roles, groups : SUBSET Texts]

(* The entries in the order of the two loops. *)
All(d) == d.agents \o d.admins
RoleAt(d, i) == IF i <= Len(d.agents) THEN "agent" ELSE "admin"

(* str_strip_whitespace, before min_length=1. *)
NameAt(d, i) == Strip[All(d)[i].name]
EntryAt(d, i) ==
  [role |-> RoleAt(d, i), groups |-> {Strip[g] : g \in All(d)[i].groups}]

(* _PlanModel.model_validate accepts the document. *)
Valid(d) == \A i \in 1 .. Len(All(d)) : All(d)[i] # Malformed /\ NameAt(d, i) # Empty

NoDoc == [agents |-> <<>>, admins |-> <<>>]
NoNames == [n \in {} |-> n]

ParseInit == doc = NoDoc /\ next = 0 /\ out = NoNames /\ parse = "idle"

StartParse(d) ==
  /\ parse = "idle"
  /\ doc' = d /\ next' = 0 /\ out' = NoNames /\ parse' = "validate"

(* The whole document is validated before any of it is used. *)
Validate ==
  /\ parse = "validate"
  /\ parse' = IF Valid(doc) THEN "loop" ELSE "plan_error"
  /\ UNCHANGED <<doc, next, out>>

Put(i) ==
  /\ out' = [n \in DOMAIN out \cup {NameAt(doc, i)} |->
               IF n = NameAt(doc, i) THEN EntryAt(doc, i) ELSE out[n]]
  /\ next' = i
  /\ UNCHANGED parse

(* One turn of the loop over agent_users. *)
AddAgent ==
  /\ parse = "loop" /\ next < Len(doc.agents)
  /\ IF NameAt(doc, next + 1) \in DOMAIN out
     THEN parse' = "plan_error" /\ UNCHANGED <<next, out>>
     ELSE Put(next + 1)
  /\ UNCHANGED doc

(* Slip, a plausible bug that no action has: an admin replaces the agent of its name. *)
AddAdminOver ==
  /\ parse = "loop" /\ next \in Len(doc.agents) .. Len(All(doc)) - 1
  /\ Put(next + 1)
  /\ UNCHANGED doc

(* One turn of the loop over admin_users. *)
AddAdmin ==
  /\ parse = "loop" /\ next \in Len(doc.agents) .. Len(All(doc)) - 1
  /\ IF NameAt(doc, next + 1) \in DOMAIN out
     THEN parse' = "plan_error" /\ UNCHANGED <<next, out>>
     ELSE Put(next + 1)
  /\ UNCHANGED doc

EndParse ==
  /\ parse = "loop" /\ next = Len(All(doc))
  /\ parse' = IF DOMAIN out = {} THEN "plan_error" ELSE "loaded"
  /\ UNCHANGED <<doc, next, out>>

ParseStep == Validate \/ AddAgent \/ AddAdmin \/ EndParse
ParseNext == (\E d \in PlanTexts : StartParse(d)) \/ ParseStep
ParseSpec == ParseInit /\ [][ParseNext]_parseVars

-----------------------------------------------------------------------------
(* What a plan may be: entries the models accept, at least one, and no name
   twice, in whichever list and with whatever blanks around it.            *)
Acceptable(d) ==
  /\ Valid(d) /\ All(d) # <<>>
  /\ \A i, j \in 1 .. Len(All(d)) : NameAt(d, i) = NameAt(d, j) => i = j

(* The map m holds the first k entries of d, each under its own name, and
   nothing else.                                                           *)
Holds(m, d, k) ==
  /\ DOMAIN m = {NameAt(d, i) : i \in 1 .. k}
  /\ \A i \in 1 .. k : m[NameAt(d, i)] = EntryAt(d, i)

(* A document is loaded exactly if it is acceptable, and then every entry
   of either list is in the plan with its own role and groups.             *)
ParseExact ==
  /\ parse = "loaded" => Acceptable(doc) /\ Holds(out, doc, Len(All(doc)))
  /\ parse = "plan_error" => ~Acceptable(doc)

=============================================================================
