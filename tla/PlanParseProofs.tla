-------------------------- MODULE PlanParseProofs --------------------------
(***************************************************************************)
(* Proofs about PlanParse, for documents of any length and any names.      *)
(***************************************************************************)
EXTENDS PlanParse, TLAPS

Distinct(d, k) == \A i, j \in 1 .. k : NameAt(d, i) = NameAt(d, j) => i = j

(* What holds between the turns of the loops: the first entries are in the
   map, and no two of them have the same name.                             *)
ParseInv ==
  /\ doc \in Documents
  /\ parse \in {"idle", "validate", "loop", "loaded", "plan_error"}
  /\ out \in [DOMAIN out -> ParsedEntries] /\ DOMAIN out \subseteq Texts
  /\ parse = "validate" => next = 0 /\ DOMAIN out = {}
  /\ parse = "loop" =>
       /\ Valid(doc) /\ next \in 0 .. Len(All(doc))
       /\ Distinct(doc, next) /\ Holds(out, doc, next)
  /\ ParseExact

LEMMA Entry ==
  ASSUME NEW d \in Documents, Valid(d), NEW i \in 1 .. Len(All(d))
  PROVE  NameAt(d, i) \in Texts /\ EntryAt(d, i) \in ParsedEntries
<1>1. All(d) \in Seq(RawEntries)
  BY DEF All, Documents
<1>2. All(d)[i] \in [name : Texts, groups : SUBSET Texts]
  BY <1>1 DEF Valid, RawEntries
<1>3. NameAt(d, i) \in Texts
  BY <1>2, PlanParseAssumption DEF NameAt
<1>4. {Strip[g] : g \in All(d)[i].groups} \in SUBSET Texts
  BY <1>2, PlanParseAssumption
<1>5. RoleAt(d, i) \in Roles
  BY DEF RoleAt, Roles
<1> QED BY <1>3, <1>4, <1>5 DEF EntryAt, ParsedEntries

LEMMA Lengths ==
  ASSUME NEW d \in Documents
  PROVE  Len(All(d)) \in Nat /\ Len(d.agents) \in Nat
BY DEF All, Documents

(* One turn that finds its name taken, and one that does not. *)
LEMMA Taken ==
  ASSUME ParseInv, parse = "loop", NEW i, i = next + 1, i \in 1 .. Len(All(doc)),
         NameAt(doc, i) \in DOMAIN out
  PROVE  ~Acceptable(doc)
<1>1. PICK j \in 1 .. next : NameAt(doc, j) = NameAt(doc, i)
  BY DEF ParseInv, Holds
<1>2. j \in 1 .. Len(All(doc)) /\ j # i
  BY Lengths DEF ParseInv
<1> QED BY <1>1, <1>2 DEF Acceptable

LEMMA Added ==
  ASSUME ParseInv, parse = "loop", NEW i, i = next + 1, i \in 1 .. Len(All(doc)),
         NameAt(doc, i) \notin DOMAIN out, Put(i), UNCHANGED doc
  PROVE  ParseInv'
<1>1. next \in Nat /\ Len(All(doc)) \in Nat /\ i \in 1 .. Len(All(doc)) /\ 1 .. i = (1 .. next) \cup {i}
  BY Lengths DEF ParseInv
<1>2. NameAt(doc, i) \in Texts /\ EntryAt(doc, i) \in ParsedEntries
  BY Entry DEF ParseInv
<1>3. /\ DOMAIN out' = DOMAIN out \cup {NameAt(doc, i)}
      /\ out'[NameAt(doc, i)] = EntryAt(doc, i)
      /\ \A n \in DOMAIN out : out'[n] = out[n]
  BY DEF Put
<1>4. out' \in [DOMAIN out' -> ParsedEntries]
  <2>1. \A n \in DOMAIN out : out[n] \in ParsedEntries
    BY DEF ParseInv
  <2> QED BY <1>2, <2>1 DEF Put
<1>5. DOMAIN out' \subseteq Texts
  BY <1>2, <1>3 DEF ParseInv
<1>6. Distinct(doc, i)
  <2>1. \A j \in 1 .. next : NameAt(doc, j) # NameAt(doc, i)
    BY DEF ParseInv, Holds
  <2> QED BY <1>1, <2>1 DEF ParseInv, Distinct
<1>7. Holds(out', doc, i)
  <2>1. DOMAIN out' = {NameAt(doc, j) : j \in 1 .. i}
    BY <1>1, <1>3 DEF ParseInv, Holds
  <2>2. ASSUME NEW j \in 1 .. i PROVE out'[NameAt(doc, j)] = EntryAt(doc, j)
    <3>1. CASE j = i
      BY <1>3, <3>1
    <3>2. CASE j \in 1 .. next
      BY <1>3, <3>2 DEF ParseInv, Holds
    <3> QED BY <1>1, <3>1, <3>2
  <2> QED BY <2>1, <2>2 DEF Holds
<1>8. doc' = doc /\ next' = i /\ parse' = "loop"
  BY DEF Put
<1>9. /\ Distinct(doc', next') /\ Holds(out', doc', next') /\ Valid(doc')
      /\ next' \in 0 .. Len(All(doc'))
  BY <1>1, <1>6, <1>7, <1>8 DEF ParseInv
<1> QED BY <1>4, <1>5, <1>8, <1>9 DEF ParseInv, ParseExact

-----------------------------------------------------------------------------
LEMMA ParseStart ==
  ASSUME ParseInv, NEW d \in PlanTexts, StartParse(d)
  PROVE  ParseInv'
BY PlanParseAssumption DEF StartParse, NoNames, ParseInv, ParseExact

LEMMA ParseValidate == ParseInv /\ Validate => ParseInv'
<1> SUFFICES ASSUME ParseInv, Validate PROVE ParseInv'
  OBVIOUS
<1>1. CASE Valid(doc)
  <2>1. 1 .. next = {} /\ next \in 0 .. Len(All(doc))
    BY Lengths DEF ParseInv, Validate
  <2>2. Distinct(doc, next) /\ Holds(out, doc, next)
    BY <2>1 DEF Distinct, Holds, ParseInv, Validate
  <2>3. /\ Distinct(doc', next') /\ Holds(out', doc', next') /\ Valid(doc')
        /\ next' \in 0 .. Len(All(doc')) /\ parse' = "loop"
    BY <1>1, <2>1, <2>2 DEF Validate
  <2> QED BY <2>3 DEF Validate, ParseInv, ParseExact
<1>2. CASE ~Valid(doc)
  <2>1. ~Acceptable(doc') /\ parse' = "plan_error"
    BY <1>2 DEF Acceptable, Validate
  <2> QED BY <2>1 DEF Validate, ParseInv, ParseExact
<1> QED BY <1>1, <1>2

(* Either loop: a turn puts the next entry or ends in an error. *)
LEMMA ParseAdd == ParseInv /\ (AddAgent \/ AddAdmin) => ParseInv'
<1> SUFFICES ASSUME ParseInv, AddAgent \/ AddAdmin PROVE ParseInv'
  OBVIOUS
<1>1. parse = "loop" /\ next \in Nat /\ next + 1 \in 1 .. Len(All(doc)) /\ UNCHANGED doc
  <2>1. Len(doc.agents) <= Len(All(doc))
    BY DEF ParseInv, Documents, All
  <2> QED BY <2>1, Lengths DEF AddAgent, AddAdmin, ParseInv
<1>2. CASE NameAt(doc, next + 1) \in DOMAIN out
  <2>1. ~Acceptable(doc)
    BY <1>1, <1>2, Taken
  <2>2. ~Acceptable(doc') /\ parse' = "plan_error" /\ UNCHANGED <<doc, next, out>>
    BY <1>1, <1>2, <2>1 DEF AddAgent, AddAdmin
  <2> QED BY <2>2 DEF ParseInv, ParseExact
<1>3. CASE NameAt(doc, next + 1) \notin DOMAIN out
  BY <1>1, <1>3, Added DEF AddAgent, AddAdmin
<1> QED BY <1>2, <1>3

LEMMA ParseEnd == ParseInv /\ EndParse => ParseInv'
<1> SUFFICES ASSUME ParseInv, EndParse PROVE ParseInv'
  OBVIOUS
<1>1. /\ Valid(doc) /\ Distinct(doc, Len(All(doc)))
      /\ Holds(out, doc, Len(All(doc))) /\ UNCHANGED <<doc, next, out>>
  BY DEF EndParse, ParseInv
<1>2. CASE DOMAIN out = {}
  <2>1. ~(1 \in 1 .. Len(All(doc)))
    BY <1>1, <1>2 DEF Holds
  <2>2. All(doc) = <<>>
    BY <2>1, Lengths DEF ParseInv, All, Documents
  <2>3. ~Acceptable(doc') /\ parse' = "plan_error"
    BY <1>1, <1>2, <2>2 DEF Acceptable, EndParse
  <2> QED BY <1>1, <2>3 DEF ParseInv, ParseExact
<1>3. CASE DOMAIN out # {}
  <2>1. All(doc) # <<>>
    BY <1>1, <1>3 DEF Holds
  <2>2. Acceptable(doc') /\ Holds(out', doc', Len(All(doc'))) /\ parse' = "loaded"
    BY <1>1, <1>3, <2>1 DEF Acceptable, Distinct, EndParse
  <2> QED BY <1>1, <2>2 DEF ParseInv, ParseExact
<1> QED BY <1>2, <1>3

LEMMA ParseInductive == ParseSpec => []ParseInv
<1>1. ParseInit => ParseInv
  BY DEF ParseInit, ParseInv, ParseExact, NoDoc, NoNames, Documents
<1>2. ParseInv /\ [ParseNext]_parseVars => ParseInv'
  <2> SUFFICES ASSUME ParseInv, [ParseNext]_parseVars PROVE ParseInv'
    OBVIOUS
  <2>1. CASE \E d \in PlanTexts : StartParse(d)
    BY <2>1, ParseStart
  <2>2. CASE ParseStep
    BY <2>2, ParseValidate, ParseAdd, ParseEnd DEF ParseStep
  <2>3. CASE UNCHANGED parseVars
    BY <2>3 DEF parseVars, ParseInv, ParseExact
  <2> QED BY <2>1, <2>2, <2>3 DEF ParseNext
<1> QED BY <1>1, <1>2, PTL DEF ParseSpec

(* parse_plan_dict loads exactly the acceptable documents, and loads all of
   them, for lists of any length: no duplicate slips through in any order
   and no entry is lost or changes its role.                               *)
THEOREM ParsedExactly == ParseSpec => []ParseExact
<1>1. ParseInv => ParseExact
  BY DEF ParseInv
<1> QED BY <1>1, ParseInductive, PTL

(* What it loads is a plan as PlanFile takes it: a map from at least one CN
   to entries.                                                             *)
File == INSTANCE PlanFile
          WITH CNs <- Texts, Entries <- ParsedEntries, PlanDocs <- {}, Faults <- {},
               StampsReused <- FALSE, MaxVersions <- 1, hist <- <<>>

LoadsPlans == parse = "loaded" => out \in File!Plans

THEOREM ParsedIsAPlan == ParseSpec => []LoadsPlans
<1>1. ParseInv => LoadsPlans
  <2> SUFFICES ASSUME ParseInv, parse = "loaded" PROVE out \in File!Plans
    BY DEF LoadsPlans
  <2>1. 1 \in 1 .. Len(All(doc))
    <3>1. All(doc) # <<>> /\ All(doc) \in Seq(RawEntries)
      BY DEF ParseInv, ParseExact, Acceptable, All, Documents
    <3> QED BY <3>1
  <2>2. NameAt(doc, 1) \in DOMAIN out
    BY <2>1 DEF ParseInv, ParseExact, Holds
  <2>3. DOMAIN out \in (SUBSET Texts) \ {{}}
    BY <2>2 DEF ParseInv
  <2> QED BY <2>3 DEF ParseInv, File!Plans
<1> QED BY <1>1, ParseInductive, PTL

=============================================================================
