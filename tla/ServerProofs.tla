---------------------------- MODULE ServerProofs ----------------------------
(***************************************************************************)
(* Proofs about Server, for every number of concurrent requests, every     *)
(* collection, plan, call and logging option, and whatever the upstreams   *)
(* reply.                                                                  *)
(***************************************************************************)
EXTENDS Server, PlanFileProofs, FiniteSetTheorems

Verified(r) == Verdict(r) = "verified"

(* Who the caller is for a plan, and for the properties. *)
Known(r) == \E c \in CNs : Identity(call[r].cert, c)

(* One deciding plan says that the caller of r has entry e, or has none.   *)
Granted(r, e) ==
  \E v \in Deciding(r) :
    Caller(r) \in DOMAIN hist[v].plan /\ e = hist[v].plan[Caller(r)]
Denied(r) == \E v \in Deciding(r) : Caller(r) \notin DOMAIN hist[v].plan

(* A request that has no answer yet has left nothing behind. *)
Untouched(r) == hits[r] = {} /\ response[r] = NoResponse /\ audit[r] = <<>>

(* What a request knows while it waits for the body, the certificate or its
   turn; for the plan; for an upstream.                                    *)
Arrived(r) == call[r] \in Calls /\ entry[r] = NoEntry /\ Untouched(r)

Asking(r) ==
  /\ Arrived(r) /\ Verified(r) /\ cn[r] = Caller(r)
  /\ result[r].tag = "found" => Granted(r, result[r].entry)
  /\ result[r].tag = "unknown" => Denied(r)

Resolved(r) ==
  /\ call[r] \in Calls /\ Untouched(r) /\ Verified(r)
  /\ LimitOf(r) \in 1 .. MaxLimit
  /\ Granted(r, entry[r])

(* What may be in an answer, and in the log beside it. *)
SoundAnswer(r) ==
  /\ response[r].status = 200 =>
       \E e \in Entries :
         /\ Verified(r) /\ Granted(r, e) /\ response[r].groups = GroupsOf[e]
         /\ LimitOf(r) \in 1 .. MaxLimit /\ Cardinality(hits[r]) <= LimitOf(r)
         /\ \A k \in hits[r] :
              Convertible(PayloadOf[k]) /\ Matches(PayloadOf[k], GroupsOf[e])
  /\ response[r].status # 200 => hits[r] = {}
  /\ response[r].status = 401 => Verdict(r) \in Auth!AuthCodes
  /\ response[r].status = 403 => Verified(r) /\ Denied(r)
  /\ response[r].status \in {502, 504} => Verified(r)

Recorded(r) ==
  AuditVisible =>
    IF Trail(r) # {} THEN Len(audit[r]) = 1 /\ audit[r][1] \in Trail(r)
    ELSE audit[r] = <<>>

Decided(r) ==
  /\ call[r] \in Calls /\ Answered(r) /\ SoundAnswer(r) /\ Recorded(r)

(* The invariant of one request: its coroutine is inside the cache exactly
   while it waits for the plan, it takes no result into another lookup, and
   it arrived at a version that the register has not gone back behind.     *)
RequestInv(r) ==
  /\ r \in open <=> stage[r] = "plan"
  /\ stage[r] # "plan" => result[r].tag = "none"
  /\ floor[r] <= reg
  /\ stage[r] = "free" => entry[r] = NoEntry /\ Untouched(r)
  /\ stage[r] \in {"body", "auth"} => Arrived(r)
  /\ stage[r] = "plan" => Asking(r)
  /\ stage[r] \in {"embed", "search"} => Resolved(r)
  /\ stage[r] = "send" => Decided(r)

IInv == TypeOK /\ \A r \in Requests : RequestInv(r)

-----------------------------------------------------------------------------
(* Certificates and logging levels.                                        *)
LEMMA Calling ==
  ASSUME NEW r \in Requests, call[r] \in Calls
  PROVE  /\ call[r].cert \in Auth!Certificates \cup {NoCert}
         /\ call[r].limit \in Int \cup {NoLimit}
         /\ call[r] # NoCall
BY ServerAssumption DEF AllCalls

(* A verified certificate names one CN, ... *)
LEMMA Identified ==
  ASSUME NEW r \in Requests, call[r] \in Calls, Verified(r)
  PROVE  Caller(r) \in CNs /\ Identity(call[r].cert, Caller(r))
<1> DEFINE cert == call[r].cert
<1>1. /\ cert # NoCert /\ cert.loads /\ cert.readable /\ cert.subject
      /\ "clientAuth" \in cert.usages /\ Auth!OneTextName(cert)
  BY DEF Verified, Verdict, Auth!Verdict
<1>2. cert \in Auth!Certificates
  BY <1>1, Calling
<1>3. cert.names \in Seq(CNs \cup {NotText})
  BY <1>2 DEF Auth!Certificates
<1>4. Len(cert.names) = 1 /\ cert.names[1] \in CNs
  BY <1>1, <1>3 DEF Auth!OneTextName
<1>5. cert.names = <<cert.names[1]>>
  BY <1>3, <1>4
<1> QED BY <1>1, <1>4, <1>5 DEF Identity, Caller, Auth!NameOf

(* ... and one that was rejected names none. *)
LEMMA Unidentified ==
  ASSUME NEW r \in Requests, call[r] \in Calls, Verdict(r) \in Auth!AuthCodes
  PROVE  ~Known(r)
<1> SUFFICES ASSUME NEW c \in CNs, Identity(call[r].cert, c) PROVE FALSE
  BY DEF Known
<1>1. Auth!OneTextName(call[r].cert)
  BY ServerAssumption DEF Identity, Auth!OneTextName
<1>2. Verdict(r) = "verified"
  BY <1>1 DEF Identity, Verdict, Auth!Verdict
<1> QED BY <1>2 DEF Auth!AuthCodes

LEMMA Ranks == Rank("DEBUG") = 1 /\ Rank("INFO") = 2
<1>1. Len(Levels) = 4 /\ Levels[1] = "DEBUG" /\ Levels[2] = "INFO"
        /\ Levels[3] = "WARNING" /\ Levels[4] = "ERROR"
  BY DEF Levels
<1>2. \A i \in 1 .. 4 : (Levels[i] = "DEBUG" => i = 1) /\ (Levels[i] = "INFO" => i = 2)
  BY <1>1
<1> QED BY <1>1, <1>2 DEF Rank

-----------------------------------------------------------------------------
(* What steps leave alone.                                                 *)

(* A request that does not take part in a step. *)
Same(q) ==
  /\ UNCHANGED <<cn[q], result[q], stage[q], call[q], entry[q], hits[q]>>
  /\ UNCHANGED <<response[q], audit[q], floor[q]>>
  /\ q \in open' <=> q \in open

(* The contents the path has had are what they were. *)
Extended ==
  /\ Latest' \in Nat /\ Latest <= Latest'
  /\ \A v \in 1 .. Latest : hist'[v] = hist[v]

LEMMA Unwritten == ASSUME TypeOK, UNCHANGED hist PROVE Extended
BY DEF TypeOK, Extended, Latest

(* What is said of the caller follows from the call alone. *)
LEMMA SameCall ==
  ASSUME NEW q \in Requests, UNCHANGED call[q]
  PROVE  /\ Verdict(q)' = Verdict(q) /\ (Verified(q)' <=> Verified(q))
         /\ Caller(q)' = Caller(q) /\ LimitOf(q)' = LimitOf(q)
<1>1. Verdict(q)' = Verdict(q)
  BY DEF Verdict, Auth!Verdict, Auth!OneTextName
<1>2. Caller(q)' = Caller(q) /\ LimitOf(q)' = LimitOf(q)
  BY DEF Caller, Auth!NameOf, LimitOf
<1> QED BY <1>1, <1>2 DEF Verified

(* A plan that may decide a request may decide it ever after. *)
LEMMA SameGrounds ==
  ASSUME TypeOK, NEW q \in Requests, Extended, UNCHANGED <<call[q], floor[q]>>
  PROVE  /\ \A e \in Entries \cup {NoEntry} : Granted(q, e) => Granted(q, e)'
         /\ Denied(q) => Denied(q)'
<1>1. ASSUME NEW v \in Deciding(q) PROVE v \in Deciding(q)' /\ hist'[v] = hist[v]
  <2>1. v \in 1 .. Latest /\ v >= floor[q] /\ hist[v].kind = "plan"
    BY DEF Deciding
  <2>2. Latest \in Nat
    BY DEF TypeOK, Latest
  <2>3. v \in 1 .. Latest' /\ hist'[v] = hist[v]
    BY <2>1, <2>2 DEF Extended
  <2> QED BY <2>1, <2>3 DEF Deciding
<1>2. Caller(q)' = Caller(q)
  BY SameCall
<1>3. Denied(q) => Denied(q)'
  BY <1>1, <1>2 DEF Denied
<1>4. ASSUME NEW e \in Entries \cup {NoEntry}, Granted(q, e) PROVE Granted(q, e)'
  BY <1>1, <1>2, <1>4 DEF Granted
<1> QED BY <1>3, <1>4

LEMMA Kept ==
  ASSUME IInv, NEW q \in Requests, Same(q), Extended, UNCHANGED logging,
         reg' \in Int, reg <= reg'
  PROVE  RequestInv(q)'
<1> USE DEF Same
<1>1. /\ RequestInv(q) /\ TypeOK /\ floor[q] \in Int /\ reg \in Int
      /\ entry[q] \in Entries \cup {NoEntry}
      /\ result[q].entry \in Entries \cup {NoEntry}
  BY DEF IInv, TypeOK, Latest
<1>2. /\ Verdict(q)' = Verdict(q) /\ (Verified(q)' <=> Verified(q))
      /\ Caller(q)' = Caller(q) /\ LimitOf(q)' = LimitOf(q)
  BY SameCall
<1>3. /\ \A e \in Entries \cup {NoEntry} : Granted(q, e) => Granted(q, e)'
      /\ Denied(q) => Denied(q)'
  BY <1>1, SameGrounds
<1>4. floor'[q] <= reg'
  BY <1>1 DEF RequestInv
<1>5. (Untouched(q) => Untouched(q)') /\ (Arrived(q) => Arrived(q)')
  BY DEF Untouched, Arrived
<1>6. Asking(q) => Asking(q)'
  BY <1>1, <1>2, <1>3, <1>5 DEF Asking
<1>7. Resolved(q) => Resolved(q)'
  BY <1>1, <1>2, <1>3, <1>5 DEF Resolved
<1>8. SoundAnswer(q) => SoundAnswer(q)'
  BY <1>2, <1>3 DEF SoundAnswer
<1>9. Trail(q)' = Trail(q)
  BY <1>2 DEF Trail
<1>10. Recorded(q) => Recorded(q)'
  BY <1>9 DEF Recorded, AuditVisible
<1>11. Decided(q) => Decided(q)'
  BY <1>8, <1>10 DEF Decided, Answered
<1> QED BY <1>1, <1>4, <1>5, <1>6, <1>7, <1>11 DEF RequestInv

(* One request moves and the others wait. *)
LEMMA OneMoves ==
  ASSUME IInv, TypeOK', NEW r \in Requests, RequestInv(r)',
         \A q \in Requests \ {r} : Same(q),
         UNCHANGED <<hist, logging>>, reg <= reg'
  PROVE  IInv'
<1>1. Extended /\ reg' \in Int
  BY Unwritten DEF IInv, TypeOK, Latest
<1>2. ASSUME NEW q \in Requests PROVE RequestInv(q)'
  BY <1>1, Kept
<1> QED BY <1>2 DEF IInv

-----------------------------------------------------------------------------
(* Answers and their audit lines.                                          *)
LEMMA Responded ==
  ASSUME TypeOK, NEW r \in Requests, NEW status \in Statuses,
         NEW groups \in SUBSET Groups, Respond(r, status, groups)
  PROVE  /\ stage' \in [Requests -> Stages]
         /\ response' \in [Requests -> [status : Statuses, groups : SUBSET Groups]]
         /\ stage'[r] = "send"
         /\ response'[r] = [status |-> status, groups |-> groups]
         /\ \A q \in Requests \ {r} : UNCHANGED <<stage[q], response[q]>>
BY DEF TypeOK, Respond, Goto, Stages

LEMMA Logged ==
  ASSUME TypeOK, NEW r \in Requests, NEW level \in {"DEBUG", "INFO"},
         NEW e \in Events, Emit(r, level, e)
  PROVE  /\ audit' \in [Requests -> Seq(Events)]
         /\ \A q \in Requests \ {r} : audit'[q] = audit[q]
BY DEF TypeOK, Emit

LEMMA Noted ==
  ASSUME TypeOK, NEW r \in Requests, NEW level \in {"DEBUG", "INFO"},
         NEW e \in Events, Emit(r, level, e), audit[r] = <<>>,
         UNCHANGED logging, level = "DEBUG" => logging.log_query_text,
         e \in Trail(r)'
  PROVE  Recorded(r)'
<1> SUFFICES ASSUME AuditVisible' PROVE Len(audit'[r]) = 1 /\ audit'[r][1] \in Trail(r)'
  BY DEF Recorded
<1>1. Rank(level) >= logging.level
  BY Ranks DEF AuditVisible
<1>2. audit'[r] = Append(<<>>, e)
  BY <1>1 DEF TypeOK, Emit
<1> QED BY <1>2

LEMMA Unnoted ==
  ASSUME NEW r \in Requests, audit[r] = <<>>, UNCHANGED audit,
         response'[r].status \in {400, 500}
  PROVE  Recorded(r)'
BY DEF Recorded, Trail

(* r is answered without points, for a cause and with its audit line.      *)
Refusal(r, status) ==
  /\ call[r] \in Calls /\ Untouched(r) /\ status \in Statuses \ {0, 200}
  /\ status = 401 => Verdict(r) \in Auth!AuthCodes
  /\ status = 403 => Verified(r) /\ Denied(r)
  /\ status \in {502, 504} => Verified(r)
  /\ Respond(r, status, {})
  /\ reg' = reg /\ UNCHANGED <<hist, logging, call, hits, floor>>
  /\ r \notin open' /\ result'[r].tag = "none"

LEMMA Refused ==
  ASSUME IInv, TypeOK', NEW r \in Requests, NEW status, Refusal(r, status),
         Recorded(r)', \A q \in Requests \ {r} : Same(q)
  PROVE  IInv'
<1>1. TypeOK /\ RequestInv(r) /\ status \in Statuses \ {0, 200}
  BY DEF IInv, Refusal
<1>2. stage'[r] = "send" /\ response'[r] = [status |-> status, groups |-> {}]
  BY <1>1 DEF TypeOK, Refusal, Respond, Goto
<1>3. SoundAnswer(r)'
  <2>1. Verdict(r)' = Verdict(r) /\ (Verified(r)' <=> Verified(r))
    BY SameCall DEF Refusal
  <2>2. Denied(r) => Denied(r)'
    BY <1>1, Unwritten, SameGrounds DEF Refusal
  <2> QED BY <1>2, <2>1, <2>2 DEF SoundAnswer, Refusal, Untouched
<1>4. Decided(r)'
  BY <1>1, <1>2, <1>3 DEF Refusal, Decided, Answered
<1>5. RequestInv(r)'
  BY <1>1, <1>2, <1>4 DEF Refusal, RequestInv
<1>6. reg <= reg'
  BY <1>1 DEF TypeOK, Latest, Refusal
<1> QED BY <1>5, <1>6, OneMoves DEF Refusal

-----------------------------------------------------------------------------
(* The steps.                                                              *)
LEMMA InvInit == Init => IInv
<1> SUFFICES ASSUME Init PROVE IInv
  OBVIOUS
<1> USE DEF Init, Plan!Init, Plan!Reply, Each, NoResponse
<1>1. FileInit
  BY DEF Plan!FileInit, FileInit, Plan!NoPlan, NoPlan
<1>2. hist \in Seq(Snapshots) /\ Latest = 1
  BY <1>1, FirstContent
<1>3. result \in [Requests -> [tag : Tags, entry : Entries \cup {NoEntry}, from : Nat]]
  BY DEF Tags
<1>4. response \in [Requests -> [status : Statuses, groups : SUBSET Groups]]
  BY DEF Statuses
<1>5. /\ reg \in 0 .. Latest /\ open \in SUBSET Requests
      /\ cn \in [Requests -> CNs \cup {NoCN}] /\ since \in [Requests -> Nat]
      /\ logging \in LogConfigs /\ stage \in [Requests -> Stages]
      /\ call \in [Requests -> Calls \cup {NoCall}]
      /\ entry \in [Requests -> Entries \cup {NoEntry}]
      /\ hits \in [Requests -> SUBSET Chunks]
      /\ audit \in [Requests -> Seq(Events)] /\ floor \in [Requests -> Nat]
  BY <1>2 DEF Stages
<1>6. TypeOK
  BY <1>2, <1>3, <1>4, <1>5 DEF TypeOK
<1>7. ASSUME NEW r \in Requests PROVE RequestInv(r)
  BY DEF RequestInv, Untouched
<1> QED BY <1>6, <1>7 DEF IInv

LEMMA InvArrive ==
  ASSUME IInv, NEW r \in Requests, Arrive(r)
  PROVE  IInv'
<1>1. TypeOK /\ RequestInv(r) /\ stage[r] = "free"
  BY DEF IInv, Arrive
<1>2. TypeOK'
  BY <1>1 DEF TypeOK, Arrive, Goto, Stages, planVars, Latest
<1>3. \A q \in Requests \ {r} : Same(q)
  BY <1>1 DEF TypeOK, Arrive, Goto, planVars, Same
<1>4. stage'[r] = "body" /\ floor'[r] = reg' /\ Arrived(r)'
  BY <1>1 DEF TypeOK, RequestInv, Arrive, Goto, planVars, Arrived, Untouched
<1>5. RequestInv(r)'
  BY <1>1, <1>2, <1>4 DEF TypeOK, RequestInv, Arrive, planVars, Latest
<1> QED BY <1>1, <1>2, <1>3, <1>5, OneMoves DEF Arrive, planVars, TypeOK, Latest

(* A step before the lookup or after it leaves the cache as it is.         *)
LEMMA Outside ==
  ASSUME IInv, NEW r \in Requests, stage[r] # "plan", UNCHANGED planVars
  PROVE  r \notin open' /\ reg' = reg /\ result'[r].tag = "none"
BY DEF planVars, IInv, RequestInv

LEMMA Elsewhere ==
  ASSUME TypeOK, NEW r \in Requests, NEW status \in Statuses, Respond(r, status, {}),
         audit' \in [Requests -> Seq(Events)],
         \A q \in Requests \ {r} : audit'[q] = audit[q],
         UNCHANGED <<hist, planVars, logging, call, entry, hits, floor>>
  PROVE  TypeOK' /\ \A q \in Requests \ {r} : Same(q)
<1>1. TypeOK'
  BY DEF TypeOK, Respond, Goto, Stages, planVars, Latest
<1>2. \A q \in Requests \ {r} : Same(q)
  BY DEF TypeOK, Respond, Goto, planVars, Same
<1> QED BY <1>1, <1>2

(* It ends in an answer that leaves no line, ... *)
LEMMA RefusedSilently ==
  ASSUME IInv, NEW r \in Requests, stage[r] # "plan",
         call[r] \in Calls, Untouched(r),
         NEW status \in {400, 500}, Refuse(r, status),
         UNCHANGED <<hist, planVars, logging, call, entry, hits, floor>>
  PROVE  IInv'
<1>1. Respond(r, status, {}) /\ UNCHANGED audit /\ audit[r] = <<>> /\ TypeOK
  BY DEF Refuse, Untouched, IInv
<1>2. Recorded(r)'
  BY <1>1, Unnoted DEF TypeOK, Respond
<1>3. status \in Statuses /\ status \in Statuses \ {0, 200}
  BY DEF Statuses
<1>4. TypeOK' /\ \A q \in Requests \ {r} : Same(q)
  <2>1. audit' \in [Requests -> Seq(Events)] /\ \A q \in Requests \ {r} : audit'[q] = audit[q]
    BY <1>1 DEF TypeOK
  <2> QED BY <1>1, <1>3, <2>1, Elsewhere
<1>5. Refusal(r, status)
  BY <1>1, <1>3, Outside DEF Refusal
<1> QED BY <1>2, <1>4, <1>5, Refused

(* ... or in one that leaves its line. *)
LEMMA RefusedLoudly ==
  ASSUME IInv, NEW r \in Requests, stage[r] # "plan",
         call[r] \in Calls, Untouched(r),
         NEW status \in {401, 502, 504}, NEW e \in Events,
         Respond(r, status, {}), Emit(r, "INFO", e),
         status = 401 => Verdict(r) \in Auth!AuthCodes,
         status \in {502, 504} => Verified(r),
         e \in Trail(r)',
         UNCHANGED <<hist, planVars, logging, call, entry, hits, floor>>
  PROVE  IInv'
<1>1. audit[r] = <<>> /\ TypeOK
  BY DEF Untouched, IInv
<1>2. Recorded(r)'
  BY <1>1, Noted
<1>3. status \in Statuses /\ status \in Statuses \ {0, 200}
  BY DEF Statuses
<1>4. TypeOK' /\ \A q \in Requests \ {r} : Same(q)
  <2>1. audit' \in [Requests -> Seq(Events)] /\ \A q \in Requests \ {r} : audit'[q] = audit[q]
    BY <1>1, Logged
  <2> QED BY <1>1, <1>3, <2>1, Elsewhere
<1>5. Refusal(r, status)
  BY <1>3, Outside DEF Refusal
<1> QED BY <1>2, <1>4, <1>5, Refused

(* A request that passes a check keeps what it knows. *)
LEMMA InvReadBody ==
  ASSUME IInv, NEW r \in Requests, ReadBody(r)
  PROVE  IInv'
<1>1. /\ TypeOK /\ RequestInv(r) /\ stage[r] = "body" /\ Arrived(r)
      /\ call[r] \in Calls /\ Untouched(r)
      /\ UNCHANGED <<hist, planVars, logging, call, entry, hits, floor>>
  BY DEF IInv, RequestInv, ReadBody, Arrived
<1>2. CASE Refuse(r, 400)
  BY <1>1, <1>2, RefusedSilently
<1>3. CASE Goto(r, "auth") /\ UNCHANGED <<response, audit>>
  <2>1. TypeOK'
    BY <1>1, <1>3 DEF TypeOK, Goto, Stages, planVars, Latest
  <2>2. \A q \in Requests \ {r} : Same(q)
    BY <1>1, <1>3 DEF TypeOK, Goto, planVars, Same
  <2>3. RequestInv(r)'
    BY <1>1, <1>3 DEF TypeOK, RequestInv, Goto, planVars, Arrived, Untouched
  <2> QED BY <1>1, <2>1, <2>2, <2>3, OneMoves DEF planVars, TypeOK, Latest
<1> QED BY <1>2, <1>3 DEF ReadBody

LEMMA InvRejectCert ==
  ASSUME IInv, NEW r \in Requests, RejectCert(r)
  PROVE  IInv'
<1> DEFINE e == Event("auth_rejected", Auth!Reason(Verdict(r)), NoCN, {}, 0)
<1>1. /\ TypeOK /\ stage[r] = "auth" /\ call[r] \in Calls /\ Untouched(r)
      /\ Verdict(r) \in Auth!AuthCodes
      /\ UNCHANGED <<hist, planVars, logging, call, entry, hits, floor>>
      /\ Respond(r, 401, {}) /\ Emit(r, "INFO", e)
  BY DEF IInv, RequestInv, RejectCert, Arrived
<1>2. e \in Events
  BY <1>1 DEF Event, Events
<1>3. response'[r].status = 401
  BY <1>1 DEF TypeOK, Respond
<1>4. e \in Trail(r)'
  <2>1. Auth!Reason(Verdict(r)) =
          IF call[r].cert = NoCert THEN "no_client_cert"
          ELSE IF call[r].cert.loads /\ "clientAuth" \in call[r].cert.usages
          THEN "cn_unparseable" ELSE "cert_invalid"
    BY <1>1 DEF Verdict, Auth!Verdict, Auth!AuthCodes, Auth!Reason
  <2> QED BY <1>1, <1>3, <2>1 DEF Trail, Event
<1> HIDE DEF e
<1> QED BY <1>1, <1>2, <1>4, RefusedLoudly

LEMMA InvTurnAway ==
  ASSUME IInv, NEW r \in Requests, RaiseCert(r) \/ RejectBody(r)
  PROVE  IInv'
<1>1. /\ stage[r] = "auth" /\ call[r] \in Calls /\ Untouched(r)
      /\ UNCHANGED <<hist, planVars, logging, call, entry, hits, floor>>
      /\ Refuse(r, 500) \/ Refuse(r, 400)
  BY DEF IInv, RequestInv, RaiseCert, RejectBody, Arrived
<1> QED BY <1>1, RefusedSilently

(* The handler asks the cache for its caller's entry. *)
LEMMA InvStartLookup ==
  ASSUME IInv, NEW r \in Requests, StartLookup(r)
  PROVE  IInv'
<1>1. /\ TypeOK /\ RequestInv(r) /\ stage[r] = "auth" /\ Verified(r)
      /\ Arrived(r) /\ call[r] \in Calls /\ result[r].tag = "none"
      /\ Plan!Invoke(r, Caller(r)) /\ Goto(r, "plan")
      /\ UNCHANGED <<logging, call, entry, hits, response, audit, floor>>
  BY DEF IInv, RequestInv, StartLookup, Arrived, Verified
<1>2. /\ open' = open \cup {r} /\ cn' = [cn EXCEPT ![r] = Caller(r)]
      /\ since' = [since EXCEPT ![r] = Latest] /\ UNCHANGED <<hist, reg, result>>
  BY <1>1 DEF Plan!Invoke, Plan!Latest, Latest
<1>3. Caller(r) \in CNs /\ Latest \in Nat /\ Latest' = Latest
  BY <1>1, <1>2, Identified DEF TypeOK, Latest
<1>4. TypeOK'
  BY <1>1, <1>2, <1>3 DEF TypeOK, Goto, Stages
<1>5. \A q \in Requests \ {r} : Same(q)
  BY <1>1, <1>2 DEF TypeOK, Goto, Same
<1>6. Asking(r)'
  <2>1. (Verified(r)' <=> Verified(r)) /\ Caller(r)' = Caller(r)
    BY <1>1, SameCall
  <2> QED BY <1>1, <1>2, <2>1 DEF TypeOK, Asking, Arrived, Untouched
<1>7. RequestInv(r)'
  BY <1>1, <1>2, <1>6 DEF TypeOK, RequestInv, Goto
<1> QED BY <1>1, <1>2, <1>4, <1>5, <1>7, OneMoves DEF TypeOK, Latest

(* The contract answers from a version that may decide the request, ... *)
LEMMA InvAnswer ==
  ASSUME IInv, NEW r \in Requests, Plan!Answer(r), UNCHANGED <<logging, requestVars>>
  PROVE  IInv'
<1>1. /\ TypeOK /\ RequestInv(r) /\ stage[r] = "plan" /\ Asking(r) /\ floor[r] <= reg
      /\ Latest \in Nat /\ floor[r] \in Nat
  BY DEF IInv, RequestInv, Plan!Answer, Plan!Pending, TypeOK, Latest
<1>2. PICK v \in Plan!Answering(reg) : reg' = v /\ Plan!Decide(r, Plan!AnswerOf(cn[r], v))
  BY DEF Plan!Answer
<1>3. v \in 1 .. Latest /\ v >= reg /\ hist[v].kind = "plan"
  BY <1>2 DEF Plan!Answering, Plan!Latest, Latest
<1> DEFINE plan == hist[v].plan
           answer == IF cn[r] \in DOMAIN plan
                     THEN [tag |-> "found", entry |-> plan[cn[r]], from |-> v]
                     ELSE [tag |-> "unknown", entry |-> NoEntry, from |-> v]
<1>4. result' = [result EXCEPT ![r] = answer]
  <2>1. Plan!AnswerOf(cn[r], v) = answer
    BY DEF Plan!AnswerOf, Plan!Reply
  <2> QED BY <1>2, <2>1 DEF Plan!Decide
<1>5. UNCHANGED <<hist, open, cn, since, logging, requestVars>>
  BY DEF Plan!Answer
<1>6. plan \in Plans \cup {NoPlan}
  <2>1. hist[v] \in Snapshots
    BY <1>1, <1>3 DEF TypeOK, Latest
  <2> QED BY <2>1 DEF Snapshots
<1>7. cn[r] \in DOMAIN plan => plan[cn[r]] \in Entries
  BY <1>6, PlanEntries
<1>8. answer \in [tag : Tags, entry : Entries \cup {NoEntry}, from : Nat]
  BY <1>3, <1>7 DEF Tags
<1>9. v \in Deciding(r) /\ Caller(r) = cn[r]
  BY <1>1, <1>3 DEF Deciding, Asking, TypeOK
<1>10. /\ answer.tag = "found" => Granted(r, answer.entry)
       /\ answer.tag = "unknown" => Denied(r)
  BY <1>9 DEF Granted, Denied
<1>11. answer.entry \in Entries \cup {NoEntry}
  BY <1>8
<1> HIDE DEF answer, plan
<1>12. TypeOK'
  BY <1>1, <1>3, <1>4, <1>5, <1>8, <1>2 DEF TypeOK, requestVars, Latest
<1>13. \A q \in Requests \ {r} : Same(q)
  BY <1>1, <1>4, <1>5 DEF TypeOK, requestVars, Same
<1>14. Asking(r)'
  <2>1. (Verified(r)' <=> Verified(r)) /\ Caller(r)' = Caller(r)
    BY <1>5, SameCall DEF requestVars
  <2>2. result'[r] = answer
    BY <1>1, <1>4 DEF TypeOK
  <2>3. Extended /\ call'[r] = call[r] /\ floor'[r] = floor[r]
    BY <1>1, <1>5, Unwritten DEF requestVars
  <2>4. /\ \A e \in Entries \cup {NoEntry} : Granted(r, e) => Granted(r, e)'
        /\ Denied(r) => Denied(r)'
    BY <1>1, <2>3, SameGrounds
  <2>5. /\ answer.tag = "found" => Granted(r, result[r].entry)'
        /\ answer.tag = "unknown" => Denied(r)'
    BY <1>10, <1>11, <2>2, <2>4 DEF Granted
  <2> QED BY <1>1, <1>5, <2>1, <2>2, <2>5 DEF Asking, Arrived, Untouched, requestVars
<1>15. RequestInv(r)'
  BY <1>1, <1>2, <1>3, <1>5, <1>14 DEF TypeOK, RequestInv, requestVars
<1> QED BY <1>1, <1>2, <1>3, <1>5, <1>12, <1>13, <1>15, OneMoves DEF TypeOK

(* ... and fails only when there was none. *)
LEMMA InvFail ==
  ASSUME IInv, NEW r \in Requests, Plan!Fail(r), UNCHANGED <<logging, requestVars>>
  PROVE  IInv'
<1>1. /\ TypeOK /\ RequestInv(r) /\ stage[r] = "plan" /\ Asking(r)
  BY DEF IInv, RequestInv, Plan!Fail, Plan!Pending
<1>2. PICK v \in since[r] .. Latest :
        /\ hist[v].kind # "plan"
        /\ Plan!Decide(r, [tag |-> Plan!LoadOutcome(hist[v]), entry |-> NoEntry, from |-> 0])
  BY DEF Plan!Fail, Plan!Failures, Plan!Reply, Plan!Latest, Latest
<1> DEFINE failure == [tag |-> Plan!LoadOutcome(hist[v]), entry |-> NoEntry, from |-> 0]
<1>3. failure.tag \in {"plan_error", "uncaught"}
  BY <1>2 DEF Plan!LoadOutcome
<1>4. failure \in [tag : Tags, entry : Entries \cup {NoEntry}, from : Nat]
  BY <1>3 DEF Tags
<1>5. result' = [result EXCEPT ![r] = failure]
  BY <1>2 DEF Plan!Decide
<1> HIDE DEF failure
<1>6. UNCHANGED <<hist, reg, open, cn, since, logging, requestVars>>
  BY DEF Plan!Fail
<1>7. TypeOK'
  BY <1>1, <1>4, <1>5, <1>6 DEF TypeOK, requestVars, Latest
<1>8. \A q \in Requests \ {r} : Same(q)
  BY <1>1, <1>5, <1>6 DEF TypeOK, requestVars, Same
<1>9. Asking(r)'
  <2>1. (Verified(r)' <=> Verified(r)) /\ Caller(r)' = Caller(r)
    BY <1>6, SameCall DEF requestVars
  <2>2. result'[r].tag \in {"plan_error", "uncaught"}
    BY <1>1, <1>3, <1>5 DEF TypeOK
  <2> QED BY <1>1, <1>6, <2>1, <2>2 DEF Asking, Arrived, Untouched, requestVars
<1>10. RequestInv(r)'
  BY <1>1, <1>6, <1>9 DEF RequestInv, requestVars
<1> QED BY <1>1, <1>6, <1>7, <1>8, <1>10, OneMoves DEF TypeOK, Latest

(* The handler gets its result back, one of four kinds. *)
Returned(r) ==
  /\ r \in open /\ open' = open \ {r}
  /\ cn' = [cn EXCEPT ![r] = NoCN] /\ since' = [since EXCEPT ![r] = 0]
  /\ result' = [result EXCEPT ![r] = [tag |-> "none", entry |-> NoEntry, from |-> 0]]
  /\ UNCHANGED <<hist, reg, logging, call, hits, floor>>

(* It touches nobody else's request. *)
Answering(r) ==
  /\ stage' \in [Requests -> Stages] /\ entry' \in [Requests -> Entries \cup {NoEntry}]
  /\ response' \in [Requests -> [status : Statuses, groups : SUBSET Groups]]
  /\ audit' \in [Requests -> Seq(Events)]
  /\ \A q \in Requests \ {r} :
       /\ stage'[q] = stage[q] /\ entry'[q] = entry[q]
       /\ response'[q] = response[q] /\ audit'[q] = audit[q]

LEMMA ReturnedElsewhere ==
  ASSUME TypeOK, NEW r \in Requests, Returned(r),
         Answering(r)
  PROVE  TypeOK' /\ (\A q \in Requests \ {r} : Same(q)) /\ result'[r].tag = "none"
<1>1. result' \in [Requests -> [tag : Tags, entry : Entries \cup {NoEntry}, from : Nat]]
  BY DEF TypeOK, Returned, Tags
<1>2. TypeOK'
  BY <1>1 DEF TypeOK, Returned, Answering, Latest
<1>3. \A q \in Requests \ {r} : Same(q)
  BY DEF TypeOK, Returned, Answering, Same
<1>4. result'[r].tag = "none"
  BY DEF TypeOK, Returned
<1> QED BY <1>2, <1>3, <1>4

LEMMA InvEndLookup ==
  ASSUME IInv, NEW r \in Requests, EndLookup(r)
  PROVE  IInv'
<1>1. /\ TypeOK /\ RequestInv(r) /\ stage[r] = "plan" /\ Asking(r) /\ Returned(r)
      /\ Verified(r) /\ call[r] \in Calls /\ Untouched(r) /\ cn[r] = Caller(r)
      /\ r \notin open' /\ audit[r] = <<>> /\ Caller(r) \in CNs
  BY Identified DEF IInv, RequestInv, EndLookup, Plan!Finish, Plan!Reply, Returned,
     Asking, Arrived, Untouched
<1>2. reg' = reg /\ UNCHANGED <<hist, logging, call, hits, floor>>
  BY <1>1 DEF Returned
(* An answer with a line, for either cause. *)
<1>3. ASSUME NEW status \in {403, 502}, NEW e \in Events,
             Respond(r, status, {}), Emit(r, "INFO", e), UNCHANGED entry,
             status = 403 => Denied(r), e \in Trail(r)'
      PROVE  IInv'
  <2>1. status \in Statuses /\ status \in Statuses \ {0, 200} /\ status # 401
    BY DEF Statuses
  <2>2. /\ audit' \in [Requests -> Seq(Events)]
        /\ \A q \in Requests \ {r} : audit'[q] = audit[q]
    BY <1>1, <1>3, Logged
  <2>3. /\ stage' \in [Requests -> Stages]
        /\ response' \in [Requests -> [status : Statuses, groups : SUBSET Groups]]
        /\ \A q \in Requests \ {r} : stage'[q] = stage[q] /\ response'[q] = response[q]
    BY <1>1, <1>3, <2>1 DEF TypeOK, Respond, Goto, Stages
  <2>4. TypeOK' /\ (\A q \in Requests \ {r} : Same(q)) /\ result'[r].tag = "none"
    <3>1. /\ entry' \in [Requests -> Entries \cup {NoEntry}]
          /\ \A q \in Requests \ {r} : entry'[q] = entry[q]
      BY <1>1, <1>3 DEF TypeOK
    <3>2. Answering(r)
      BY <2>2, <2>3, <3>1 DEF Answering
    <3> QED BY <1>1, <3>2, ReturnedElsewhere
  <2>5. Recorded(r)'
    BY <1>1, <1>2, <1>3, Noted
  <2>6. Refusal(r, status)
    BY <1>1, <1>2, <1>3, <2>1, <2>4 DEF Refusal
  <2> QED BY <2>4, <2>5, <2>6, Refused
(* An answer without. *)
<1>4. ASSUME NEW status \in {400, 500}, Refuse(r, status),
             entry' \in [Requests -> Entries \cup {NoEntry}],
             \A q \in Requests \ {r} : entry'[q] = entry[q]
      PROVE  IInv'
  <2>1. status \in Statuses /\ status \in Statuses \ {0, 200}
    BY DEF Statuses
  <2>2. Respond(r, status, {}) /\ UNCHANGED audit /\ response'[r].status = status
    BY <1>1, <1>4 DEF TypeOK, Refuse, Respond
  <2>3. /\ stage' \in [Requests -> Stages] /\ audit' \in [Requests -> Seq(Events)]
        /\ response' \in [Requests -> [status : Statuses, groups : SUBSET Groups]]
        /\ \A q \in Requests \ {r} :
             stage'[q] = stage[q] /\ response'[q] = response[q] /\ audit'[q] = audit[q]
    BY <1>1, <2>1, <2>2 DEF TypeOK, Respond, Goto, Stages
  <2>4. TypeOK' /\ (\A q \in Requests \ {r} : Same(q)) /\ result'[r].tag = "none"
    <3>1. Answering(r)
      BY <1>4, <2>3 DEF Answering
    <3> QED BY <1>1, <3>1, ReturnedElsewhere
  <2>5. Recorded(r)'
    BY <1>1, <2>2, Unnoted
  <2>6. Refusal(r, status)
    BY <1>1, <1>2, <2>1, <2>2, <2>4 DEF Refusal
  <2> QED BY <2>4, <2>5, <2>6, Refused
<1>5. CASE LookupFailed(r) \/ UnknownAgent(r)
  <2>1. PICK status \in {403, 502}, e \in Events :
          /\ Respond(r, status, {}) /\ Emit(r, "INFO", e) /\ UNCHANGED entry
          /\ status = 403 => Denied(r)
          /\ e = IF status = 403 THEN Event("auth_rejected", "unknown_cn", Caller(r), {}, 0)
                ELSE Event("query_failed", "upstream_unavailable", Caller(r), {}, 0)
    <3>1. /\ Event("auth_rejected", "unknown_cn", Caller(r), {}, 0) \in Events
          /\ Event("query_failed", "upstream_unavailable", Caller(r), {}, 0) \in Events
      BY <1>1 DEF Event, Events
    <3> QED BY <1>1, <1>5, <3>1 DEF LookupFailed, UnknownAgent, Asking
  <2>2. Caller(r)' = Caller(r) /\ response'[r].status = status
    BY <1>1, <1>2, <2>1, SameCall DEF TypeOK, Respond
  <2>3. e \in Trail(r)'
    <3>1. CASE status = 403
      BY <2>1, <2>2, <3>1 DEF Trail, Event
    <3>2. CASE status = 502
      BY <2>1, <2>2, <3>2 DEF Trail, Event
    <3> QED BY <3>1, <3>2
  <2> QED BY <1>3, <2>1, <2>3
<1>6. CASE LookupRaised(r)
  BY <1>1, <1>4, <1>6 DEF LookupRaised, TypeOK
<1>7. CASE KnownAgent(r)
  <2>1. /\ result[r].tag = "found" /\ Granted(r, result[r].entry)
        /\ result[r].entry \in Entries \cup {NoEntry}
        /\ entry' = [entry EXCEPT ![r] = result[r].entry]
    BY <1>1, <1>7 DEF KnownAgent, Asking, TypeOK
  <2>2. /\ entry' \in [Requests -> Entries \cup {NoEntry}]
        /\ \A q \in Requests \ {r} : entry'[q] = entry[q]
        /\ entry'[r] = result[r].entry
    BY <1>1, <2>1 DEF TypeOK
  <2>3. CASE Refuse(r, 400)
    BY <1>4, <2>2, <2>3
  <2>4. CASE /\ LimitOf(r) \in 1 .. MaxLimit
             /\ Goto(r, "embed") /\ UNCHANGED <<response, audit>>
    <3>1. /\ stage' \in [Requests -> Stages] /\ stage'[r] = "embed"
          /\ audit' \in [Requests -> Seq(Events)]
          /\ response' \in [Requests -> [status : Statuses, groups : SUBSET Groups]]
          /\ \A q \in Requests \ {r} :
               stage'[q] = stage[q] /\ response'[q] = response[q] /\ audit'[q] = audit[q]
      BY <1>1, <2>4 DEF TypeOK, Goto, Stages
    <3>2. TypeOK' /\ (\A q \in Requests \ {r} : Same(q)) /\ result'[r].tag = "none"
      <4>1. Answering(r)
        BY <2>2, <3>1 DEF Answering
      <4> QED BY <1>1, <4>1, ReturnedElsewhere
    <3>3. (Verified(r)' <=> Verified(r)) /\ LimitOf(r)' = LimitOf(r)
      BY <1>2, SameCall
    <3>4. Granted(r, entry[r])'
      <4>1. Extended /\ call'[r] = call[r] /\ floor'[r] = floor[r]
        BY <1>1, <1>2, Unwritten
      <4>2. \A e \in Entries \cup {NoEntry} : Granted(r, e) => Granted(r, e)'
        BY <1>1, <4>1, SameGrounds
      <4> QED BY <2>1, <2>2, <4>2 DEF Granted
    <3>5. Resolved(r)'
      BY <1>1, <1>2, <2>4, <3>3, <3>4 DEF Resolved, Untouched
    <3>6. RequestInv(r)' /\ reg <= reg'
      BY <1>1, <1>2, <3>1, <3>2, <3>5 DEF RequestInv, TypeOK, Latest
    <3> QED BY <1>2, <3>2, <3>6, OneMoves
  <2> QED BY <1>7, <2>3, <2>4 DEF KnownAgent
<1> QED BY <1>5, <1>6, <1>7 DEF EndLookup

(* Past the lookup the entry is one of a plan, and so are its groups. *)
LEMMA Entitled ==
  ASSUME TypeOK, NEW r \in Requests, Resolved(r)
  PROVE  /\ entry[r] \in Entries /\ GroupsApplied(r) \in SUBSET Groups
         /\ Caller(r) \in CNs /\ audit[r] = <<>>
<1>1. PICK v \in 1 .. Latest :
        /\ Caller(r) \in DOMAIN hist[v].plan /\ entry[r] = hist[v].plan[Caller(r)]
  BY DEF Resolved, Granted, Deciding
<1>2. hist[v] \in Snapshots
  BY <1>1 DEF TypeOK, Latest
<1>3. hist[v].plan \in Plans \cup {NoPlan}
  BY <1>2 DEF Snapshots
<1>4. entry[r] \in Entries
  BY <1>1, <1>3, PlanEntries
<1>5. Caller(r) \in CNs
  BY Identified DEF Resolved
<1> QED BY <1>4, <1>5, ServerAssumption DEF GroupsApplied, Resolved, Untouched

LEMMA InvHandleFailure ==
  ASSUME IInv, NEW r \in Requests, stage[r] \in {"embed", "search"},
         NEW outcome, HandleFailure(r, outcome),
         UNCHANGED <<hist, planVars, logging, call, entry, hits, floor>>
  PROVE  IInv'
<1>1. /\ TypeOK /\ Resolved(r) /\ Verified(r) /\ call[r] \in Calls /\ Untouched(r)
      /\ stage[r] # "plan"
  BY DEF IInv, RequestInv, Resolved
<1>2. GroupsApplied(r) \in SUBSET Groups /\ Caller(r) \in CNs
  BY <1>1, Entitled
<1>3. ASSUME NEW status \in {502, 504}, NEW why \in {"upstream_unavailable", "upstream_timeout"},
             status = 504 <=> why = "upstream_timeout",
             FailUpstream(r, status, why)
      PROVE  IInv'
  <2> DEFINE e == Event("query_failed", why, Caller(r), GroupsApplied(r), 0)
  <2>1. /\ Respond(r, status, {}) /\ Emit(r, "INFO", e)
        /\ response'[r].status = status
    BY <1>1, <1>3 DEF FailUpstream, Respond, TypeOK
  <2>2. e \in Events
    BY <1>2 DEF Event, Events
  <2>3. Caller(r)' = Caller(r)
    BY SameCall
  <2>4. e \in Trail(r)'
    <3>1. CASE status = 502
      BY <1>2, <1>3, <2>1, <2>3, <3>1 DEF Trail, Event
    <3>2. CASE status = 504
      BY <1>2, <1>3, <2>1, <2>3, <3>2 DEF Trail, Event
    <3> QED BY <3>1, <3>2
  <2> HIDE DEF e
  <2>5. status \in {401, 502, 504} /\ status # 401
    OBVIOUS
  <2> QED BY <1>1, <2>1, <2>2, <2>4, <2>5, RefusedLoudly
<1>4. CASE Refuse(r, 500)
  BY <1>1, <1>4, RefusedSilently
<1> QED BY <1>3, <1>4 DEF HandleFailure

LEMMA InvEmbed ==
  ASSUME IInv, NEW r \in Requests, Embed(r)
  PROVE  IInv'
<1>1. /\ TypeOK /\ RequestInv(r) /\ stage[r] = "embed" /\ Resolved(r)
      /\ UNCHANGED <<hist, planVars, logging, call, entry, hits, floor>>
  BY DEF IInv, RequestInv, Embed
<1>2. CASE Goto(r, "search") /\ UNCHANGED <<response, audit>>
  <2>1. TypeOK'
    BY <1>1, <1>2 DEF TypeOK, Goto, Stages, planVars, Latest
  <2>2. \A q \in Requests \ {r} : Same(q)
    BY <1>1, <1>2 DEF TypeOK, Goto, planVars, Same
  <2>3. (Verified(r)' <=> Verified(r)) /\ LimitOf(r)' = LimitOf(r) /\ Caller(r)' = Caller(r)
    BY <1>1, SameCall
  <2>4. Resolved(r)'
    BY <1>1, <1>2, <2>3 DEF Resolved, Untouched, Granted, Deciding, Latest
  <2>5. RequestInv(r)'
    BY <1>1, <1>2, <2>4 DEF TypeOK, RequestInv, Goto, planVars
  <2> QED BY <1>1, <2>1, <2>2, <2>5, OneMoves DEF planVars, TypeOK, Latest
<1>3. ASSUME NEW outcome, HandleFailure(r, outcome) PROVE IInv'
  BY <1>1, <1>3, InvHandleFailure
<1> QED BY <1>2, <1>3 DEF Embed

(* The points of an answer pass the filter one by one, and the conversion
   after it, which only a point of a single group passes.                  *)
LEMMA InvSucceed ==
  ASSUME IInv, NEW r \in Requests, stage[r] = "search",
         NEW H \in Matching(GroupsApplied(r), LimitOf(r)),
         \A k \in H : Convertible(PayloadOf[k]),
         Succeed(r, H), UNCHANGED <<hist, planVars, logging, call, entry, floor>>
  PROVE  IInv'
<1> DEFINE level == IF logging.log_query_text THEN "DEBUG" ELSE "INFO"
           e == Event("query", "none", Caller(r), GroupsApplied(r), Cardinality(H))
<1>1. /\ TypeOK /\ RequestInv(r) /\ Resolved(r) /\ Verified(r) /\ call[r] \in Calls
      /\ LimitOf(r) \in 1 .. MaxLimit /\ Granted(r, entry[r])
  BY DEF IInv, RequestInv, Resolved
<1>2. /\ entry[r] \in Entries /\ GroupsApplied(r) \in SUBSET Groups
      /\ Caller(r) \in CNs /\ audit[r] = <<>>
  BY <1>1, Entitled
<1>3. /\ H \in SUBSET Chunks /\ Cardinality(H) <= LimitOf(r)
      /\ \A k \in H : Matches(PayloadOf[k], GroupsApplied(r))
  BY DEF Matching
<1>4. Cardinality(H) \in Nat
  BY <1>3, ServerAssumption, FS_Subset, FS_CardinalityType
<1>5. e \in Events
  BY <1>2, <1>4 DEF Event, Events
<1>6. /\ hits' = [hits EXCEPT ![r] = H] /\ Emit(r, level, e)
      /\ Respond(r, 200, GroupsApplied(r))
  BY DEF Succeed
<1>7. level \in {"DEBUG", "INFO"} /\ (level = "DEBUG" => logging.log_query_text)
  OBVIOUS
<1>8. response'[r] = [status |-> 200, groups |-> GroupsApplied(r)] /\ hits'[r] = H
      /\ stage'[r] = "send"
  BY <1>1, <1>6 DEF TypeOK, Respond, Goto
<1>9. /\ (Verified(r)' <=> Verified(r)) /\ Caller(r)' = Caller(r)
      /\ LimitOf(r)' = LimitOf(r)
  BY SameCall
<1>10. e \in Trail(r)'
  BY <1>8, <1>9 DEF Trail, Event
<1> HIDE DEF e, level
<1>11. /\ audit' \in [Requests -> Seq(Events)]
       /\ \A q \in Requests \ {r} : audit'[q] = audit[q]
  BY <1>1, <1>5, <1>6, <1>7, Logged
<1>12. Recorded(r)'
  BY <1>1, <1>2, <1>5, <1>6, <1>7, <1>10, Noted
<1>13. TypeOK'
  <2>1. /\ stage' \in [Requests -> Stages] /\ hits' \in [Requests -> SUBSET Chunks]
        /\ response' \in [Requests -> [status : Statuses, groups : SUBSET Groups]]
    BY <1>1, <1>2, <1>3, <1>6 DEF TypeOK, Respond, Goto, Stages, Statuses
  <2> QED BY <1>1, <1>11, <2>1 DEF TypeOK, planVars, Latest
<1>14. \A q \in Requests \ {r} : Same(q)
  BY <1>1, <1>6, <1>11 DEF TypeOK, Respond, Goto, planVars, Same
<1>15. SoundAnswer(r)'
  <2>1. Granted(r, entry[r])'
    BY <1>1, <1>9 DEF Granted, Deciding, Latest
  <2>2. /\ response'[r].groups = GroupsOf[entry[r]] /\ entry' = entry
        /\ LimitOf(r) \in 1 .. MaxLimit /\ Cardinality(H) <= LimitOf(r)
        /\ \A k \in H : Matches(PayloadOf[k], GroupsOf[entry[r]])
    BY <1>1, <1>3, <1>4, <1>8, ServerAssumption DEF GroupsApplied
  <2>3. \E x \in Entries :
          /\ Granted(r, x)' /\ response'[r].groups = GroupsOf[x]
          /\ \A k \in H : Convertible(PayloadOf[k]) /\ Matches(PayloadOf[k], GroupsOf[x])
    BY <1>2, <2>1, <2>2 DEF Granted
  <2>4. LimitOf(r)' \in 1 .. MaxLimit /\ Cardinality(hits'[r]) <= LimitOf(r)'
    BY <1>8, <1>9, <2>2
  <2> QED BY <1>1, <1>8, <1>9, <2>3, <2>4 DEF SoundAnswer
<1>16. Decided(r)'
  BY <1>1, <1>8, <1>12, <1>15 DEF Decided, Answered
<1>17. RequestInv(r)'
  BY <1>1, <1>8, <1>16 DEF RequestInv, planVars
<1> QED BY <1>1, <1>13, <1>14, <1>17, OneMoves DEF planVars, TypeOK, Latest

LEMMA InvSearch ==
  ASSUME IInv, NEW r \in Requests, Search(r)
  PROVE  IInv'
<1>1. ASSUME NEW outcome, HandleFailure(r, outcome), UNCHANGED hits PROVE IInv'
  BY <1>1, InvHandleFailure DEF Search
<1>2. ASSUME NEW H \in Matching(GroupsApplied(r), LimitOf(r)),
             PointsOutcome({PayloadOf[k] : k \in H}) = "ok", Succeed(r, H)
      PROVE  IInv'
  <2>1. \A k \in H : Convertible(PayloadOf[k])
    BY <1>2 DEF PointsOutcome
  <2> QED BY <1>2, <2>1, InvSucceed DEF Search
<1> QED BY <1>1, <1>2 DEF Search

LEMMA InvSend ==
  ASSUME IInv, NEW r \in Requests, Send(r)
  PROVE  IInv'
<1>1. TypeOK /\ RequestInv(r) /\ stage[r] = "send"
  BY DEF IInv, Send
<1>2. TypeOK'
  <2>1. response' \in [Requests -> [status : Statuses, groups : SUBSET Groups]]
    BY <1>1 DEF TypeOK, Send, NoResponse, Statuses
  <2>2. /\ stage' \in [Requests -> Stages] /\ call' \in [Requests -> Calls \cup {NoCall}]
        /\ entry' \in [Requests -> Entries \cup {NoEntry}]
        /\ hits' \in [Requests -> SUBSET Chunks]
        /\ audit' \in [Requests -> Seq(Events)] /\ floor' \in [Requests -> Nat]
    BY <1>1 DEF TypeOK, Send, Goto, Stages
  <2> QED BY <1>1, <2>1, <2>2 DEF TypeOK, Send, planVars, Latest
<1>3. \A q \in Requests \ {r} : Same(q)
  BY <1>1 DEF TypeOK, Send, Goto, planVars, Same
<1>4. RequestInv(r)'
  BY <1>1, <1>2 DEF TypeOK, RequestInv, Send, Goto, planVars, Untouched, Latest
<1> QED BY <1>1, <1>2, <1>3, <1>4, OneMoves DEF Send, planVars, TypeOK, Latest

(* A write takes nothing away from what a request was told. *)
LEMMA InvChangePlan ==
  ASSUME IInv, ChangePlan
  PROVE  IInv'
<1>1. /\ TypeOK /\ UNCHANGED <<logging, requestVars>>
      /\ UNCHANGED <<reg, open, cn, since, result>>
      /\ DeployPlan \/ BreakPlan
  BY DEF IInv, ChangePlan, Plan!Change, Plan!DeployPlan, DeployPlan, Plan!BreakPlan,
         BreakPlan, Plan!Write, Write, Plan!Stamps, Stamps, Plan!Latest, Latest,
         Plan!NoPlan, NoPlan
<1>2. /\ hist' \in Seq(Snapshots) /\ Latest' = Latest + 1 /\ Latest \in Nat
      /\ \A v \in 1 .. Latest : hist'[v] = hist[v]
  BY <1>1, Written DEF TypeOK, Latest
<1>3. Extended
  BY <1>2 DEF Extended
<1>4. TypeOK'
  BY <1>1, <1>2 DEF TypeOK, requestVars
<1>5. ASSUME NEW q \in Requests PROVE RequestInv(q)'
  BY <1>1, <1>3, Kept DEF Same, requestVars, TypeOK
<1> QED BY <1>4, <1>5 DEF IInv

LEMMA InvCrash ==
  ASSUME IInv, Crash
  PROVE  IInv'
<1> USE DEF Crash, Plan!Crash, Plan!Reply, Each, NoResponse
<1>1. TypeOK
  BY DEF IInv
<1>2. /\ result' \in [Requests -> [tag : Tags, entry : Entries \cup {NoEntry}, from : Nat]]
      /\ response' \in [Requests -> [status : Statuses, groups : SUBSET Groups]]
  BY DEF Tags, Statuses
<1>3. TypeOK'
  BY <1>1, <1>2 DEF TypeOK, Stages, Latest
<1>4. ASSUME NEW q \in Requests PROVE RequestInv(q)'
  BY <1>3 DEF TypeOK, RequestInv, Untouched
<1> QED BY <1>3, <1>4 DEF IInv

LEMMA InvStutter ==
  ASSUME IInv, UNCHANGED vars
  PROVE  IInv'
<1>1. TypeOK /\ UNCHANGED <<hist, planVars, logging, requestVars>>
  BY DEF IInv, vars
<1>2. TypeOK'
  BY <1>1 DEF TypeOK, planVars, requestVars, Latest
<1>3. ASSUME NEW q \in Requests PROVE RequestInv(q)'
  BY <1>1, Unwritten, Kept DEF Same, planVars, requestVars, TypeOK, Latest
<1> QED BY <1>2, <1>3 DEF IInv

LEMMA InvStep == IInv /\ [Next]_vars => IInv'
<1> SUFFICES ASSUME IInv, [Next]_vars PROVE IInv'
  OBVIOUS
<1>1. ASSUME NEW r \in Requests, Arrive(r) PROVE IInv'
  BY <1>1, InvArrive
<1>2. ASSUME NEW r \in Requests, ReadBody(r) \/ RejectCert(r) PROVE IInv'
  BY <1>2, InvReadBody, InvRejectCert
<1>3. ASSUME NEW r \in Requests, RaiseCert(r) \/ RejectBody(r) PROVE IInv'
  BY <1>3, InvTurnAway
<1>4. ASSUME NEW r \in Requests, StartLookup(r) PROVE IInv'
  BY <1>4, InvStartLookup
<1>5. ASSUME NEW r \in Requests, LookupDecided(r) PROVE IInv'
  BY <1>5, InvAnswer, InvFail DEF LookupDecided
<1>6. ASSUME NEW r \in Requests, EndLookup(r) PROVE IInv'
  BY <1>6, InvEndLookup
<1>7. ASSUME NEW r \in Requests, Embed(r) \/ Search(r) \/ Send(r) PROVE IInv'
  BY <1>7, InvEmbed, InvSearch, InvSend
<1>8. CASE ChangePlan
  BY <1>8, InvChangePlan
<1>9. CASE Crash
  BY <1>9, InvCrash
<1>10. CASE UNCHANGED vars
  BY <1>10, InvStutter
<1> QED BY <1>1, <1>2, <1>3, <1>4, <1>5, <1>6, <1>7, <1>8, <1>9, <1>10 DEF Next, Handle

THEOREM Invariance == Spec => []IInv
BY InvInit, InvStep, PTL DEF Spec

-----------------------------------------------------------------------------
(* What the invariant says to callers and to the reader of the log.        *)

(* Every field of the server and of its requests keeps to its type. *)
THEOREM TypeCorrect == Spec => []TypeOK
<1>1. IInv => TypeOK
  BY DEF IInv
<1> QED BY <1>1, Invariance, PTL

(* A 200 holds points of single groups that one deciding plan gives to the
   CN of the certificate the request came with, within the limit, and no
   other answer holds anything: the handler's entry is looked up once and
   survives the awaits, so the filter, groups_applied and the identity
   belong together whatever else runs in between.                          *)
THEOREM Confinement == Spec => []Confined
<1>1. ASSUME NEW r \in Requests, TypeOK, RequestInv(r)
      PROVE  response[r].status = 0 => hits[r] = {}
  BY <1>1 DEF TypeOK, Stages, RequestInv, Arrived, Asking, Resolved, Untouched,
              Decided, Answered
<1>2. ASSUME NEW r \in Requests, TypeOK, RequestInv(r), response[r].status # 0
      PROVE  Decided(r)
  BY <1>2 DEF TypeOK, Stages, RequestInv, Arrived, Asking, Resolved, Untouched,
              NoResponse
<1>3. ASSUME NEW r \in Requests, TypeOK, RequestInv(r), response[r].status = 200
      PROVE  \E c \in CNs, v \in Deciding(r) :
               LET plan == hist[v].plan IN
               /\ Identity(call[r].cert, c) /\ c \in DOMAIN plan
               /\ response[r].groups = GroupsOf[plan[c]]
               /\ \A k \in hits[r] :
                    /\ PayloadOf[k].single /\ PayloadOf[k].text
                    /\ PayloadOf[k].groups \subseteq response[r].groups
               /\ LimitOf(r) \in 1 .. MaxLimit /\ Cardinality(hits[r]) <= LimitOf(r)
  <2>1. SoundAnswer(r) /\ call[r] \in Calls
    BY <1>2, <1>3 DEF Decided
  <2>2. PICK e \in Entries :
          /\ Verified(r) /\ Granted(r, e) /\ response[r].groups = GroupsOf[e]
          /\ LimitOf(r) \in 1 .. MaxLimit /\ Cardinality(hits[r]) <= LimitOf(r)
          /\ \A k \in hits[r] :
               Convertible(PayloadOf[k]) /\ Matches(PayloadOf[k], GroupsOf[e])
    BY <1>3, <2>1 DEF SoundAnswer
  <2>3. PICK v \in Deciding(r) :
          Caller(r) \in DOMAIN hist[v].plan /\ e = hist[v].plan[Caller(r)]
    BY <2>2 DEF Granted
  <2>4. Caller(r) \in CNs /\ Identity(call[r].cert, Caller(r))
    BY <2>1, <2>2, Identified
  <2>5. ASSUME NEW k \in hits[r]
        PROVE  /\ PayloadOf[k].single /\ PayloadOf[k].text
               /\ PayloadOf[k].groups \subseteq response[r].groups
    <3>1. PayloadOf[k] \in Payloads(Groups)
      BY <1>3, ServerAssumption DEF TypeOK
    <3>2. /\ PayloadOf[k].single /\ PayloadOf[k].text
          /\ PayloadOf[k].groups \cap response[r].groups # {}
      BY <2>2 DEF Convertible, Matches
    <3>3. PICK g \in Groups : PayloadOf[k].groups = {g}
      BY <3>1, <3>2 DEF Payloads
    <3> QED BY <3>2, <3>3
  <2> QED BY <2>2, <2>3, <2>4, <2>5
<1>4. ASSUME NEW r \in Requests, TypeOK, RequestInv(r), response[r].status # 200
      PROVE  hits[r] = {}
  BY <1>1, <1>2, <1>4 DEF Decided, SoundAnswer
<1>5. IInv => Confined
  BY <1>3, <1>4 DEF IInv, Confined
<1> QED BY <1>5, Invariance, PTL

(* Nobody is turned away without a cause, and nobody without an identity
   makes the proxy read its plan or call an upstream.                      *)
THEOREM RefusalsHaveCause == Spec => []RefusedForCause
<1>1. ASSUME NEW r \in Requests, TypeOK, RequestInv(r), response[r].status # 0
      PROVE  Decided(r)
  BY <1>1 DEF TypeOK, Stages, RequestInv, Arrived, Asking, Resolved, Untouched,
              NoResponse
<1>2. ASSUME NEW r \in Requests, call[r] \in Calls, Verified(r) PROVE Known(r)
  BY <1>2, Identified DEF Known
<1>3. ASSUME NEW r \in Requests, TypeOK, RequestInv(r)
      PROVE  /\ response[r].status = 401 => ~Known(r)
             /\ response[r].status = 403 => Known(r) /\ Denied(r)
             /\ response[r].status \in {502, 504} => Known(r)
             /\ stage[r] \in {"plan", "embed", "search"} => Known(r)
  <2>1. response[r].status = 401 => ~Known(r)
    BY <1>1, <1>3, Unidentified DEF Decided, SoundAnswer
  <2>2. /\ response[r].status = 403 => Known(r) /\ Denied(r)
        /\ response[r].status \in {502, 504} => Known(r)
    BY <1>1, <1>2, <1>3 DEF Decided, SoundAnswer
  <2>3. stage[r] \in {"plan", "embed", "search"} => Known(r)
    BY <1>2, <1>3 DEF RequestInv, Asking, Arrived, Resolved
  <2> QED BY <2>1, <2>2, <2>3
<1>4. IInv => RefusedForCause
  BY <1>3 DEF IInv, RefusedForCause, Known, Denied
<1> QED BY <1>4, Invariance, PTL

(* Where no option hides it, an answer has left exactly its own line in the
   log before it leaves, and a request without one has left nothing.       *)
THEOREM AuditTrailKept == Spec => []AuditTrail
<1>1. ASSUME NEW r \in Requests, TypeOK, RequestInv(r), Answered(r)
      PROVE  Decided(r)
  BY <1>1 DEF TypeOK, Stages, RequestInv, Arrived, Asking, Resolved, Untouched,
              NoResponse, Answered
<1>2. ASSUME NEW r \in Requests, TypeOK, RequestInv(r), ~Answered(r)
      PROVE  audit[r] = <<>>
  BY <1>2 DEF TypeOK, Stages, RequestInv, Arrived, Asking, Resolved, Untouched, Decided
<1>3. IInv => AuditTrail
  BY <1>1, <1>2 DEF IInv, AuditTrail, Decided, Recorded
<1> QED BY <1>3, Invariance, PTL

-----------------------------------------------------------------------------
(* The server under the register: requests call the plan cache only as
   PlanService says it may be called, each for the one CN its certificate
   names, so that what PlanCache is proved to implement is what serves them
   here.                                                                   *)
THEOREM UsesThePlanLawfully == Spec => Plan!Spec
<1>1. Init => Plan!Init
  BY DEF Init
<1>2. IInv /\ [Next]_vars => [Plan!Next]_(Plan!svars)
  <2> SUFFICES ASSUME IInv, [Next]_vars PROVE [Plan!Next]_(Plan!svars)
    OBVIOUS
  <2>1. ASSUME NEW r \in Requests, StartLookup(r) PROVE Plan!Next
    <3>1. stage[r] = "auth" /\ Verified(r) /\ Plan!Invoke(r, Caller(r))
      BY <2>1 DEF StartLookup, Verified
    <3>2. call[r] \in Calls
      BY <3>1 DEF IInv, RequestInv, Arrived
    <3>3. Caller(r) \in CNs
      BY <3>1, <3>2, Identified
    <3> QED BY <3>1, <3>3 DEF Plan!Next
  <2>2. ASSUME NEW r \in Requests, LookupDecided(r) \/ EndLookup(r) PROVE Plan!Next
    BY <2>2 DEF LookupDecided, EndLookup, Plan!Next
  <2>3. CASE ChangePlan
    BY <2>3 DEF ChangePlan, Plan!Next
  <2>4. CASE Crash
    BY <2>4 DEF Crash, Plan!Next
  <2>5. ASSUME NEW r \in Requests,
               \/ Arrive(r) \/ ReadBody(r) \/ RejectCert(r) \/ RaiseCert(r)
               \/ RejectBody(r) \/ Embed(r) \/ Search(r) \/ Send(r)
        PROVE  UNCHANGED Plan!svars
    BY <2>5 DEF Arrive, ReadBody, RejectCert, RaiseCert, RejectBody, Embed, Search,
                Send, planVars, Plan!svars
  <2>6. UNCHANGED vars => UNCHANGED Plan!svars
    BY DEF vars, planVars, Plan!svars
  <2> QED BY <2>1, <2>2, <2>3, <2>4, <2>5, <2>6 DEF Next, Handle
<1> QED BY <1>1, <1>2, Invariance, PTL DEF Spec, Plan!Spec

=============================================================================
