------------------------------- MODULE Server -------------------------------
(***************************************************************************)
(* POST /v1/query of src/dprox/server.py: concurrent requests through      *)
(* body, certificate, plan, embedding and search to an answer and its      *)
(* audit event, while the plan file changes and the process may die.       *)
(* Mtls judges the certificates and Upstreams the upstreams' replies.      *)
(*                                                                         *)
(* One event loop runs every coroutine, so a request moves from one await  *)
(* to the next in one step, and PlanCache.lookup, which does not await,    *)
(* stops the others until it returns.  The cache is here as its contract,  *)
(* PlanService, with the requests for its callers.                         *)
(***************************************************************************)
EXTENDS PlanFile, Upstreams, FiniteSets

CONSTANTS
  Requests,      \* requests the server may have at a time
  NotText, NoCert, \* see Mtls
  Groups,        \* classification groups
  GroupsOf,      \* AgentEntry.groups
  Chunks,        \* points of the Qdrant collection
  PayloadOf,     \* their payloads
  Calls,         \* what callers send: certificate, body and limit
  NoLimit,       \* "limit" absent or null
  DefaultLimit, MaxLimit,
  LogConfigs,    \* LoggingConfig values a deployment may choose
  NoCall, NoCN, NoEntry

(* The body may be no JSON, JSON that QueryRequest rejects (an extra field,
   no or an empty query, a value of the wrong type), or a QueryRequest.    *)
Bodies == {"not_json", "rejected", "accepted"}

Auth == INSTANCE Mtls
AllCalls == [cert : Auth!Certificates \cup {NoCert}, body : Bodies,
             limit : Int \cup {NoLimit}]

Levels == <<"DEBUG", "INFO", "WARNING", "ERROR">>

ASSUME ServerAssumption ==
  /\ GroupsOf \in [Entries -> SUBSET Groups]
  /\ IsFiniteSet(Chunks) /\ PayloadOf \in [Chunks -> Payloads(Groups)]
  /\ Calls \subseteq AllCalls /\ NoCall \notin Calls
  /\ MaxLimit \in Nat /\ DefaultLimit \in 1 .. MaxLimit
  /\ LogConfigs \subseteq [level : 1 .. Len(Levels), log_query_text : BOOLEAN]
  /\ NotText \notin CNs /\ NoCert \notin Auth!Certificates
  /\ NoCN \notin CNs /\ NoEntry \notin Entries

VARIABLES
  reg, open, cn, since, result,   \* the plan cache, see PlanService
  logging,   \* config.logging; never changes
  stage,     \* what each request waits for
  call,      \* what its caller sent: certificate, body and limit
  entry,     \* "entry" of the handler
  hits,      \* what the search returned to it
  response,  \* status and groups_applied of its response, status 0 before
  audit,     \* the audit lines it has left in the log so far
  floor      \* history: newest plan version answered from when it arrived

planVars == <<reg, open, cn, since, result>>
requestVars == <<stage, call, entry, hits, response, audit, floor>>
vars == <<hist, planVars, logging, requestVars>>

Plan == INSTANCE PlanService WITH Threads <- Requests

Stages == {"free", "body", "auth", "plan", "embed", "search", "send"}

NoResponse == [status |-> 0, groups |-> {}]

Events == [event : {"auth_rejected", "query_failed", "query"},
           why : {Auth!Reason(code) : code \in Auth!AuthCodes}
                   \cup {"unknown_cn", "upstream_unavailable",
                         "upstream_timeout", "none"},
           agent : CNs \cup {NoCN}, groups : SUBSET Groups, results : Nat]

Statuses == {0, 200, 400, 401, 403, 500, 502, 504}
Tags == {"none", "found", "unknown", "plan_error", "uncaught"}

TypeOK ==
  /\ hist \in Seq(Snapshots) /\ Latest >= 1
  /\ reg \in 0 .. Latest /\ open \in SUBSET Requests
  /\ cn \in [Requests -> CNs \cup {NoCN}]
  /\ since \in [Requests -> Nat]
  /\ result \in [Requests -> [tag : Tags, entry : Entries \cup {NoEntry}, from : Nat]]
  /\ logging \in LogConfigs
  /\ stage \in [Requests -> Stages]
  /\ call \in [Requests -> Calls \cup {NoCall}]
  /\ entry \in [Requests -> Entries \cup {NoEntry}]
  /\ hits \in [Requests -> SUBSET Chunks]
  /\ response \in [Requests -> [status : Statuses, groups : SUBSET Groups]]
  /\ audit \in [Requests -> Seq(Events)]
  /\ floor \in [Requests -> Nat]

-----------------------------------------------------------------------------
Each(x) == [r \in Requests |-> x]

Init ==
  /\ Plan!Init
  /\ logging \in LogConfigs
  /\ stage = Each("free") /\ call = Each(NoCall) /\ entry = Each(NoEntry)
  /\ hits = Each({}) /\ response = Each(NoResponse) /\ audit = Each(<<>>)
  /\ floor = Each(0)

Goto(r, s) == stage' = [stage EXCEPT ![r] = s]

(* The event loop is free: no coroutine is inside a lookup. *)
LoopFree == open = {}

(* The peer certificate of the connection reaches each request through
   DproxHttpProtocol.                                                      *)
Arrive(r) ==
  /\ LoopFree /\ stage[r] = "free"
  /\ Goto(r, "body")
  /\ \E c \in Calls : call' = [call EXCEPT ![r] = c]
  /\ floor' = [floor EXCEPT ![r] = reg]
  /\ UNCHANGED <<hist, planVars, logging, entry, hits, response, audit>>

(* audit.info and audit.debug: the logger drops what is below its level.   *)
Rank(level) == CHOOSE i \in 1 .. Len(Levels) : Levels[i] = level
Emit(r, level, e) ==
  audit' = IF Rank(level) >= logging.level
           THEN [audit EXCEPT ![r] = Append(@, e)] ELSE audit

Event(name, why, agent, groups, n) ==
  [event |-> name, why |-> why, agent |-> agent, groups |-> groups, results |-> n]

Respond(r, status, groups) ==
  /\ response' = [response EXCEPT ![r] = [status |-> status, groups |-> groups]]
  /\ Goto(r, "send")

Refuse(r, status) == Respond(r, status, {}) /\ UNCHANGED audit

(* The framework has the body before anything else runs, and a body that is
   no JSON is answered there, before the certificate is looked at.         *)
ReadBody(r) ==
  /\ LoopFree /\ stage[r] = "body"
  /\ IF call[r].body = "not_json" THEN Refuse(r, 400)
     ELSE Goto(r, "auth") /\ UNCHANGED <<response, audit>>
  /\ UNCHANGED <<hist, planVars, logging, call, entry, hits, floor>>

Verdict(r) == Auth!Verdict(call[r].cert)

(* require_mtls raises AuthFailure, whose handler audits and answers. *)
RejectCert(r) ==
  /\ LoopFree /\ stage[r] = "auth" /\ Verdict(r) \in Auth!AuthCodes
  /\ Respond(r, 401, {})
  /\ Emit(r, "INFO", Event("auth_rejected", Auth!Reason(Verdict(r)), NoCN, {}, 0))
  /\ UNCHANGED <<hist, planVars, logging, call, entry, hits, floor>>

(* It raises what is no AuthFailure. *)
RaiseCert(r) ==
  /\ LoopFree /\ stage[r] = "auth" /\ Verdict(r) = "raised"
  /\ Refuse(r, 500)
  /\ UNCHANGED <<hist, planVars, logging, call, entry, hits, floor>>

RejectBody(r) ==
  /\ LoopFree /\ stage[r] = "auth" /\ Verdict(r) = "verified"
  /\ call[r].body = "rejected"
  /\ Refuse(r, 400)
  /\ UNCHANGED <<hist, planVars, logging, call, entry, hits, floor>>

(* request.state.cn, also the name of the entry found under it. *)
Caller(r) == Auth!NameOf(call[r].cert)

(* The handler starts: plan_cache.lookup(cn), whose two ways to be decided
   are the cache's own steps.                                              *)
StartLookup(r) ==
  /\ LoopFree /\ stage[r] = "auth" /\ Verdict(r) = "verified"
  /\ call[r].body = "accepted"
  /\ Plan!Invoke(r, Caller(r))
  /\ Goto(r, "plan")
  /\ UNCHANGED <<logging, call, entry, hits, response, audit, floor>>

LookupDecided(r) ==
  /\ Plan!Answer(r) \/ Plan!Fail(r)
  /\ UNCHANGED <<logging, requestVars>>

(* Definitions marked "Slip" are plausible bugs in a definition after them;
   no action uses them, and PROJECT.json names the property each breaks.   *)

(* Slip: 503 for a broken plan file. *)
LookupFailed503(r) ==
  /\ result[r].tag = "plan_error"
  /\ Respond(r, 503, {})
  /\ Emit(r, "INFO", Event("query_failed", "upstream_unavailable", cn[r], {}, 0))
  /\ UNCHANGED entry

(* Slip: an exception of lookup is swallowed by a task nobody awaits. *)
LookupRaisedSilently(r) == result[r].tag = "uncaught" /\ FALSE

(* Slip: a broken plan file is a plan without the CN. *)
UnknownOrBroken(r) ==
  /\ result[r].tag \in {"unknown", "plan_error"}
  /\ Respond(r, 403, {})
  /\ Emit(r, "INFO", Event("auth_rejected", "unknown_cn", cn[r], {}, 0))
  /\ UNCHANGED entry

(* What the handler does with each outcome of the lookup. *)
LookupFailed(r) ==
  /\ result[r].tag = "plan_error"
  /\ Respond(r, 502, {})
  /\ Emit(r, "INFO", Event("query_failed", "upstream_unavailable", cn[r], {}, 0))
  /\ UNCHANGED entry

LookupRaised(r) ==
  /\ result[r].tag = "uncaught"
  /\ Refuse(r, 500)
  /\ UNCHANGED entry

UnknownAgent(r) ==
  /\ result[r].tag = "unknown"
  /\ Respond(r, 403, {})
  /\ Emit(r, "INFO", Event("auth_rejected", "unknown_cn", cn[r], {}, 0))
  /\ UNCHANGED entry

LimitOf(r) == IF call[r].limit = NoLimit THEN DefaultLimit ELSE call[r].limit

(* Slip: limits below the range are let through. *)
KnownAgentAnyLow(r) ==
  /\ result[r].tag = "found"
  /\ entry' = [entry EXCEPT ![r] = result[r].entry]
  /\ IF LimitOf(r) <= MaxLimit
     THEN Goto(r, "embed") /\ UNCHANGED <<response, audit>>
     ELSE Refuse(r, 400)

KnownAgent(r) ==
  /\ result[r].tag = "found"
  /\ entry' = [entry EXCEPT ![r] = result[r].entry]
  /\ IF LimitOf(r) \in 1 .. MaxLimit
     THEN Goto(r, "embed") /\ UNCHANGED <<response, audit>>
     ELSE Refuse(r, 400)

EndLookup(r) ==
  /\ Plan!Finish(r)
  /\ LookupFailed(r) \/ LookupRaised(r) \/ UnknownAgent(r) \/ KnownAgent(r)
  /\ UNCHANGED <<logging, call, hits, floor>>

(* Slip: the filter is kept on the shared client and extended by each request. *)
GroupsOfAll(r) == UNION {GroupsOf[entry[q]] : q \in {p \in Requests : entry[p] # NoEntry}}

(* groups_applied, the filter's groups, and who the audit line names: all
   taken from the entry that was looked up before the awaits.              *)
GroupsApplied(r) == GroupsOf[entry[r]]

(* Slip: an upstream failure is answered and not audited. *)
FailUpstreamQuietly(r, status, why) == Refuse(r, status)

FailUpstream(r, status, why) ==
  /\ Respond(r, status, {})
  /\ Emit(r, "INFO", Event("query_failed", why, Caller(r), GroupsApplied(r), 0))

(* The two except clauses after each upstream call; what neither catches
   ends in the framework's 500.                                            *)
HandleFailure(r, outcome) ==
  \/ outcome = "timeout" /\ FailUpstream(r, 504, "upstream_timeout")
  \/ outcome = "unavailable" /\ FailUpstream(r, 502, "upstream_unavailable")
  \/ outcome = "raised" /\ Refuse(r, 500)

(* await ollama.embed. *)
Embed(r) ==
  /\ LoopFree /\ stage[r] = "embed"
  /\ \E reply \in EmbedReplies :
       \/ EmbedOutcome(reply) = "ok" /\ Goto(r, "search") /\ UNCHANGED <<response, audit>>
       \/ HandleFailure(r, EmbedOutcome(reply))
  /\ UNCHANGED <<hist, planVars, logging, call, entry, hits, floor>>

(* What Qdrant returns for the filter and the limit. *)
Matching(groups, limit) ==
  {H \in SUBSET {k \in Chunks : Matches(PayloadOf[k], groups)} :
     Cardinality(H) <= limit}

(* The last lines of the handler: with log_query_text the event is logged
   at DEBUG, else at INFO, and then the response is returned.              *)
Succeed(r, H) ==
  /\ hits' = [hits EXCEPT ![r] = H]
  /\ Emit(r, IF logging.log_query_text THEN "DEBUG" ELSE "INFO",
          Event("query", "none", Caller(r), GroupsApplied(r), Cardinality(H)))
  /\ Respond(r, 200, GroupsApplied(r))

(* await qdrant.search. *)
Search(r) ==
  /\ LoopFree /\ stage[r] = "search"
  /\ \/ \E H \in Matching(GroupsApplied(r), LimitOf(r)) :
          LET outcome == PointsOutcome({PayloadOf[k] : k \in H}) IN
          \/ outcome = "ok" /\ Succeed(r, H)
          \/ HandleFailure(r, outcome) /\ UNCHANGED hits
     \/ \E reply \in SearchFailures :
          HandleFailure(r, FailureOutcome(reply)) /\ UNCHANGED hits
  /\ UNCHANGED <<hist, planVars, logging, call, entry, floor>>

(* The response leaves, and nothing of the request stays in the server. *)
Send(r) ==
  /\ LoopFree /\ stage[r] = "send"
  /\ Goto(r, "free")
  /\ call' = [call EXCEPT ![r] = NoCall]
  /\ entry' = [entry EXCEPT ![r] = NoEntry]
  /\ hits' = [hits EXCEPT ![r] = {}]
  /\ response' = [response EXCEPT ![r] = NoResponse]
  /\ audit' = [audit EXCEPT ![r] = <<>>]
  /\ floor' = [floor EXCEPT ![r] = 0]
  /\ UNCHANGED <<hist, planVars, logging>>

ChangePlan == Plan!Change /\ UNCHANGED <<logging, requestVars>>

(* The process dies, every request with it, and is started again. *)
Crash ==
  /\ Plan!Crash
  /\ stage' = Each("free") /\ call' = Each(NoCall) /\ entry' = Each(NoEntry)
  /\ hits' = Each({}) /\ response' = Each(NoResponse) /\ audit' = Each(<<>>)
  /\ floor' = Each(0)
  /\ UNCHANGED logging

Handle(r) ==
  \/ ReadBody(r) \/ RejectCert(r) \/ RaiseCert(r) \/ RejectBody(r)
  \/ StartLookup(r) \/ LookupDecided(r) \/ EndLookup(r)
  \/ Embed(r) \/ Search(r) \/ Send(r)

Next ==
  \/ \E r \in Requests : Arrive(r) \/ Handle(r)
  \/ ChangePlan \/ Crash

Spec == Init /\ [][Next]_vars

(* The event loop runs its ready callbacks first come first served, so a
   request that is ready again and again between other requests' lookups
   gets its turn; and each upstream call ends, by an answer, an error or
   the client's timeout.                                                   *)
LiveSpec == Spec /\ \A r \in Requests : SF_vars(Handle(r))

-----------------------------------------------------------------------------
Answered(r) == response[r].status # 0

(* The plans that may decide a request: none older than the newest plan
   some answer had already come from when the request arrived.             *)
Deciding(r) == {v \in 1 .. Latest : v >= floor[r] /\ hist[v].kind = "plan"}

(* Whom a connection is from: the CA's client certificate that names
   exactly one agent, whatever the code made of it.                        *)
Identity(cert, c) ==
  /\ cert # NoCert
  /\ cert.loads /\ cert.readable /\ cert.subject
  /\ "clientAuth" \in cert.usages
  /\ cert.names = <<c>>

(* What a 200 returns was asked for under a CN of exactly one name in a
   client certificate, each point of it carries a single group, and that
   one is among the groups that one deciding plan gives this CN; those
   groups are the ones reported; there are no more points than a limit
   asked for that is in the range; whatever the other requests do, the file becomes while the request awaits its upstreams,
   and the upstreams reply.  No other status returns anything.             *)
Confined ==
  \A r \in Requests :
    /\ response[r].status = 200 =>
         \E c \in CNs, v \in Deciding(r) :
           LET plan == hist[v].plan IN
           /\ Identity(call[r].cert, c) /\ c \in DOMAIN plan
           /\ response[r].groups = GroupsOf[plan[c]]
           /\ \A k \in hits[r] :
                /\ PayloadOf[k].single /\ PayloadOf[k].text
                /\ PayloadOf[k].groups \subseteq response[r].groups
           /\ LimitOf(r) \in 1 .. MaxLimit /\ Cardinality(hits[r]) <= LimitOf(r)
    /\ response[r].status # 200 => hits[r] = {}

(* A caller is turned away as unauthenticated only without an identity, as
   unknown only with one, by a deciding plan that does not name it, and
   meets a failing plan or upstream only with one too: nobody makes the
   proxy read its plan or call its upstreams without an identity.          *)
RefusedForCause ==
  \A r \in Requests :
    LET Known == \E c \in CNs : Identity(call[r].cert, c) IN
    /\ response[r].status = 401 => ~Known
    /\ response[r].status = 403 => Known /\
         \E v \in Deciding(r) : Caller(r) \notin DOMAIN hist[v].plan
    /\ response[r].status \in {502, 504} \/ stage[r] \in {"plan", "embed", "search"}
         => Known

(* The event that belongs to each response. *)
Trail(r) ==
  LET c == Caller(r) s == response[r].status IN
  CASE s = 200 -> [event : {"query"}, why : {"none"}, agent : {c},
                   groups : {response[r].groups}, results : {Cardinality(hits[r])}]
    [] s = 401 -> [event : {"auth_rejected"},
                   why : {IF call[r].cert = NoCert THEN "no_client_cert"
                          ELSE IF call[r].cert.loads /\ "clientAuth" \in call[r].cert.usages
                          THEN "cn_unparseable" ELSE "cert_invalid"},
                   agent : {NoCN}, groups : {{}}, results : {0}]
    [] s = 403 -> [event : {"auth_rejected"}, why : {"unknown_cn"}, agent : {c},
                   groups : {{}}, results : {0}]
    [] s = 504 -> [event : {"query_failed"}, why : {"upstream_timeout"},
                   agent : {c}, groups : SUBSET Groups, results : {0}]
    [] s = 502 -> [event : {"query_failed"}, why : {"upstream_unavailable"},
                   agent : {c}, groups : SUBSET Groups, results : {0}]
    [] OTHER   -> {}

(* The logging options under which no audit event is below the level. *)
AuditVisible ==
  \/ logging.level = Rank("DEBUG")
  \/ logging.level = Rank("INFO") /\ ~logging.log_query_text

(* A request leaves exactly the audit line of its response, before the
   response leaves, with the caller, the groups the search was filtered by
   and the number of results; 400 and 500 leave none.                      *)
AuditTrail ==
  AuditVisible => \A r \in Requests :
    LET expected == Trail(r) IN
    IF Answered(r) /\ expected # {}
    THEN Len(audit[r]) = 1 /\ audit[r][1] \in expected
    ELSE audit[r] = <<>>

(* Every request that arrives is answered, or lost with the process. *)
EventuallyDone ==
  \A r \in Requests : stage[r] = "body" ~> stage[r] = "free"

(* audit.py:5-6, "The audit log is the only durable trace of 'who asked
   what, was the RBAC filter applied, what came back'": a 200 has left its
   line in the log, whatever the logging options.                          *)
AuditDurable ==
  \A r \in Requests : response[r].status = 200 =>
    \E i \in 1 .. Len(audit[r]) : audit[r][i].event = "query"

(* tests/test_query.py:204, "malformed body from unauth caller returns 401,
   never 400".                                                             *)
AuthBeforeBody ==
  \A r \in Requests : Answered(r) /\ call[r].cert = NoCert =>
    response[r].status = 401

=============================================================================
