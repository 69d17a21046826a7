------------------------------- MODULE Health -------------------------------
(***************************************************************************)
(* GET /healthz and the lifespan of the application in src/dprox/server.py *)
(* over the plan cache: the process loads its plan, serves health probes   *)
(* and queries, is told to stop, lets what is under way finish and closes  *)
(* its upstream clients; or it dies.  Of a query there is what a shutdown  *)
(* can meet: its lookup and its uses of the clients; the rest is Server.   *)
(*                                                                         *)
(* One event loop runs it all: a caller of PlanCache is the coroutine of a *)
(* query inside lookup, and nothing else moves meanwhile.                  *)
(***************************************************************************)
EXTENDS PlanCache, Upstreams

CONSTANTS
  Probes,  \* health probes the server may have at a time, beside its queries
  RoleOf   \* AgentEntry.role

(* PlanCache.counts sums over a plan, which is a dict. *)
ASSUME HealthAssumption ==
  /\ RoleOf \in [Entries -> {"agent", "admin"}]
  /\ IsFiniteSet(CNs)
  /\ Probes \cap Threads = {}

VARIABLES
  mode,    \* the process: "starting", "serving", "draining", "closing", "stopped"
  own,     \* own_ollama and own_qdrant, as the set of the clients of its own
  closed,  \* the clients that have been closed
  raised,  \* history: a client's aclose has raised
  at,      \* what each request waits for
  using,   \* the clients with a call of its under way
  check,   \* plan_check of each probe
  ollama,  \* whether its ollama_check is all true
  status,  \* of its response, 0 before
  since0   \* history: the newest version served from when its handler began

lifeVars == <<mode, own, closed, raised>>
requestVars == <<at, using>>
probeVars == <<check, ollama, status, since0>>
healthVars == <<vars, lifeVars, requestVars, probeVars>>

(* A query is named by its call of the cache. *)
Requests == Threads \cup Probes
Places == {"none", "accepted", "lookup", "ollama", "qdrant", "send"}

Clients == {"ollama", "qdrant"}
NoCheck == [loaded |-> FALSE, agents |-> 0, admins |-> 0]

HealthTypeOK ==
  /\ mode \in {"starting", "serving", "draining", "closing", "stopped"}
  /\ own \subseteq Clients /\ closed \subseteq Clients /\ raised \in BOOLEAN
  /\ at \in [Requests -> Places] /\ using \in [Requests -> SUBSET Clients]
  /\ check \in [Probes -> [loaded : BOOLEAN, agents : 0 .. Cardinality(CNs),
                           admins : 0 .. Cardinality(CNs)]]
  /\ ollama \in [Probes -> BOOLEAN]
  /\ status \in [Probes -> {0, 200, 500, 503}]
  /\ \A p \in Probes : status[p] # 0 <=> at[p] = "send"
  /\ since0 \in [Probes -> 0 .. Latest]

-----------------------------------------------------------------------------
ForAll(x) == [p \in Probes |-> x]
ForEach(x) == [r \in Requests |-> x]

HealthInit ==
  /\ Init
  /\ at = ForEach("none") /\ using = ForEach({})
  /\ check = ForAll(NoCheck) /\ ollama = ForAll(FALSE)
  /\ status = ForAll(0) /\ since0 = ForAll(0)
  /\ mode = "starting" /\ own \in SUBSET Clients /\ closed = {} /\ raised = FALSE

LoopFree == \A t \in Threads : pc[t] = "idle"

(* Where a request waits for a client it has a call of it under way, which
   is over when it goes on.                                                *)
Move(r, place) ==
  /\ at' = [at EXCEPT ![r] = place]
  /\ using' = [using EXCEPT ![r] = (@ \ {at[r]}) \cup ({place} \cap Clients)]

(* initial_load, before anything is served. *)
LoadPlan ==
  /\ mode = "starting" /\ \E t \in Threads : InitialLoad(t)
  /\ UNCHANGED <<lifeVars, requestVars, probeVars>>

OtherFile == WriteFile /\ UNCHANGED <<lifeVars, requestVars, probeVars>>

(* serve goes on to create_app and uvicorn once initial_load is through. *)
Serve ==
  /\ mode = "starting" /\ loaded /\ LoopFree
  /\ mode' = "serving"
  /\ UNCHANGED <<vars, own, closed, raised, requestVars, probeVars>>

(* PlanCache.counts. *)
Count(plan, role) == Cardinality({c \in DOMAIN plan : RoleOf[plan[c]] = role})

(* uvicorn takes a request on. *)
Accept(r) ==
  /\ mode = "serving" /\ LoopFree /\ at[r] = "none"
  /\ Move(r, "accepted")
  /\ UNCHANGED <<vars, lifeVars, probeVars>>

(* A query that is refused before its lookup. *)
Refuse(t) ==
  /\ LoopFree /\ at[t] = "accepted"
  /\ Move(t, "none")
  /\ UNCHANGED <<vars, lifeVars, probeVars>>

Ask(t) ==
  /\ LoopFree /\ at[t] = "accepted" /\ Lookup(t)
  /\ Move(t, "lookup")
  /\ UNCHANGED <<lifeVars, probeVars>>

(* The steps of a lookup or of initial_load. *)
CacheStep(t) ==
  /\ pc[t] # "release" /\ Step(t)
  /\ UNCHANGED <<lifeVars, requestVars, probeVars>>

(* The query goes on with an entry and a limit it may use. *)
Resolved(t) ==
  /\ Release(t)
  /\ \/ result[t].tag = "found" /\ Move(t, "ollama")
     \/ Move(t, "none")
  /\ UNCHANGED <<lifeVars, probeVars>>

(* await ollama.embed, await qdrant.search, and the answer.  Sending it
   uses neither the cache nor a client and is one step with its end.       *)
Embed(t) ==
  /\ LoopFree /\ at[t] = "ollama"
  /\ \E reply \in EmbedReplies :
       Move(t, IF EmbedOutcome(reply) = "ok" THEN "qdrant" ELSE "none")
  /\ UNCHANGED <<vars, lifeVars, probeVars>>

Search(t) ==
  /\ LoopFree /\ at[t] = "qdrant"
  /\ Move(t, "none")
  /\ UNCHANGED <<vars, lifeVars, probeVars>>

-----------------------------------------------------------------------------
(* Definitions marked "Slip" are plausible bugs in a definition after them;
   no action uses them.                                                    *)

PlanCheck ==
  [loaded |-> loaded, agents |-> Count(agents, "agent"), admins |-> Count(agents, "admin")]

(* Slip: asyncio.gather starts both checks, and does not cancel the one when
   the other raises.                                                       *)
HandleGathering(p) ==
  /\ LoopFree /\ at[p] = "accepted"
  /\ at' = [at EXCEPT ![p] = "ollama"] /\ using' = [using EXCEPT ![p] = Clients]
  /\ check' = [check EXCEPT ![p] = PlanCheck]
  /\ since0' = [since0 EXCEPT ![p] = served]
  /\ UNCHANGED <<vars, lifeVars, ollama, status>>

(* healthz up to its first await. *)
Handle(p) ==
  /\ LoopFree /\ at[p] = "accepted"
  /\ Move(p, "ollama")
  /\ check' = [check EXCEPT ![p] = PlanCheck]
  /\ since0' = [since0 EXCEPT ![p] = served]
  /\ UNCHANGED <<vars, lifeVars, ollama, status>>

Healthy(s) == s.reachable /\ s.present

Respond(p, code) == Move(p, "send") /\ status' = [status EXCEPT ![p] = code]

(* await ollama.check_health. *)
CheckOllama(p) ==
  /\ LoopFree /\ at[p] = "ollama"
  /\ \E reply \in TagsReplies :
       IF TagsRaise(reply) THEN Respond(p, 500) /\ UNCHANGED ollama
       ELSE /\ Move(p, "qdrant")
            /\ ollama' = [ollama EXCEPT ![p] = Healthy(OllamaStatus(reply))]
            /\ UNCHANGED status
  /\ UNCHANGED <<vars, lifeVars, check, since0>>

(* Slip: the admins are counted when the response is put together. *)
CheckQdrantTorn(p) ==
  /\ LoopFree /\ at[p] = "qdrant"
  /\ check' = [check EXCEPT ![p].admins = Count(agents, "admin")]
  /\ \E reply \in CollectionReplies :
       Respond(p, IF check[p].loaded /\ ollama[p] /\ Healthy(QdrantStatus(reply))
                  THEN 200 ELSE 503)
  /\ UNCHANGED <<vars, lifeVars, ollama, since0>>

(* Slip: Qdrant is not asked when Ollama failed, and nothing answered. *)
CheckQdrantIfOllama(p) ==
  /\ LoopFree /\ at[p] = "qdrant" /\ ollama[p]
  /\ \E reply \in CollectionReplies :
       Respond(p, IF check[p].loaded /\ Healthy(QdrantStatus(reply)) THEN 200 ELSE 503)
  /\ UNCHANGED <<vars, lifeVars, check, ollama, since0>>

(* await qdrant.check_health, and the response. *)
CheckQdrant(p) ==
  /\ LoopFree /\ at[p] = "qdrant"
  /\ \E reply \in CollectionReplies :
       Respond(p, IF check[p].loaded /\ ollama[p] /\ Healthy(QdrantStatus(reply))
                  THEN 200 ELSE 503)
  /\ UNCHANGED <<vars, lifeVars, check, ollama, since0>>

(* Slip: the next probe finds the status of the last. *)
SendKeeping(p) ==
  /\ LoopFree /\ at[p] = "send" /\ Move(p, "none")
  /\ check' = [check EXCEPT ![p] = NoCheck] /\ since0' = [since0 EXCEPT ![p] = 0]
  /\ UNCHANGED <<vars, lifeVars, ollama, status>>

(* The response leaves. *)
Send(p) ==
  /\ LoopFree /\ at[p] = "send" /\ Move(p, "none")
  /\ check' = [check EXCEPT ![p] = NoCheck] /\ ollama' = [ollama EXCEPT ![p] = FALSE]
  /\ status' = [status EXCEPT ![p] = 0] /\ since0' = [since0 EXCEPT ![p] = 0]
  /\ UNCHANGED <<vars, lifeVars>>

-----------------------------------------------------------------------------
(* uvicorn stops taking requests, ... *)
Signal ==
  /\ mode = "serving"
  /\ mode' = "draining"
  /\ UNCHANGED <<vars, own, closed, raised, requestVars, probeVars>>

(* ... waits for those it has taken and leaves the lifespan.  It waits for
   their responses: what a handler left running it would not know of.      *)
Drained == \A r \in Requests : at[r] = "none"

(* Slip: the clients that were handed in are closed too. *)
CloseAny(client, then) ==
  \/ /\ closed' = closed \cup {client}
     /\ mode' = then /\ UNCHANGED raised
  \/ raised' = TRUE /\ mode' = "stopped" /\ UNCHANGED closed

(* "if own: await client.aclose()".  Nothing after an aclose that raises is
   run.                                                                    *)
Close(client, then) ==
  \/ /\ closed' = IF client \in own THEN closed \cup {client} ELSE closed
     /\ mode' = then /\ UNCHANGED raised
  \/ client \in own /\ raised' = TRUE /\ mode' = "stopped" /\ UNCHANGED closed

Shutdown ==
  /\ \/ mode = "draining" /\ Drained /\ Close("ollama", "closing")
     \/ mode = "closing" /\ Close("qdrant", "stopped")
  /\ UNCHANGED <<vars, own, requestVars, probeVars>>

(* The process dies, or has stopped, and another is started. *)
NewProcess ==
  /\ Restart
  /\ mode' = "starting" /\ closed' = {} /\ raised' = FALSE
  /\ at' = ForEach("none") /\ using' = ForEach({})
  /\ check' = ForAll(NoCheck) /\ ollama' = ForAll(FALSE)
  /\ status' = ForAll(0) /\ since0' = ForAll(0)
  /\ UNCHANGED own

Running(t) == CacheStep(t) \/ Resolved(t)
Query(t) == Ask(t) \/ Refuse(t) \/ Embed(t) \/ Search(t)
Probe(p) == Handle(p) \/ CheckOllama(p) \/ CheckQdrant(p) \/ Send(p)

HealthNext ==
  \/ LoadPlan \/ OtherFile \/ Serve \/ Signal \/ Shutdown \/ NewProcess
  \/ \E r \in Requests : Accept(r)
  \/ \E t \in Threads : Running(t) \/ Query(t)
  \/ \E p \in Probes : Probe(p)

HealthSpec == HealthInit /\ [][HealthNext]_healthVars

(* First come first served, as in Server; upstream calls end. *)
HealthLive ==
  /\ HealthSpec
  /\ \A t \in Threads : WF_healthVars(Running(t)) /\ SF_healthVars(Query(t))
  /\ \A p \in Probes : SF_healthVars(Probe(p))
  /\ WF_healthVars(Shutdown)

-----------------------------------------------------------------------------
(* What a probe is told of the plan is true of one version of it, no older
   than the newest that any query had been answered from when its handler
   began, however the plan is replaced while it awaits the upstreams; and a
   server that answers has a plan with somebody in it.                     *)
ReportExact ==
  \A p \in Probes : status[p] \in {200, 503} =>
    /\ check[p].loaded
    /\ \E v \in 1 .. Latest :
         /\ v >= since0[p] /\ hist[v].kind = "plan"
         /\ check[p].agents = Count(hist[v].plan, "agent")
         /\ check[p].admins = Count(hist[v].plan, "admin")

(* No client is closed while a call of it is under way or while a request
   may still come to make one: a stop waits for responses only, so that no
   handler, of a probe or of a query, may answer with a call outstanding,
   whichever upstream fails or raises (healthz, query, lifespan).          *)
NoUseAfterClose ==
  \A r \in Requests :
    /\ using[r] \cap closed = {}
    /\ at[r] \notin {"none", "send"} => closed = {}

(* A shutdown closes the clients the application made for itself, all of
   them unless closing one raises, and never one it was handed.            *)
ClosesItsOwn ==
  /\ closed \subseteq own
  /\ mode = "stopped" /\ ~raised => closed = own

(* A probe is answered or lost with the process. *)
ProbeAnswered == \A p \in Probes : at[p] = "accepted" ~> at[p] = "none"

(* A stop that was asked for comes to its end, past the probes and the
   queries that wait for an upstream.                                      *)
StopCompletes == mode = "draining" ~> mode \in {"stopped", "starting"}

=============================================================================
