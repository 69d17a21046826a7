# A formal model of dprox

dprox is an RBAC-enforcing query proxy: a caller presents a client certificate,
its common name (CN) is looked up in a compiled plan, the query is embedded by
Ollama and searched in Qdrant under a filter made of the plan's groups, and the
answer goes back with an audit line in the log. This directory holds TLA+
modules of all of it but its scripts, TLC configurations that check them on
small instances, and TLAPS proofs for every size. Paths below are relative to
the repository root.

## Inventory

| part | source | state | operations | what makes it correct |
|---|---|---|---|---|
| plan cache | `src/dprox/plan.py` 129-216 | lock, plan, mtime, loaded, time of the last unknown-CN reload | `initial_load`, `lookup`, `counts`, `loaded` | an answer is one deployed plan's; never back in time; stale only as documented; a broken file fails closed; reloads for unknown CNs are rate limited; the lock comes free |
| plan parsing | `plan.py` 26-126 | none | `load_plan_from_file`, `parse_plan_dict` | each name once, whatever the order; everything else a `PlanError` |
| query endpoint | `server.py` 136-158, 195-305 | one coroutine per request | `POST /v1/query` and two exception handlers | results only from the caller's groups; the right refusal; one audit line per decided request, before the response |
| health, version, lifespan | `server.py` 120-134, 160-193 | the two clients | `GET /healthz`, `GET /version`, shutdown | what a probe reports is true of one plan; its own clients closed, and only after the last call of them |
| mTLS | `mtls.py` | none | `validate_client_cert`, `require_mtls`, `DproxHttpProtocol` | a CN only from a parsable clientAuth certificate with one CN |
| audit | `audit.py` | logger level | `configure_logging`, reason map | no event lost or renamed |
| Ollama client | `ollama.py` | HTTP pool | `embed`, `check_health`, `aclose` | every reply is a vector of the right size, a timeout or an unavailability |
| Qdrant client | `qdrant.py` | client | `search`, `check_health`, `aclose` | the filter is the groups; every failure is one of two errors |
| configuration | `config.py` | none | `load_config`, `resolve_config_path` | options in range, else `ConfigError` |
| command line | `cli.py` | exit code | `serve`, `health`, `version` | start-up order and exit codes |
| scripts, packaging | `scripts/`, `Dockerfile`, `.github/` | files | one-shot tools | out of scope |

How they interact: `cli.serve` loads configuration, checks certificate files,
loads the plan once, configures logging, builds the application and runs
uvicorn. A request enters through uvicorn, which puts the peer certificate in
the ASGI scope; FastAPI reads the body, runs `require_mtls` on a worker thread
and then the handler on the event loop. The handler calls `PlanCache.lookup`
synchronously, awaits Ollama, awaits Qdrant, writes the audit line and returns.
The plan file is written by another program at any time.

What is hard here: the file changes under a reload that is not atomic; lookups
share a cache and a lock; a process restarts with an empty cache and a clock
that did not; requests interleave at their awaits and use what they looked up
before; each upstream fails in its own ways, and so does each field of a
certificate; a start-up looks at files several times and can stop at each look;
a shutdown meets requests under way; whether an event reaches the log depends on
two options. `PROJECT.json` lists these hazards line by line, with the
properties about each.

## Modules

| module | models | uses |
|---|---|---|
| `PlanFile` | the plan file as its history of contents, and what loading a content yields | |
| `PlanParse` | `parse_plan_dict`, loop by loop | |
| `PlanCache` | `PlanCache`, step by step | `PlanFile` |
| `PlanService` | what a caller of the cache may rely on (abstract) | `PlanFile` |
| `Mtls` | the verdict on a client certificate | |
| `Upstreams` | how the two clients classify replies | |
| `Server` | `POST /v1/query`, its handlers and audit events | `PlanFile`, `PlanService`, `Mtls`, `Upstreams` |
| `Health` | `GET /healthz` and the lifespan, over the plan cache | `PlanCache`, `Upstreams` |
| `Startup` | `dprox serve` and `dprox health` with the configuration | `PlanParse`, `Upstreams` |
| `MCPlanCache`, `MCServer`, `MCHealth`, `MCStartup` | instances for TLC | |
| `PlanFileProofs` | lemmas about plans and the history of the file | `PlanFile` |
| `PlanParseProofs` | proofs about the parser | `PlanParse` |
| `PlanCacheProofs` | proofs of the invariants of `PlanCache` | `PlanCache`, `PlanFileProofs` |
| `PlanRefinementProofs` | proof that `PlanCache` implements `PlanService` | `PlanCacheProofs` |
| `ServerProofs` | proofs of the invariants of `Server`, and that it uses the cache as `PlanService` allows | `Server`, `PlanFileProofs` |
| `HealthProofs` | proofs of the invariants of `Health`, and that it uses the cache as `PlanCache` allows | `Health`, `PlanCacheProofs` |
| `StartupProofs` | proofs of the invariants of `Startup` | `Startup`, `PlanParseProofs` |

`PlanCache` is proved to implement `PlanService`, and `Server`, built on the
actions of `PlanService`, to use it only as it may be used, so what is proved of
`Server` holds with the real cache under it. `Health` stands on `PlanCache`
itself, since it reads the cache's fields. What `PlanParse` yields is proved to
be one of the plans that `PlanFile` lets a file hold, and `Startup` shows that a
server that listens meets the assumption of `Server` on its limits.

### PlanFile

`hist` is every content the path has had, each with a kind, a plan and an
mtime. `load_plan_from_file` can end in a plan, a `PlanError` or an exception
that is neither (bytes that are not UTF-8); the kinds are the reasons. A writer
that truncates and rewrites in place is a "bad" content followed by a good one.
A version has a time stamp of its own or, with `StampsReused`, any earlier one:
a copy that preserves times, a rollback, two writes in one tick of the file
system's clock. Version numbers are for the properties only.

### PlanCache

| action | code |
|---|---|
| `InitialLoad`, `Lookup` | the calls; `initial_load` before anything serves, as in `cli.py` |
| `Acquire` | `with self._lock`, and the branch on `cache_enabled` and `reload_on_mtime_change` |
| `MtimeCheck` | `_mtime_changed_locked` (stat) |
| `CheckPath`, `Read`, `Stat` | the three times `_reload_locked` looks at the path |
| `Get`, `ReloadForUnknown` | the dictionary lookup, and the rate-limited reload for an unknown CN |
| `Release` | leaving the `with`, by return or exception |
| `WriteFile`, `Tick`, `Restart` | the writer, `time.monotonic()`, the process dying at any point |

Two system calls on the path are two steps and anything may happen between
them; `exists` and `is_file` are one, since a file that goes between them gives
the same error from the read. `Read` includes the parse, which touches nothing
shared. After a failed `initial_load` the process exits and has left nothing
behind, so another `InitialLoad` is the next process's. The present server
calls `lookup` from its event loop only; the class promises thread safety, so
the model has several threads.

History variables: `ver` and `stampVer` are the versions the plan and the stamp
come from, `since` the version when a call began, `served` the highest version
an answer has come from and `floor` its value when the call began, `nUnknown`
the reloads for unknown CNs, `nChanged` those the mtime check had and that
succeeded, both of one process, and `started` the clock when it began: the
clock counts from the host's boot and survives a restart.

### Server

A request moves from one await to the next in one action: `ReadBody` (the
framework reads and parses the body first), `RejectCert`/`RaiseCert`/
`RejectBody`, `StartLookup`, the cache's own steps, `EndLookup`, `Embed`,
`Search`, `Send`. While a lookup runs nothing else does on the event loop
(`LoopFree`), only the file changes. `require_mtls` runs on a worker thread but
shares nothing, so it is part of the step that follows it. A client that
disconnects does not stop a handler and is not modelled. A caller sends a
certificate, a body of one of the three classes the code tells apart and a
limit. Qdrant returns any points that the filter matches, at most the limit, or
a failure. `Crash` loses every request; the log is outside. `floor` is the
register's value when the request arrived.

`Mtls`: a certificate is what the checks can see of it, and `Verdict` is the
checks in their order, with the two places where an exception leaves them: the
extensions and the subject are each parsed when they are first looked at.
`Identity`, in the properties, is the declarative counterpart.

`Upstreams`: one word per kind of reply that a check of the code tells from the
others, and what becomes of it. A point carries groups, since
the filter matches the elements of a list, though `_point_to_hit` takes a
single string only.

### Health

| action | code |
|---|---|
| `LoadPlan`, `Serve` | `_build_plan_cache_or_exit`, and the rest of `serve` until it listens |
| `Accept` | uvicorn takes a request on, a probe or a query |
| `Refuse`, `Ask`, `CacheStep`, `Resolved` | `query` up to the embedding: refused, or in `lookup`, then on with an entry or answered |
| `Embed`, `Search` | its two awaits, by whether it goes on |
| `Handle`, `CheckOllama`, `CheckQdrant`, `Send` | `healthz` up to its first await, to the second, to the response, which leaves |
| `Signal`, `Shutdown` | uvicorn told to stop; the `finally` of the lifespan, one client after the other |
| `NewProcess` | the process dying at any point, or having stopped, and the next one |

A query is its call of `PlanCache`, whose steps nothing else on the loop comes
between, followed by its calls of the clients; `Server` has the rest of it.
`using` holds the clients with a call of a request's under way. `Drained` is
uvicorn's wait for the responses of all requests it has taken, probes and
queries; those go on to look up the plan and to use the clients while it waits.
A call that outlived its response would be beyond that wait, which is why
`NoUseAfterClose` depends on the handlers and not on uvicorn alone. `Handle`
reads `counts` and `loaded` in one step: each takes the lock, but nothing else
runs on the loop between them. Each close of a client may raise, and then the
second client stays open (see the findings): `ClosesItsOwn` speaks of shutdowns
without such an exception. Applications that are handed their clients are the
other values of `own`. `loaded` says only that some load once went well: a probe
goes on answering 200 over a plan file that is broken since, which is what the
code does (queries then fail closed).

### PlanParse

`Validate` is the validation of the whole document by the models, `AddAgent` and
`AddAdmin` a turn of each loop, `EndParse` the check for an empty plan.
`Acceptable` is what a plan may be, with no loop in it. Strings are values with
their `strip()`.

### Startup

| action | code |
|---|---|
| `FindConfig`, `ReadConfig` | `resolve_config_path`, `load_config`, and the commands' handling of its failure |
| `VerifyCertFiles` | `_verify_cert_files_or_exit` |
| `FindPlan`, `ReadPlan`, `ParsePlan`, `PlanParsed`, `StatPlan` | `_build_plan_cache_or_exit`, over `PlanParse` |
| `CreateApp`, `BuildUvicornConfig`, `Bind` | the rest of `serve` |
| `CheckOllama`, `CheckQdrant` | the rest of `health`, with the lines it prints and its verdict |

The files are other programs', so each look at one finds any content, or none:
a file may go between the check that it exists and the read. A path below a
directory that cannot be searched is not modelled. A configuration is its fields
with their constraints and defaults, the sections flattened, without the
paths and the fields that nothing here depends on; a URL may be one the client
refuses. `Die` is an exception that nobody catches, exit code 1.

## Runs

| run | what it shows | bounds |
|---|---|---|
| `plan_cache_safety` | `AnswerExact`, `StaleOnlyByRace`, `ErrorsAreCurrent` and the types | 2 callers, 2 CNs, 2 plans, 2 faults, 5 option sets, 3 contents, reused stamps, 1 clock tick, 1 process |
| `plan_cache_service` | the refinement `ImplementsPlanService`, `MonotonicReads` and `FloodBounded` | 2 callers, 3 other faults, 2 contents, intervals 1 and 2 over 3 ticks, the process starting at any of them, 1 restart |
| `plan_cache_live` | `LockReleased`, `ConvergesUnlessMisled` | 2 callers, 3 contents (1 plan), 2 faults, reused stamps, cache on and off, no tick, 1 restart |
| `plan_cache_race` | refutes `Converges` | 1 caller, 2 contents |
| `plan_cache_first_miss` | refutes `FirstMissReloads` | 2 callers, 1 tick |
| `server_safety` | `Confined`, `RefusedForCause`, `AuditTrail` and the types | 2 requests at a time, 13 calls, 5 points, limits to 2, 3 contents, 2 logging options, crashes |
| `server_live` | `EventuallyDone` | 2 requests, 7 calls, 2 contents |
| `server_audit` | refutes `AuditDurable` | log_query_text at INFO |
| `server_body` | refutes `AuthBeforeBody` | 3 calls without a certificate |
| `health` | `ReportExact`, `NoUseAfterClose`, `ClosesItsOwn`, `ProbeAnswered`, `StopCompletes` and the types | 1 probe, 1 query at a time, 2 contents, 1 fault, cache on and off, 1 restart |
| `startup` | `ServesAsConfigured`, `ExitMeans`, `ParseExact`, `CommandEnds` and the types | 961 plans, 11 configurations, 5 faults of a file, every reply |
| `startup_exit` | refutes `ExitCodesDocumented` | one plan |

Why these bounds are enough for the cases that matter: three contents are a
plan, its replacement during a reload and one more change, or a plan, a broken
file and a repair (in `plan_cache_live` too, where which plan it is does not
matter, and so only the versions differ), or a file and its rollback under an
older stamp; two callers are one overtaking the other; two plans differ in a CN
that changes its entry and one that is dropped; one restart, in the runs where
more than a process remembers is checked, meets every point of a call. Request
slots are reused, so the server's behaviours are not limited in length. The
thirteen calls have each way a certificate can fail once, each class of body,
and a limit absent, inside and on either side of its range; the five points are
two of one group, so that a limit of one leaves one out, one of the other, one
listing both and one without a text. The seven calls of `server_live` are one
for each way a request can end. `plan_cache_live` has no tick of the clock, for
its size: a reload for an unknown CN is in the other two runs of the cache and
is not needed where the mtime is looked at. Probes share nothing but the cache
and the clients, so one next to a query meets every order of its awaits with
reloads, the query's awaits and the shutdown. Two entries per list are enough
for a name to come twice in either list, across both, with and without blanks,
and next to a good one; the proof covers the rest. TLC is run with two workers;
the longest run takes about two minutes. Threads and requests are symmetric
where only safety is checked. `health` and the two start-up runs turn the
deadlock check off: a process that has stopped and a command that has exited, or
listens, do nothing more.

Fairness. `PlanCache!LiveSpec`: a running thread goes on running, and there is
always another call; nothing is assumed about who gets a contended lock, and
nothing about the writer or the clock. Restarts are bounded, since a process
restarted for ever need never answer. `Server!LiveSpec`: strong fairness of each
request's next step. asyncio runs its ready callbacks in order, so a request
that is ready again and again between other requests' lookups gets its turn; for
the two upstream steps it assumes that each call ends, by a reply, an error or
the client's timeout. An upstream that sends a byte now and then defeats a read
timeout for ever, and no timer of the server's bounds a request (see the
findings). `Health!HealthLive`: the same of a probe's and a query's steps; a
lookup under way goes on, and so does a shutdown; nothing makes uvicorn stop.
`Startup!Spec`: the command's one thread goes on; again its calls return.

## Proofs

### Plan parsing

For documents of any length, over any strings, `PlanParseProofs` proves:

* `ParsedExactly`: `ParseSpec => []ParseExact`, a document is loaded exactly if it
  is acceptable, and the map then holds each entry under its name;
* `ParsedIsAPlan`: what is loaded is one of `PlanFile`'s plans, a non-empty map
  from names to entries.

The invariant `ParseInv` says that the map under construction holds exactly the
entries the loops have passed and that no name came twice among them; a turn of
a loop that stops has then found two positions with one name, which refutes
`Acceptable` whatever follows. The assumption is `PlanParseAssumption`.

### Plan cache

For any sets of threads, CNs, plans, faults and options, and whatever the
bounds on contents, restarts and the clock, `PlanCacheProofs` and
`PlanRefinementProofs` prove:

* `TypeCorrect`: `Spec => []TypeOK`;
* `Invariance`: `Spec => []IInv`;
* `AnswersAreExact`, `ReadsAreMonotonic`, `StaleOnlyWhenMisstamped`,
  `ErrorsAreCurrentAlways`, `ReloadsAreBounded`: the five safety invariants the
  runs check, of the specification;
* `Implementation`: `Spec => ImplementsPlanService`.

The assumptions are `PlanFileAssumption` and `PlanCacheAssumption`: the
constants are of their types and the three "none" values are none of the values.
`IInv` adds to the types that exactly the caller past `Acquire` holds the lock
(`LockInv`); that the cached plan is one whole version, the stamp that of the
same or a later one, and nothing newer has been served (`CacheInv`); and per
caller what it knows at each step (`CallInv`): what it read is as new as its
call, after the mtime check or a reload the cache is as fresh as the options
promise, and the answer it is about to return is the cache's present one. The
step lemmas come one per action. `StepInside` carries every action of the lock
holder that leaves the cache alone, `OthersOutside` and `OthersWait` the two
that do not. `UnchangedIsFresh` is the heart of the staleness argument: equal
stamps mean a fresh plan unless the stamp came from a later version than the
plan, or two versions share it.

`ReloadsAreBounded` has an invariant of its own, `FloodInv`, on top of `IInv`. The
reloads for unknown CNs of one process lie an interval apart from the first on,
and the last of them is at the time the cache keeps (`Spaced`). A reload by the
mtime check that succeeds takes the stamp to that of a later version, so that each
of them uses up a version (`Stamped`): a stamp found changed is not the present
content's own, and the locked reload it leads to cannot be overtaken (`Behind`),
which is where `IInv` is needed.

The refinement rests on the same `IInv`. The register is `served`, and a call is
open while its caller is not idle. There is one lemma per action: `RefineGet`
needs `CacheInv` (the cached plan is the plan of a version at or above the
register), `RefusedIsFail` that the content that ended a reload is present
during the call, and `RefineRelease` that no call is released undecided; the
steps inside the lock that decide nothing are stutters.

### Server

For any number of requests at a time, any collection, plans, calls and logging
options, and whatever the upstreams reply, `ServerProofs` proves `TypeCorrect`,
`Confinement` (`Confined`), `RefusalsHaveCause` (`RefusedForCause`),
`AuditTrailKept` (`AuditTrail`) and `UsesThePlanLawfully` (`Spec => Plan!Spec`).

None of the three properties is inductive: each speaks of a response and says
nothing of a request that has none yet, while what a response may hold was
settled several awaits before. `IInv` says it stage by stage. Before the lookup
a request has left nothing behind (`Arrived`). During it, it asks for the CN of
its own verified certificate, and a result is what a version that may decide it
says (`Asking`). While it awaits an upstream its entry is the one granted by
such a version, and its limit is in range (`Resolved`). With its answer decided
(`Decided`), hits, groups and lines belong to that entry. Such a version stays
one: the history only grows, and the register never goes behind the `floor` the
request began with. The lemmas about operators are `Identified` and
`Unidentified` (the checks of `Mtls!Verdict` in their order let a certificate
pass exactly if it has a declarative `Identity`), those about which log levels
let a line through, and that points returned within the limit are finitely many.
The assumption is `ServerAssumption`; that the collection is finite is part of
it.

### Health

For any number of probes and queries, `HealthProofs` proves
`UsesTheCacheLawfully` (`HealthSpec => Spec`: each action is one of
`PlanCache`'s or leaves its variables alone), so all of `PlanCacheProofs` holds
under the process, and from it `HealthTypeCorrect`, `ReportsAreExact`
(`ReportExact`), `ClientsOutliveUse` (`NoUseAfterClose`) and `OwnClientsClosed`
(`ClosesItsOwn`). `HealthIInv` adds to `PlanCacheProofs!IInv` that a process
past "starting" has a plan, that only queries that wait in `lookup` are in the
cache, that nothing is under way in a closing process and what it has closed by
then (`LifeInv`); that a request has a call of a client under way exactly where
it waits for one (`UseInv`), which is what makes the wait for responses a wait
for calls; and that a probe under way carries the report of one version
(`ProbeInv`), which `ReportExact` says only once it has answered. When a probe
is handled that version is the cache's `ver`, at or above what has been served
by `CacheInv`, and `PastKept` keeps it true through later writes.
`HealthAssumption` has the names of a plan finite: `counts` counts them.

### Startup

For both commands, any finding at each look at a file, any reply and plans of
any length, `StartupProofs` proves `TypeCorrect`, `ListensAsConfigured`
(`ServesAsConfigured`), `ExitCodesMean` (`ExitMeans`), and `ParsesAsPlanParse`,
through which `CommandParsesExactly` (`ParseExact`) follows from
`PlanParseProofs`. `IInv` says what a command has by each step: its
configuration from the one place named (`ConfigInv`), a plan that loaded
(`PlanInv`), the listener the configuration asks for (`TlsInv`) and exactly the
checks it has reported so far (`LinesInv`), which is what makes exit 0 mean that
every check passed. `StartupAssumption` says that `NoTls` is no listener with
TLS.

### Only model-checked

The liveness properties: `LockReleased`, `ConvergesUnlessMisled`,
`EventuallyDone`, `ProbeAnswered`, `StopCompletes` and `CommandEnds`. They rest
on fairness, and so on ENABLED, which the prover does not handle. Every safety
property of a passing run is proved; the runs still show that the cases the
proofs speak of occur. The refuted properties need no proof: their runs are the
counterexamples.

## Findings

`PROJECT.json` has them with their lines. The runs show five: the read-then-stat
race that keeps an old plan for good, the first unknown CN on a freshly booted
host, successful queries that are not logged with `log_query_text` at INFO, an
unauthenticated caller answered 400, and commands that exit with 1, which the
table of exit codes does not have, on failures it has codes for. The others were
met while modelling and are in the models as what the code does (`LoadOutcome`,
`Verdict` of `Mtls`, `EmbedOutcome`, `TagsRaise`, `Close`, `ReadConfig`) or
outside them: undecodable files, unreadable certificate extensions and subjects,
and odd Ollama replies escape the error handling, a client stays open when
closing the other raises, `health` passes a configuration whose certificate
files are missing, and `request_timeout_seconds` is never read.

## Not modelled

* The scripts, packaging and workflows: one-shot tools that keep no state of the
  service; `dev_certs.py` is a list of calls of a cryptography library, the other
  two are probes of a deployed image.
* uvicorn, Starlette, httpx, qdrant-client and the TLS stack, but for what the
  code relies on (marked external in the map): the body is read before the
  dependency, a stop waits for requests, a handshake in the mode "required"
  leaves no connection without a certificate.
* Formatting: the texts of errors and checks, the renderer of audit lines, the query
  hash, the measured times. `GET /version` and `dprox version` return constants.
* The size of a body: the code never reads `max_request_body_bytes`.

## Plan

Done: every component but the scripts is modelled and checked, and every safety
property of the passing runs is proved, with the refinement of `PlanService` and
the lawful use of the cache by the server and the process.

Next, in order of weight:

1. Action properties that the invariants already support: the plan a request was
   resolved under is never looked up again, and a closed client stays closed
   until the next process.
2. A declarative counterpart of `Upstreams`, proved of its classifications.
3. `ConvergesUnlessMisled` reduced to a safety lemma: once the file has settled,
   every completed lookup leaves the cache at its last version or misled.
