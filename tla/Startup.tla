------------------------------ MODULE Startup ------------------------------
(***************************************************************************)
(* "dprox serve" until it listens and "dprox health" until it exits:       *)
(* src/dprox/cli.py with the configuration of src/dprox/config.py.         *)
(*                                                                         *)
(* The files are other programs' and may be replaced between any two       *)
(* looks, so each look is at any content; so are the upstreams.  PlanParse *)
(* parses the plan.                                                        *)
(***************************************************************************)
EXTENDS PlanParse, Upstreams

CONSTANTS
  RawConfigs,  \* mappings a configuration file may hold, sections flattened
  NoConfig, NoTls

(* Config and its sections: the fields with a constraint, what satisfies it,
   and the fields that may be left out.  A text is of use, blank, or, for
   the two URLs, one that the client made for it refuses.                  *)
Urls == {"text", "no_url"}
MaxBody == 10000000
Allowed ==
  [org |-> {"text"}, bind_host |-> {"text"}, bind_port |-> 1 .. 65535,
   request_timeout_seconds |-> 1 .. 600, max_request_body_bytes |-> 1 .. MaxBody,
   client_cert_mode |-> {"optional", "required", "off"},
   tls_min_version |-> {"TLSv1.2", "TLSv1.3"}, tls_pin_enabled |-> BOOLEAN,
   reload_min_interval_seconds |-> 0 .. 3600,
   endpoint |-> Urls, model |-> {"text"}, vector_dim |-> 1 .. 8192,
   embedding_timeout |-> 1 .. 300,
   url |-> Urls, api_key_env |-> {"text"}, collection |-> {"text"},
   default_limit |-> Nat \ {0}, max_limit |-> Nat \ {0}, qdrant_timeout |-> 1 .. 300,
   level |-> {"DEBUG", "INFO", "WARNING", "ERROR"}]
Fields == DOMAIN Allowed

Defaults ==
  [client_cert_mode |-> "optional", tls_min_version |-> "TLSv1.3",
   tls_pin_enabled |-> TRUE, reload_min_interval_seconds |-> 5, level |-> "INFO"]

ASSUME StartupAssumption ==
  NoTls \notin [clients : {"optional", "required"},
                min : {"TLSv1.2", "TLSv1.3", "library"}]

(* Definitions marked "Slip" are plausible bugs in the definition that
   follows; nothing uses them.                                             *)

(* Slip: the order of two limits is not compared. *)
AcceptsUnordered(raw) ==
  /\ DOMAIN raw \subseteq Fields /\ Fields \ DOMAIN Defaults \subseteq DOMAIN raw
  /\ \A f \in DOMAIN raw : raw[f] \in Allowed[f]

(* Config.model_validate, with extra="forbid". *)
Accepts(raw) ==
  /\ DOMAIN raw \subseteq Fields /\ Fields \ DOMAIN Defaults \subseteq DOMAIN raw
  /\ \A f \in DOMAIN raw : raw[f] \in Allowed[f]
  /\ raw.max_limit >= raw.default_limit

(* Slip: what is left out stays out. *)
ConfiguredBare(raw) == raw

Configured(raw) ==
  [f \in Fields |-> IF f \in DOMAIN raw THEN raw[f] ELSE Defaults[f]]

(* What a look at a file finds: nothing, no regular file, an OSError, bytes
   that are not UTF-8, text that is no YAML mapping, or a mapping.         *)
Faults == {"gone", "not_file", "unreadable", "undecodable", "bad"}
Found(kind, content) == [kind |-> kind, content |-> content]
FilesOf(contents) == {Found("mapping", c) : c \in contents} \cup {Found(k, NoConfig) : k \in Faults}
PathIsFile(f) == f.kind \notin {"gone", "not_file"}

VARIABLES
  command,  \* "serve" or "health"
  given,    \* the ways in which a path was given: "--config", "DPROX_CONFIG"
  step,     \* what the command does next
  config,   \* the Config
  source,   \* history: the path and content it was read from
  lines,    \* the checks reported so far, and whether [OK] or [FAIL]
  tls,      \* client certificates and lowest version of the listener
  exit      \* the exit code, -1 before

commandVars == <<command, given, step, config, source, lines, tls, exit>>
vars == <<parseVars, commandVars>>

Paths == {"--config", "DPROX_CONFIG", "/etc/dprox/config.yml"}
Steps == {"find", "read", "certs", "find_plan", "read_plan", "parse", "stat_plan",
          "create", "tls", "bind", "serving", "ollama", "qdrant", "exited"}
Checks == {"config", "mtls", "plan", "ollama", "qdrant.connect", "qdrant.collection"}
NoSource == [path |-> "none", raw |-> NoConfig]

TypeOK ==
  /\ step \in Steps /\ exit \in {-1, 0, 1, 2, 3} /\ (exit = -1 <=> step # "exited")
  /\ config # NoConfig =>
       DOMAIN config = Fields /\ \A f \in Fields : config[f] \in Allowed[f]
  /\ lines \subseteq [check : Checks, ok : BOOLEAN]
  /\ tls # NoTls => tls \in [clients : {"optional", "required"},
                             min : {"TLSv1.2", "TLSv1.3", "library"}]

-----------------------------------------------------------------------------
Init ==
  /\ ParseInit
  /\ command \in {"serve", "health"}
  /\ given \in SUBSET {"--config", "DPROX_CONFIG"}
  /\ step = "find" /\ config = NoConfig /\ source = NoSource
  /\ lines = {} /\ tls = NoTls /\ exit = -1

Line(check, ok) == [check |-> check, ok |-> ok]
Goto(s) == step' = s /\ UNCHANGED exit
Exit(code) == step' = "exited" /\ exit' = code

(* An exception nobody catches. *)
Die == Exit(1) /\ UNCHANGED lines

FailCode == IF command = "serve" THEN 3 ELSE 2
Fail(check) == lines' = lines \cup {Line(check, FALSE)} /\ Exit(FailCode)

(* Only health reports what went well. *)
Pass(checks) ==
  lines' = IF command = "health" THEN lines \cup {Line(c, TRUE) : c \in checks} ELSE lines

(* Slip: the environment comes first. *)
ResolveEnvironment ==
  IF "DPROX_CONFIG" \in given THEN "DPROX_CONFIG"
  ELSE IF "--config" \in given THEN "--config" ELSE "/etc/dprox/config.yml"

(* resolve_config_path. *)
Resolve ==
  IF "--config" \in given THEN "--config"
  ELSE IF "DPROX_CONFIG" \in given THEN "DPROX_CONFIG" ELSE "/etc/dprox/config.yml"

Usable(f) == f.kind = "mapping" /\ Accepts(f.content)

(* load_config in the two looks it takes, and what the commands do with its
   failure.                                                                *)
FindConfig ==
  /\ step = "find"
  /\ \E f \in FilesOf(RawConfigs) :
       IF PathIsFile(f) THEN Goto("read") /\ UNCHANGED lines ELSE Fail("config")
  /\ UNCHANGED <<parseVars, command, given, config, source, tls>>

ReadConfig ==
  /\ step = "read"
  /\ \E f \in FilesOf(RawConfigs) :
       \/ /\ Usable(f)
          /\ config' = Configured(f.content)
          /\ source' = [path |-> Resolve, raw |-> f.content]
          /\ Pass({"config"})
          /\ Goto(IF command = "serve" THEN "certs" ELSE "find_plan")
       \/ /\ ~Usable(f)
          /\ IF f.kind = "undecodable" THEN Die ELSE Fail("config")
          /\ UNCHANGED <<config, source>>
  /\ UNCHANGED <<parseVars, command, given, tls>>

MtlsOff == config.client_cert_mode = "off"

(* _verify_cert_files_or_exit, serve only. *)
VerifyCertFiles ==
  /\ step = "certs"
  /\ \/ Goto("find_plan") /\ UNCHANGED lines
     \/ ~MtlsOff /\ Fail("mtls")
  /\ UNCHANGED <<parseVars, command, given, config, source, tls>>

(* _build_plan_cache_or_exit: initial_load looks for the plan, reads it,
   parses it and stats it.                                                 *)
FindPlan ==
  /\ step = "find_plan"
  /\ \E f \in FilesOf(PlanTexts) :
       IF PathIsFile(f) THEN Goto("read_plan") /\ UNCHANGED lines ELSE Fail("plan")
  /\ UNCHANGED <<parseVars, command, given, config, source, tls>>

ReadPlan ==
  /\ step = "read_plan"
  /\ \E f \in FilesOf(PlanTexts) :
       \/ /\ f.kind = "mapping" /\ StartParse(f.content)
          /\ Goto("parse") /\ UNCHANGED lines
       \/ /\ f.kind # "mapping"
          /\ IF f.kind = "undecodable" THEN Die ELSE Fail("plan")
          /\ UNCHANGED parseVars
  /\ UNCHANGED <<command, given, config, source, tls>>

ParsePlan == step = "parse" /\ ParseStep /\ UNCHANGED commandVars

PlanParsed ==
  /\ step = "parse"
  /\ \/ parse = "loaded" /\ Goto("stat_plan") /\ UNCHANGED lines
     \/ parse = "plan_error" /\ Fail("plan")
  /\ UNCHANGED <<parseVars, command, given, config, source, tls>>

StatPlan ==
  /\ step = "stat_plan"
  /\ \/ Pass({"plan"}) /\ Goto(IF command = "serve" THEN "create" ELSE "ollama")
     \/ Fail("plan")
  /\ UNCHANGED <<parseVars, command, given, config, source, tls>>

(* create_app makes both clients. *)
CreateApp ==
  /\ step = "create"
  /\ IF "no_url" \in {config.endpoint, config.url} THEN Die
     ELSE Goto("tls") /\ UNCHANGED lines
  /\ UNCHANGED <<parseVars, command, given, config, source, tls>>

(* Slip: the pin is set before there is a context to set it on. *)
ListenerUnpinned == [clients |-> config.client_cert_mode, min |-> "library"]

(* The context that _build_uvicorn_config loads, and then pins. *)
Listener ==
  [clients |-> config.client_cert_mode,
   min |-> IF config.tls_pin_enabled THEN config.tls_min_version ELSE "library"]

(* It loads the files at once, and they may be gone or no certificates by
   then, or the key another's.                                             *)
BuildUvicornConfig ==
  /\ step = "tls"
  /\ \/ tls' = (IF MtlsOff THEN NoTls ELSE Listener) /\ Goto("bind") /\ UNCHANGED lines
     \/ ~MtlsOff /\ Die /\ UNCHANGED tls
  /\ UNCHANGED <<parseVars, command, given, config, source>>

(* uvicorn exits with 1 when it cannot have the address. *)
Bind ==
  /\ step = "bind"
  /\ (Goto("serving") /\ UNCHANGED lines) \/ Die
  /\ UNCHANGED <<parseVars, command, given, config, source, tls>>

(* A client is made, asked and closed; each of the three may raise. *)
Probe(url, raises, line, goto) ==
  \/ url # "no_url" /\ ~raises /\ lines' = lines \cup line /\ goto
  \/ Die

Healthy(status) == status.reachable /\ status.present

(* Slip: a failed probe is tried again from the start. *)
CheckOllamaAgain ==
  /\ step = "ollama"
  /\ \E reply \in TagsReplies :
       LET ok == Healthy(OllamaStatus(reply)) IN
       Probe(config.endpoint, TagsRaise(reply), IF ok THEN {Line("ollama", TRUE)} ELSE {},
             Goto(IF ok THEN "qdrant" ELSE "stat_plan"))
  /\ UNCHANGED <<parseVars, command, given, config, source, tls>>

(* _check_ollama and _format_ollama_line. *)
CheckOllama ==
  /\ step = "ollama"
  /\ \E reply \in TagsReplies :
       Probe(config.endpoint, TagsRaise(reply),
             {Line("ollama", Healthy(OllamaStatus(reply)))}, Goto("qdrant"))
  /\ UNCHANGED <<parseVars, command, given, config, source, tls>>

QdrantLines(status) ==
  {Line("qdrant.connect", status.reachable)}
    \cup IF status.reachable THEN {Line("qdrant.collection", status.present)} ELSE {}

(* Slip: the last check decides. *)
VerdictOfLast(ok) == IF ok THEN 0 ELSE 2

(* 0 if ollama_ok and qdrant_ok else 2. *)
Verdict(ok) == IF ok /\ Line("ollama", TRUE) \in lines THEN 0 ELSE 2

(* _check_qdrant, _format_qdrant_lines and the end of health. *)
CheckQdrant ==
  /\ step = "qdrant"
  /\ \E reply \in CollectionReplies :
       LET status == QdrantStatus(reply) IN
       Probe(config.url, FALSE, QdrantLines(status), Exit(Verdict(Healthy(status))))
  /\ UNCHANGED <<parseVars, command, given, config, source, tls>>

Next ==
  \/ FindConfig \/ ReadConfig \/ VerifyCertFiles
  \/ FindPlan \/ ReadPlan \/ ParsePlan \/ PlanParsed \/ StatPlan
  \/ CreateApp \/ BuildUvicornConfig \/ Bind
  \/ CheckOllama \/ CheckQdrant

(* One thread, whose calls all return: the clients have their timeouts. *)
Spec == Init /\ [][Next]_vars /\ WF_vars(Next)

-----------------------------------------------------------------------------
(* The one place the operator said the configuration is in. *)
Named ==
  CHOOSE p \in Paths :
    \/ p = "--config" /\ p \in given
    \/ p = "DPROX_CONFIG" /\ given = {p}
    \/ p = "/etc/dprox/config.yml" /\ given = {}

Says(field, value) == field \in DOMAIN source.raw /\ source.raw[field] = value

(* A process that listens has its configuration from the place named, and
   from no other when that one could not be used; it has loaded an
   acceptable plan, can use its limits (the assumption of Server), and
   listens without TLS or below TLS 1.3 only if the file says so in as many
   words: what it leaves out is the strict choice, and the pin is on the
   context that is served with.                                            *)
ServesAsConfigured ==
  step = "serving" =>
    /\ source.path = Named
    /\ Acceptable(doc) /\ Holds(out, doc, Len(All(doc)))
    /\ config.default_limit \in 1 .. config.max_limit
    /\ tls = NoTls <=> Says("client_cert_mode", "off")
    /\ tls # NoTls =>
         /\ tls.clients = "required" <=> Says("client_cert_mode", "required")
         /\ tls.min = "TLSv1.3" \/ Says("tls_pin_enabled", FALSE)
              \/ (Says("tls_min_version", "TLSv1.2") /\ tls.min = "TLSv1.2")

(* What the exit codes 0, 2 and 3 say: health found everything in order, or
   reported a failure; serve reported one.  A server that listens has
   reported none, and no check is both passed and failed.                  *)
Failed == {l.check : l \in {m \in lines : ~m.ok}}
Passed == {l.check : l \in {m \in lines : m.ok}}

ExitMeans ==
  /\ exit = 0 => command = "health" /\ Failed = {} /\ Passed = Checks \ {"mtls"}
  /\ exit \in {2, 3} => exit = FailCode /\ Failed # {}
  /\ step = "serving" => Failed = {}
  /\ Failed \cap Passed = {}

(* Every command comes to its end, a listening server or an exit. *)
CommandEnds == <>(step \in {"serving", "exited"})

(* README.md:111-118, the exit codes 0, 2, 3, and 4 for a "Runtime error
   during dprox serve".                                                    *)
ExitCodesDocumented ==
  exit # -1 => exit \in (IF command = "serve" THEN {0, 3, 4} ELSE {0, 2})

=============================================================================
