--------------------------- MODULE StartupProofs ---------------------------
(***************************************************************************)
(* Proofs about Startup, for both commands, whatever the files and the     *)
(* upstreams are at each look, and plans of any length.                    *)
(***************************************************************************)
EXTENDS Startup, PlanParseProofs

(* How far the command has come: with its configuration, past the plan,
   before its listener or its probes.                                      *)
WithConfig ==
  {"certs", "find_plan", "read_plan", "parse", "stat_plan", "create", "tls",
   "bind", "serving", "ollama", "qdrant"}
WithPlan == {"stat_plan", "create", "tls", "bind", "serving", "ollama", "qdrant"}
LoadingPlan == {"find_plan", "read_plan", "parse", "stat_plan"}
ServeOnly == {"certs", "create", "tls", "bind", "serving"}
HealthOnly == {"ollama", "qdrant"}

(* It has the configuration that the one file named says, ... *)
ConfigInv ==
  step \in WithConfig =>
    /\ source.path = Resolve /\ Accepts(source.raw)
    /\ config = Configured(source.raw)

(* ... the plan that the file held, ... *)
PlanInv == step \in WithPlan => parse = "loaded"

(* ... the listener that the configuration asks for, ... *)
TlsInv ==
  /\ step \in {"bind", "serving"} => tls = (IF MtlsOff THEN NoTls ELSE Listener)
  /\ tls # NoTls => tls \in [clients : {"optional", "required"},
                             min : {"TLSv1.2", "TLSv1.3", "library"}]

CommandInv ==
  /\ command \in {"serve", "health"} /\ given \subseteq {"--config", "DPROX_CONFIG"}
  /\ step \in ServeOnly => command = "serve"
  /\ step \in HealthOnly => command = "health"

(* ... and has reported the checks up to here, all passed but for ollama's,
   which health reports and goes on.                                       *)
LinesInv ==
  /\ step \in {"find", "read"} \cup ServeOnly => lines = {}
  /\ step \in LoadingPlan =>
       lines = IF command = "serve" THEN {} ELSE {Line("config", TRUE)}
  /\ step = "ollama" => lines = {Line("config", TRUE), Line("plan", TRUE)}
  /\ step = "qdrant" =>
       \E ok \in BOOLEAN :
         lines = {Line("config", TRUE), Line("plan", TRUE), Line("ollama", ok)}

IInv ==
  /\ TypeOK /\ CommandInv /\ ConfigInv /\ PlanInv /\ TlsInv /\ LinesInv /\ ExitMeans

-----------------------------------------------------------------------------
(* The plan is parsed as PlanParse says.                                   *)
LEMMA ParseSteps == [Next]_vars => [ParseNext]_parseVars
<1> SUFFICES ASSUME [Next]_vars PROVE [ParseNext]_parseVars
  OBVIOUS
<1>1. CASE ReadPlan
  <2>1. PICK f \in FilesOf(PlanTexts) :
          (f.kind = "mapping" /\ StartParse(f.content)) \/ UNCHANGED parseVars
    BY <1>1 DEF ReadPlan
  <2>2. f.kind = "mapping" => f.content \in PlanTexts
    BY DEF FilesOf, Found, Faults
  <2> QED BY <2>1, <2>2 DEF ParseNext
<1>2. CASE ParsePlan
  BY <1>2 DEF ParsePlan, ParseNext
<1>3. CASE FindConfig \/ ReadConfig \/ VerifyCertFiles \/ FindPlan \/ PlanParsed \/ StatPlan
  BY <1>3 DEF FindConfig, ReadConfig, VerifyCertFiles, FindPlan, PlanParsed, StatPlan
<1>4. CASE CreateApp \/ BuildUvicornConfig \/ Bind \/ CheckOllama \/ CheckQdrant
  BY <1>4 DEF CreateApp, BuildUvicornConfig, Bind, CheckOllama, CheckQdrant
<1>5. CASE UNCHANGED vars
  BY <1>5 DEF vars
<1> QED BY <1>1, <1>2, <1>3, <1>4, <1>5 DEF Next

(* Both commands parse the plan by the steps of PlanParse, once each, ... *)
THEOREM ParsesAsPlanParse == Spec => ParseSpec
<1>1. Init => ParseInit
  BY DEF Init
<1> QED BY <1>1, ParseSteps, PTL DEF Spec, ParseSpec

(* ... so that a command, too, goes on with exactly the acceptable ones. *)
THEOREM CommandParsesExactly == Spec => []ParseExact
BY ParsesAsPlanParse, ParsedExactly, PTL

-----------------------------------------------------------------------------
(* The configuration.                                                      *)
LEMMA Constraints ==
  /\ {"client_cert_mode", "tls_min_version", "tls_pin_enabled", "default_limit",
      "max_limit"} \subseteq Fields
  /\ Allowed["client_cert_mode"] = {"optional", "required", "off"}
  /\ Allowed["tls_min_version"] = {"TLSv1.2", "TLSv1.3"}
  /\ Allowed["tls_pin_enabled"] = BOOLEAN
  /\ Allowed["reload_min_interval_seconds"] = 0 .. 3600
  /\ Allowed["level"] = {"DEBUG", "INFO", "WARNING", "ERROR"}
  /\ Allowed["default_limit"] = Nat \ {0} /\ Allowed["max_limit"] = Nat \ {0}
<1>1. {"client_cert_mode", "tls_min_version", "tls_pin_enabled", "default_limit",
       "max_limit"} \subseteq Fields
  BY DEF Fields, Allowed
<1>2. Allowed["client_cert_mode"] = {"optional", "required", "off"}
  BY DEF Allowed
<1>3. Allowed["tls_min_version"] = {"TLSv1.2", "TLSv1.3"}
  BY DEF Allowed
<1>4. Allowed["tls_pin_enabled"] = BOOLEAN
  BY DEF Allowed
<1>5. Allowed["reload_min_interval_seconds"] = 0 .. 3600
  BY DEF Allowed
<1>6. Allowed["level"] = {"DEBUG", "INFO", "WARNING", "ERROR"}
  BY DEF Allowed
<1>7. Allowed["default_limit"] = Nat \ {0}
  BY DEF Allowed
<1>8. Allowed["max_limit"] = Nat \ {0}
  BY DEF Allowed
<1> QED BY <1>1, <1>2, <1>3, <1>4, <1>5, <1>6, <1>7, <1>8

LEMMA Strict ==
  /\ DOMAIN Defaults =
       {"client_cert_mode", "tls_min_version", "tls_pin_enabled",
        "reload_min_interval_seconds", "level"}
  /\ Defaults["client_cert_mode"] = "optional" /\ Defaults["tls_min_version"] = "TLSv1.3"
  /\ Defaults["tls_pin_enabled"] = TRUE
  /\ Defaults["reload_min_interval_seconds"] = 5 /\ Defaults["level"] = "INFO"
<1>1. DOMAIN Defaults =
        {"client_cert_mode", "tls_min_version", "tls_pin_enabled",
         "reload_min_interval_seconds", "level"}
  BY DEF Defaults
<1>2. Defaults["client_cert_mode"] = "optional" /\ Defaults["tls_min_version"] = "TLSv1.3"
  BY DEF Defaults
<1>3. Defaults["tls_pin_enabled"] = TRUE
  BY DEF Defaults
<1>4. Defaults["reload_min_interval_seconds"] = 5 /\ Defaults["level"] = "INFO"
  BY DEF Defaults
<1> QED BY <1>1, <1>2, <1>3, <1>4

LEMMA DefaultsAllowed ==
  ASSUME NEW f \in DOMAIN Defaults PROVE Defaults[f] \in Allowed[f]
<1>1. CASE f = "client_cert_mode"
  BY <1>1, Strict, Constraints
<1>2. CASE f = "tls_min_version"
  BY <1>2, Strict, Constraints
<1>3. CASE f = "tls_pin_enabled"
  <2>1. Defaults[f] = TRUE /\ Allowed[f] = BOOLEAN
    BY <1>3, Strict, Constraints
  <2> QED BY <2>1
<1>4. CASE f = "reload_min_interval_seconds"
  BY <1>4, Strict, Constraints
<1>5. CASE f = "level"
  BY <1>5, Strict, Constraints
<1> QED BY <1>1, <1>2, <1>3, <1>4, <1>5, Strict

LEMMA Complete ==
  ASSUME NEW raw, Accepts(raw)
  PROVE  /\ DOMAIN Configured(raw) = Fields
         /\ \A f \in Fields : Configured(raw)[f] \in Allowed[f]
<1>1. ASSUME NEW f \in Fields PROVE Configured(raw)[f] \in Allowed[f]
  <2>1. CASE f \in DOMAIN raw
    BY <2>1 DEF Configured, Accepts
  <2>2. CASE f \notin DOMAIN raw
    BY <2>2, DefaultsAllowed DEF Configured, Accepts
  <2> QED BY <2>1, <2>2
<1> QED BY <1>1 DEF Configured

LEMMA LimitsFit ==
  ASSUME NEW raw, Accepts(raw)
  PROVE  Configured(raw).default_limit \in 1 .. Configured(raw).max_limit
<1>1. {"default_limit", "max_limit"} \subseteq DOMAIN raw
  BY Constraints, Strict DEF Accepts
<1>2. /\ Configured(raw).default_limit = raw.default_limit
      /\ Configured(raw).max_limit = raw.max_limit
  BY <1>1, Constraints DEF Configured
<1>3. /\ raw.default_limit \in Nat \ {0} /\ raw.max_limit \in Nat \ {0}
      /\ raw.max_limit >= raw.default_limit
  BY <1>1, Constraints DEF Accepts
<1> QED BY <1>2, <1>3

(* A field is what the file says of it, and the strict choice if nothing.   *)
LEMMA AsSaid ==
  ASSUME NEW raw, Accepts(raw), NEW f \in Fields
  PROVE  /\ f \in DOMAIN raw => Configured(raw)[f] = raw[f]
         /\ f \notin DOMAIN raw => Configured(raw)[f] = Defaults[f]
BY DEF Configured

(* The listener is none, or takes its certificates and version from there. *)
LEMMA ListenerMade ==
  ASSUME NEW raw, Accepts(raw), config = Configured(raw)
  PROVE  ~MtlsOff => /\ Listener \in [clients : {"optional", "required"},
                                     min : {"TLSv1.2", "TLSv1.3", "library"}]
                     /\ Listener # NoTls
<1>1. /\ config["client_cert_mode"] \in {"optional", "required", "off"}
      /\ config["tls_min_version"] \in {"TLSv1.2", "TLSv1.3"}
      /\ config["tls_pin_enabled"] \in BOOLEAN
  BY Complete, Constraints
<1>2. Listener \in [clients : {"optional", "required", "off"},
                   min : {"TLSv1.2", "TLSv1.3", "library"}]
  BY <1>1 DEF Listener
<1>3. ~MtlsOff => Listener \in [clients : {"optional", "required"},
                               min : {"TLSv1.2", "TLSv1.3", "library"}]
  BY <1>1, <1>2 DEF MtlsOff, Listener
<1> QED BY <1>3, StartupAssumption

-----------------------------------------------------------------------------
(* The steps.  A command that ends keeps what it has reported; one that     *)
(* fails a check has not passed it.                                         *)
LEMMA LineFields ==
  /\ \A c, ok : Line(c, ok).check = c /\ Line(c, ok).ok = ok
  /\ \A c \in Checks, ok \in BOOLEAN : Line(c, ok) \in [check : Checks, ok : BOOLEAN]
BY DEF Line

LEMMA InvDie ==
  ASSUME IInv, step # "exited", Die, UNCHANGED <<command, given, config, source, tls>>
  PROVE  IInv'
<1>1. step' = "exited" /\ exit' = 1 /\ lines' = lines
  BY DEF Die, Exit
<1>2. TypeOK'
  BY <1>1 DEF IInv, TypeOK, Steps
<1>3. CommandInv' /\ ConfigInv' /\ PlanInv' /\ TlsInv' /\ LinesInv'
  BY <1>1 DEF IInv, CommandInv, ConfigInv, PlanInv, TlsInv, LinesInv, WithConfig,
              WithPlan, LoadingPlan, ServeOnly, HealthOnly
<1>4. ExitMeans'
  BY <1>1 DEF IInv, ExitMeans, Failed, Passed
<1> QED BY <1>2, <1>3, <1>4 DEF IInv

LEMMA InvFail ==
  ASSUME IInv, step # "exited", NEW check \in Checks, Fail(check),
         Line(check, TRUE) \notin lines, UNCHANGED <<command, given, config, source, tls>>
  PROVE  IInv'
<1>1. /\ step' = "exited" /\ exit' = FailCode /\ FailCode \in {2, 3}
      /\ lines' = lines \cup {Line(check, FALSE)} /\ FailCode' = FailCode
  BY DEF Fail, Exit, FailCode
<1>2. TypeOK'
  <2>1. Line(check, FALSE) \in [check : Checks, ok : BOOLEAN]
    BY LineFields
  <2>2. lines' \subseteq [check : Checks, ok : BOOLEAN]
    BY <1>1, <2>1 DEF IInv, TypeOK
  <2>3. step' \in Steps /\ exit' \in {-1, 0, 1, 2, 3} /\ exit' # -1 /\ step' = "exited"
    BY <1>1 DEF Steps
  <2> QED BY <2>2, <2>3 DEF IInv, TypeOK
<1>3. CommandInv' /\ ConfigInv' /\ PlanInv' /\ TlsInv' /\ LinesInv'
  BY <1>1 DEF IInv, CommandInv, ConfigInv, PlanInv, TlsInv, LinesInv, WithConfig,
              WithPlan, LoadingPlan, ServeOnly, HealthOnly
<1>4. Failed' = Failed \cup {check} /\ Passed' = Passed
  <2>1. Line(check, FALSE).check = check /\ ~Line(check, FALSE).ok
    BY LineFields
  <2>2. \A l : l \in lines' <=> l \in lines \/ l = Line(check, FALSE)
    BY <1>1
  <2>3. Failed' = Failed \cup {check}
    BY <2>1, <2>2 DEF Failed
  <2>4. Passed' = Passed
    BY <2>1, <2>2 DEF Passed
  <2> QED BY <2>3, <2>4
<1>5. check \notin Passed
  <2> SUFFICES ASSUME NEW l \in lines, l.ok, l.check = check PROVE FALSE
    BY DEF Passed
  <2>1. l \in [check : Checks, ok : BOOLEAN]
    BY DEF IInv, TypeOK
  <2>2. l = [check |-> l.check, ok |-> l.ok] /\ l.ok = TRUE
    BY <2>1
  <2> QED BY <2>2 DEF Line
<1>6. ExitMeans'
  BY <1>1, <1>4, <1>5 DEF IInv, ExitMeans
<1> QED BY <1>2, <1>3, <1>6 DEF IInv

(* A step that reports nothing and goes on. *)
LEMMA NothingSaid ==
  ASSUME IInv, step # "exited", UNCHANGED <<command, lines, exit>>, step' # "exited",
         step' \in Steps, step' = "serving" => lines = {}
  PROVE  ExitMeans'
<1>1. exit' = -1
  BY DEF IInv, TypeOK
<1>2. Failed' = Failed /\ Passed' = Passed
  BY DEF Failed, Passed
<1>3. lines = {} => Failed = {}
  BY DEF Failed
<1> QED BY <1>1, <1>2, <1>3 DEF IInv, ExitMeans

LEMMA InvFindConfig == ASSUME IInv, FindConfig PROVE IInv'
<1>1. /\ step = "find" /\ lines = {}
      /\ UNCHANGED <<parse, command, given, config, source, tls>>
  BY DEF FindConfig, parseVars, IInv, LinesInv
<1>2. CASE Goto("read") /\ UNCHANGED lines
  <2>1. TypeOK' /\ CommandInv' /\ ConfigInv' /\ PlanInv' /\ TlsInv' /\ LinesInv'
    BY <1>1, <1>2 DEF IInv, TypeOK, Goto, Steps, CommandInv, ConfigInv, PlanInv, TlsInv,
       LinesInv, WithConfig, WithPlan, LoadingPlan, ServeOnly, HealthOnly
  <2>2. ExitMeans'
    BY <1>1, <1>2, NothingSaid DEF Goto, Steps
  <2> QED BY <2>1, <2>2 DEF IInv
<1>3. CASE Fail("config")
  BY <1>1, <1>3, InvFail DEF Checks
<1> QED BY <1>2, <1>3 DEF FindConfig

(* What was read is what the rest works with. *)
LEMMA InvReadConfig == ASSUME IInv, ReadConfig PROVE IInv'
<1>1. /\ step = "read" /\ lines = {} /\ exit = -1
      /\ UNCHANGED <<parse, command, given, tls>> /\ command \in {"serve", "health"}
  BY DEF ReadConfig, parseVars, IInv, LinesInv, TypeOK, CommandInv
<1>2. ASSUME NEW f, Usable(f), config' = Configured(f.content),
             source' = [path |-> Resolve, raw |-> f.content], Pass({"config"}),
             Goto(IF command = "serve" THEN "certs" ELSE "find_plan")
      PROVE  IInv'
  <2>1. /\ DOMAIN config' = Fields /\ \A g \in Fields : config'[g] \in Allowed[g]
        /\ Accepts(source'.raw) /\ config' = Configured(source'.raw)
        /\ source'.path = Resolve
    BY <1>2, Complete DEF Usable
  <2>2. Resolve' = Resolve
    BY <1>1 DEF Resolve
  <2>3. /\ step' = IF command = "serve" THEN "certs" ELSE "find_plan"
        /\ exit' = -1
        /\ lines' = IF command = "serve" THEN {} ELSE {Line("config", TRUE)}
    BY <1>1, <1>2 DEF Goto, Pass
  <2>4. TypeOK'
    <3>1. Line("config", TRUE) \in [check : Checks, ok : BOOLEAN]
      BY LineFields DEF Checks
    <3> QED BY <1>1, <2>1, <2>3, <3>1 DEF IInv, TypeOK, Steps
  <2>5. CommandInv' /\ ConfigInv' /\ PlanInv' /\ TlsInv'
    BY <1>1, <2>1, <2>2, <2>3 DEF IInv, CommandInv, ConfigInv, PlanInv, TlsInv,
       WithConfig, WithPlan, ServeOnly, HealthOnly
  <2>6. LinesInv'
    BY <1>1, <2>3 DEF LinesInv, LoadingPlan, ServeOnly
  <2>7. Failed' = {} /\ step' # "serving"
    BY <2>3 DEF Failed, Line
  <2> QED BY <2>3, <2>4, <2>5, <2>6, <2>7 DEF IInv, ExitMeans
<1>3. CASE Die /\ UNCHANGED <<config, source>>
  BY <1>1, <1>3, InvDie
<1>4. CASE Fail("config") /\ UNCHANGED <<config, source>>
  BY <1>1, <1>4, InvFail DEF Checks
<1> QED BY <1>2, <1>3, <1>4 DEF ReadConfig

LEMMA InvVerifyCertFiles == ASSUME IInv, VerifyCertFiles PROVE IInv'
<1>1. /\ step = "certs" /\ lines = {} /\ command = "serve"
      /\ UNCHANGED <<parse, command, given, config, source, tls>>
  BY DEF VerifyCertFiles, parseVars, IInv, LinesInv, CommandInv, ServeOnly
<1>2. CASE Goto("find_plan") /\ UNCHANGED lines
  <2>1. TypeOK' /\ CommandInv' /\ PlanInv' /\ TlsInv' /\ LinesInv'
    BY <1>1, <1>2 DEF IInv, TypeOK, Goto, Steps, CommandInv, PlanInv, TlsInv,
       LinesInv, WithPlan, LoadingPlan, ServeOnly, HealthOnly
  <2>2. ConfigInv'
    BY <1>1, <1>2 DEF IInv, ConfigInv, WithConfig, Resolve
  <2>3. ExitMeans'
    BY <1>1, <1>2, NothingSaid DEF Goto, Steps
  <2> QED BY <2>1, <2>2, <2>3 DEF IInv
<1>3. CASE Fail("mtls")
  BY <1>1, <1>3, InvFail DEF Checks
<1> QED BY <1>2, <1>3 DEF VerifyCertFiles

(* Another step that reports nothing and goes on. *)
LEMMA Onwards ==
  ASSUME IInv, step \in WithConfig, NEW s \in WithConfig, Goto(s),
         UNCHANGED <<command, given, config, source, lines, tls>>,
         s \in ServeOnly => command = "serve", s \in HealthOnly => command = "health",
         s \in WithPlan => parse' = "loaded",
         s \in {"bind", "serving"} => step \in {"bind", "serving"},
         LinesInv'
  PROVE  IInv'
<1>1. step' = s /\ exit' = exit /\ step # "exited" /\ s # "exited" /\ s \in Steps
  BY DEF Goto, WithConfig, Steps
<1>2. TypeOK' /\ CommandInv' /\ PlanInv'
  BY <1>1 DEF IInv, TypeOK, CommandInv, PlanInv
<1>3. ConfigInv'
  BY <1>1 DEF IInv, ConfigInv, Resolve
<1>4. TlsInv'
  BY <1>1 DEF IInv, TlsInv, MtlsOff, Listener
<1>5. ExitMeans'
  <2>1. s = "serving" => lines = {}
    BY <1>1 DEF LinesInv, ServeOnly
  <2> QED BY <1>1, <2>1, NothingSaid
<1> QED BY <1>2, <1>3, <1>4, <1>5 DEF IInv

LEMMA PlanUnreported ==
  ASSUME IInv, step \in LoadingPlan
  PROVE  Line("plan", TRUE) \notin lines
<1>1. lines = {} \/ lines = {Line("config", TRUE)}
  BY DEF IInv, LinesInv
<1>2. Line("plan", TRUE) # Line("config", TRUE)
  BY DEF Line
<1> QED BY <1>1, <1>2

LEMMA InvFindPlan == ASSUME IInv, FindPlan PROVE IInv'
<1>1. /\ step = "find_plan" /\ step \in LoadingPlan /\ step \in WithConfig
      /\ UNCHANGED <<parse, command, given, config, source, tls>>
  BY DEF FindPlan, parseVars, LoadingPlan, WithConfig
<1>2. CASE Goto("read_plan") /\ UNCHANGED lines
  <2>1. LinesInv'
    BY <1>1, <1>2 DEF IInv, LinesInv, Goto, LoadingPlan, ServeOnly
  <2>2. "read_plan" \in WithConfig \ (ServeOnly \cup HealthOnly \cup WithPlan)
    BY DEF WithConfig, WithPlan, ServeOnly, HealthOnly
  <2> QED BY <1>1, <1>2, <2>1, <2>2, Onwards
<1>3. CASE Fail("plan")
  BY <1>1, <1>3, PlanUnreported, InvFail DEF Checks
<1> QED BY <1>2, <1>3 DEF FindPlan

LEMMA InvReadPlan == ASSUME IInv, ReadPlan PROVE IInv'
<1>1. /\ step = "read_plan" /\ step \in LoadingPlan /\ step \in WithConfig
      /\ UNCHANGED <<command, given, config, source, tls>>
  BY DEF ReadPlan, LoadingPlan, WithConfig
<1>2. CASE Goto("parse") /\ UNCHANGED lines
  <2>1. LinesInv'
    BY <1>1, <1>2 DEF IInv, LinesInv, Goto, LoadingPlan, ServeOnly
  <2>2. "parse" \in WithConfig \ (ServeOnly \cup HealthOnly \cup WithPlan)
    BY DEF WithConfig, WithPlan, ServeOnly, HealthOnly
  <2> QED BY <1>1, <1>2, <2>1, <2>2, Onwards
<1>3. CASE Die
  BY <1>1, <1>3, InvDie
<1>4. CASE Fail("plan")
  BY <1>1, <1>4, PlanUnreported, InvFail DEF Checks
<1> QED BY <1>2, <1>3, <1>4 DEF ReadPlan

(* Parsing, and a stutter, leave the command where it is. *)
LEMMA InvWait == ASSUME IInv, UNCHANGED commandVars, step = "parse" \/ UNCHANGED parse
                 PROVE IInv'
<1>1. /\ UNCHANGED <<command, given, step, config, source, lines, tls, exit>>
      /\ step \in WithPlan => UNCHANGED parse
  BY DEF commandVars, WithPlan
<1>2. TypeOK' /\ CommandInv' /\ PlanInv' /\ LinesInv'
  BY <1>1 DEF IInv, TypeOK, CommandInv, PlanInv, LinesInv
<1>3. ConfigInv' /\ TlsInv'
  BY <1>1 DEF IInv, ConfigInv, Resolve, TlsInv, MtlsOff, Listener
<1>4. ExitMeans'
  BY <1>1 DEF IInv, ExitMeans, Failed, Passed, FailCode
<1> QED BY <1>2, <1>3, <1>4 DEF IInv

LEMMA InvPlanParsed == ASSUME IInv, PlanParsed PROVE IInv'
<1>1. /\ step = "parse" /\ step \in LoadingPlan /\ step \in WithConfig
      /\ UNCHANGED <<parse, command, given, config, source, tls>>
  BY DEF PlanParsed, parseVars, LoadingPlan, WithConfig
<1>2. CASE parse = "loaded" /\ Goto("stat_plan") /\ UNCHANGED lines
  <2>1. LinesInv'
    BY <1>1, <1>2 DEF IInv, LinesInv, Goto, LoadingPlan, ServeOnly
  <2>2. "stat_plan" \in WithConfig \ (ServeOnly \cup HealthOnly)
    BY DEF WithConfig, ServeOnly, HealthOnly
  <2> QED BY <1>1, <1>2, <2>1, <2>2, Onwards
<1>3. CASE Fail("plan")
  BY <1>1, <1>3, PlanUnreported, InvFail DEF Checks
<1> QED BY <1>2, <1>3 DEF PlanParsed

LEMMA InvStatPlan == ASSUME IInv, StatPlan PROVE IInv'
<1>1. /\ step = "stat_plan" /\ step \in LoadingPlan /\ step # "exited"
      /\ UNCHANGED <<parse, command, given, config, source, tls>>
      /\ parse = "loaded" /\ exit = -1
  BY DEF StatPlan, parseVars, LoadingPlan, IInv, PlanInv, WithPlan, TypeOK
<1>2. CASE Pass({"plan"}) /\ Goto(IF command = "serve" THEN "create" ELSE "ollama")
  <2>1. /\ lines = IF command = "serve" THEN {} ELSE {Line("config", TRUE)}
        /\ command \in {"serve", "health"}
    BY <1>1 DEF IInv, LinesInv, CommandInv
  <2>2. /\ step' = IF command = "serve" THEN "create" ELSE "ollama"
        /\ exit' = -1
        /\ lines' = IF command = "serve" THEN {}
                   ELSE {Line("config", TRUE), Line("plan", TRUE)}
    BY <1>1, <1>2, <2>1 DEF Goto, Pass
  <2>3. TypeOK'
    <3>1. /\ Line("config", TRUE) \in [check : Checks, ok : BOOLEAN]
          /\ Line("plan", TRUE) \in [check : Checks, ok : BOOLEAN]
      BY LineFields DEF Checks
    <3>2. lines' \subseteq [check : Checks, ok : BOOLEAN]
      BY <2>2, <3>1
    <3> QED BY <1>1, <2>2, <3>2 DEF IInv, TypeOK, Steps
  <2>4. CommandInv' /\ PlanInv'
    BY <1>1, <2>1, <2>2 DEF IInv, CommandInv, PlanInv, ServeOnly, HealthOnly
  <2>5. ConfigInv' /\ TlsInv'
    BY <1>1, <2>2 DEF IInv, ConfigInv, TlsInv, Resolve, WithConfig
  <2>6. LinesInv'
    BY <1>1, <2>1, <2>2 DEF LinesInv, LoadingPlan, ServeOnly
  <2>7. Failed' = {} /\ step' # "serving"
    <3>1. \A l \in lines' : l = Line("config", TRUE) \/ l = Line("plan", TRUE)
      BY <2>2
    <3>2. \A l \in lines' : l.ok
      BY <3>1, LineFields
    <3> QED BY <2>2, <3>2 DEF Failed
  <2> QED BY <2>2, <2>3, <2>4, <2>5, <2>6, <2>7 DEF IInv, ExitMeans
<1>3. CASE Fail("plan")
  BY <1>1, <1>3, PlanUnreported, InvFail DEF Checks
<1> QED BY <1>2, <1>3 DEF StatPlan

LEMMA InvCreateApp == ASSUME IInv, CreateApp PROVE IInv'
<1>1. /\ step = "create" /\ lines = {} /\ command = "serve" /\ parse = "loaded"
      /\ step \in WithConfig
      /\ UNCHANGED <<parse, command, given, config, source, tls>>
  BY DEF CreateApp, parseVars, IInv, LinesInv, CommandInv, PlanInv, ServeOnly,
         WithPlan, WithConfig
<1>2. CASE Goto("tls") /\ UNCHANGED lines
  <2>1. LinesInv'
    BY <1>1, <1>2 DEF LinesInv, Goto, LoadingPlan, ServeOnly
  <2>2. "tls" \in WithConfig \ HealthOnly
    BY DEF WithConfig, HealthOnly
  <2> QED BY <1>1, <1>2, <2>1, <2>2, Onwards
<1>3. CASE Die
  BY <1>1, <1>3, InvDie
<1> QED BY <1>2, <1>3 DEF CreateApp

(* The context that is pinned is the one that is served with. *)
LEMMA InvBuildUvicornConfig == ASSUME IInv, BuildUvicornConfig PROVE IInv'
<1>1. /\ step = "tls" /\ lines = {} /\ command = "serve" /\ parse = "loaded"
      /\ exit = -1 /\ Accepts(source.raw) /\ config = Configured(source.raw)
      /\ UNCHANGED <<parse, command, given, config, source>>
  BY DEF BuildUvicornConfig, parseVars, IInv, TypeOK, LinesInv, CommandInv, PlanInv,
         ConfigInv, ServeOnly, WithPlan, WithConfig
<1>2. CASE /\ tls' = (IF MtlsOff THEN NoTls ELSE Listener)
           /\ Goto("bind") /\ UNCHANGED lines
  <2>1. step' = "bind" /\ exit' = -1 /\ lines' = {}
    BY <1>1, <1>2 DEF Goto
  <2>2. MtlsOff' = MtlsOff /\ Listener' = Listener
    BY <1>1 DEF MtlsOff, Listener
  <2>3. TlsInv'
    BY <1>1, <1>2, <2>2, ListenerMade DEF TlsInv
  <2>4. TypeOK'
    BY <1>1, <2>1, <2>3 DEF IInv, TypeOK, TlsInv, Steps
  <2>5. CommandInv' /\ PlanInv' /\ LinesInv'
    BY <1>1, <2>1 DEF IInv, CommandInv, PlanInv, LinesInv, ServeOnly, HealthOnly, LoadingPlan
  <2>6. ConfigInv'
    BY <1>1, <2>1 DEF IInv, ConfigInv, Resolve, WithConfig
  <2>7. ExitMeans'
    BY <1>1, <2>1, NothingSaid DEF Steps
  <2> QED BY <2>3, <2>4, <2>5, <2>6, <2>7 DEF IInv
<1>3. CASE Die /\ UNCHANGED tls
  BY <1>1, <1>3, InvDie
<1> QED BY <1>2, <1>3 DEF BuildUvicornConfig

LEMMA InvBind == ASSUME IInv, Bind PROVE IInv'
<1>1. /\ step = "bind" /\ lines = {} /\ command = "serve" /\ parse = "loaded"
      /\ step \in WithConfig
      /\ UNCHANGED <<parse, command, given, config, source, tls>>
  BY DEF Bind, parseVars, IInv, LinesInv, CommandInv, PlanInv, ServeOnly,
         WithPlan, WithConfig
<1>2. CASE Goto("serving") /\ UNCHANGED lines
  <2>1. LinesInv'
    BY <1>1, <1>2 DEF LinesInv, Goto, LoadingPlan, ServeOnly
  <2>2. "serving" \in WithConfig \ HealthOnly
    BY DEF WithConfig, HealthOnly
  <2> QED BY <1>1, <1>2, <2>1, <2>2, Onwards
<1>3. CASE Die
  BY <1>1, <1>3, InvDie
<1> QED BY <1>2, <1>3 DEF Bind

LEMMA InvCheckOllama == ASSUME IInv, CheckOllama PROVE IInv'
<1>1. /\ step = "ollama" /\ command = "health" /\ parse = "loaded" /\ exit = -1
      /\ lines = {Line("config", TRUE), Line("plan", TRUE)}
      /\ UNCHANGED <<parse, command, given, config, source, tls>>
  BY DEF CheckOllama, parseVars, IInv, TypeOK, LinesInv, CommandInv, PlanInv,
         HealthOnly, WithPlan
<1>2. ASSUME NEW ok \in BOOLEAN, lines' = lines \cup {Line("ollama", ok)}, Goto("qdrant")
      PROVE  IInv'
  <2>1. /\ step' = "qdrant" /\ exit' = -1
        /\ lines' = {Line("config", TRUE), Line("plan", TRUE), Line("ollama", ok)}
    BY <1>1, <1>2 DEF Goto
  <2>2. TypeOK'
    <3>1. {"config", "plan", "ollama"} \subseteq Checks
      BY DEF Checks
    <3>2. /\ Line("config", TRUE) \in [check : Checks, ok : BOOLEAN]
          /\ Line("plan", TRUE) \in [check : Checks, ok : BOOLEAN]
          /\ Line("ollama", ok) \in [check : Checks, ok : BOOLEAN]
      BY <3>1, LineFields
    <3>3. lines' \subseteq [check : Checks, ok : BOOLEAN]
      BY <2>1, <3>2
    <3> QED BY <1>1, <2>1, <3>3 DEF IInv, TypeOK, Steps
  <2>3. CommandInv' /\ PlanInv'
    BY <1>1, <2>1 DEF IInv, CommandInv, PlanInv, ServeOnly
  <2>4. ConfigInv' /\ TlsInv'
    BY <1>1, <2>1 DEF IInv, ConfigInv, TlsInv, Resolve, WithConfig
  <2>5. LinesInv'
    BY <2>1 DEF LinesInv, LoadingPlan, ServeOnly
  <2>6. Failed' \cap Passed' = {}
    <3> DEFINE a == Line("config", TRUE)  b == Line("plan", TRUE)  c == Line("ollama", ok)
    <3>2. a.check = "config" /\ b.check = "plan" /\ c.check = "ollama"
      BY LineFields
    <3>3. lines' = {a, b, c}
      BY <2>1
    <3> HIDE DEF a, b, c
    <3>1. ASSUME NEW l \in lines', NEW m \in lines', l.check = m.check PROVE l = m
      BY <3>1, <3>2, <3>3
    <3> QED BY <3>1 DEF Failed, Passed
  <2> QED BY <2>1, <2>2, <2>3, <2>4, <2>5, <2>6 DEF IInv, ExitMeans
<1>3. CASE Die
  BY <1>1, <1>3, InvDie
<1>4. ASSUME NEW reply \in TagsReplies,
             lines' = lines \cup {Line("ollama", Healthy(OllamaStatus(reply)))},
             Goto("qdrant")
      PROVE  IInv'
  <2>1. Healthy(OllamaStatus(reply)) \in BOOLEAN
    BY DEF Healthy, OllamaStatus, Status
  <2> QED BY <1>2, <1>4, <2>1
<1> QED BY <1>3, <1>4 DEF CheckOllama, Probe

(* The exit code of health counts both probes. *)
LEMMA InvCheckQdrant == ASSUME IInv, CheckQdrant PROVE IInv'
<1>1. /\ step = "qdrant" /\ command = "health"
      /\ UNCHANGED <<parse, command, given, config, source, tls>>
  BY DEF CheckQdrant, parseVars, IInv, CommandInv, HealthOnly
<1>2. PICK known \in BOOLEAN :
        lines = {Line("config", TRUE), Line("plan", TRUE), Line("ollama", known)}
  BY <1>1 DEF IInv, LinesInv
<1>3. Line("ollama", TRUE) \in lines <=> known
  <2> DEFINE a == Line("config", TRUE)  b == Line("plan", TRUE)  c == Line("ollama", known)
             d == Line("ollama", TRUE)
  <2>1. /\ a.check = "config" /\ b.check = "plan" /\ d.check = "ollama"
        /\ c.ok = known /\ d.ok = TRUE
    BY LineFields
  <2>2. lines = {a, b, c} /\ (known => c = d)
    BY <1>2
  <2> HIDE DEF a, b, c, d
  <2>3. d \in lines <=> known
    BY <2>1, <2>2
  <2> QED BY <2>3 DEF d
<1>4. ASSUME NEW reply \in CollectionReplies,
             lines' = lines \cup QdrantLines(QdrantStatus(reply)),
             Exit(Verdict(Healthy(QdrantStatus(reply))))
      PROVE  IInv'
  <2> DEFINE status == QdrantStatus(reply)
  <2>1. /\ status.reachable \in BOOLEAN /\ status.present \in BOOLEAN
        /\ Healthy(status) <=> status.reachable /\ status.present
        /\ status.present => status.reachable
    BY DEF QdrantStatus, Status, Healthy
  <2>2. /\ step' = "exited" /\ FailCode' = 2
        /\ exit' = IF known /\ Healthy(status) THEN 0 ELSE 2
    BY <1>1, <1>3, <1>4 DEF Exit, Verdict, FailCode
  <2> HIDE DEF status
  <2> DEFINE a == Line("config", TRUE)  b == Line("plan", TRUE)
             c == Line("ollama", known)  d == Line("qdrant.connect", status.reachable)
             e == Line("qdrant.collection", status.present)
  <2>3. lines' = {a, b, c, d} \cup IF status.reachable THEN {e} ELSE {}
    BY <1>2, <1>4 DEF QdrantLines, status
  <2>4. TypeOK'
    <3>1. {"config", "plan", "ollama", "qdrant.connect", "qdrant.collection"} \subseteq Checks
      BY DEF Checks
    <3>2. {a, b, c, d, e} \subseteq [check : Checks, ok : BOOLEAN]
      BY <2>1, <3>1, LineFields
    <3> HIDE DEF a, b, c, d, e
    <3>3. lines' \subseteq [check : Checks, ok : BOOLEAN]
      BY <2>3, <3>2
    <3> QED BY <1>1, <2>2, <3>3 DEF IInv, TypeOK, Steps
  <2>5. CommandInv' /\ ConfigInv' /\ PlanInv' /\ TlsInv' /\ LinesInv'
    BY <1>1, <2>2 DEF IInv, CommandInv, ConfigInv, PlanInv, TlsInv, LinesInv,
       WithConfig, WithPlan, LoadingPlan, ServeOnly, HealthOnly
  <2>6. /\ a.check = "config" /\ b.check = "plan" /\ c.check = "ollama"
        /\ d.check = "qdrant.connect" /\ e.check = "qdrant.collection"
        /\ a.ok = TRUE /\ b.ok = TRUE /\ c.ok = known
        /\ d.ok = status.reachable /\ e.ok = status.present
    BY LineFields
  <2> HIDE DEF a, b, c, d, e
  <2>7. Failed' \cap Passed' = {}
    <3>1. ASSUME NEW l \in lines', NEW m \in lines', l.check = m.check PROVE l = m
      BY <2>3, <2>6, <3>1
    <3> QED BY <3>1 DEF Failed, Passed
  <2>8. CASE known /\ Healthy(status)
    <3>1. lines' = {a, b, c, d, e} /\ \A l \in lines' : l.ok
      BY <2>1, <2>3, <2>6, <2>8
    <3>2. Failed' = {} /\ Passed' = {l.check : l \in lines'}
      BY <3>1 DEF Failed, Passed
    <3>3. Passed' = Checks \ {"mtls"}
      BY <2>6, <3>1, <3>2 DEF Checks
    <3> QED BY <1>1, <2>2, <2>4, <2>5, <2>7, <2>8, <3>2, <3>3 DEF IInv, ExitMeans
  <2>9. CASE ~(known /\ Healthy(status))
    <3>1. \E l \in lines' : ~l.ok
      BY <2>1, <2>3, <2>6, <2>9
    <3>2. Failed' # {}
      BY <3>1 DEF Failed
    <3> QED BY <2>2, <2>4, <2>5, <2>7, <2>9, <3>2 DEF IInv, ExitMeans
  <2> QED BY <2>8, <2>9
<1>5. CASE Die
  BY <1>1, <1>5, InvDie
<1> QED BY <1>4, <1>5 DEF CheckQdrant, Probe

LEMMA InvInit == Init => IInv
<1> SUFFICES ASSUME Init PROVE IInv
  OBVIOUS
<1>1. TypeOK
  BY DEF Init, TypeOK, Steps
<1>2. CommandInv /\ ConfigInv /\ PlanInv /\ TlsInv /\ LinesInv
  BY DEF Init, CommandInv, ConfigInv, PlanInv, TlsInv, LinesInv, WithConfig, WithPlan,
         LoadingPlan, ServeOnly, HealthOnly
<1>3. ExitMeans
  BY DEF Init, ExitMeans, Failed, Passed
<1> QED BY <1>1, <1>2, <1>3 DEF IInv

LEMMA InvStep == IInv /\ [Next]_vars => IInv'
<1> SUFFICES ASSUME IInv, [Next]_vars PROVE IInv'
  OBVIOUS
<1>1. CASE FindConfig \/ ReadConfig \/ VerifyCertFiles
  BY <1>1, InvFindConfig, InvReadConfig, InvVerifyCertFiles
<1>2. CASE FindPlan \/ ReadPlan \/ PlanParsed \/ StatPlan
  BY <1>2, InvFindPlan, InvReadPlan, InvPlanParsed, InvStatPlan
<1>3. CASE ParsePlan \/ UNCHANGED vars
  BY <1>3, InvWait DEF ParsePlan, vars, parseVars
<1>4. CASE CreateApp \/ BuildUvicornConfig \/ Bind
  BY <1>4, InvCreateApp, InvBuildUvicornConfig, InvBind
<1>5. CASE CheckOllama \/ CheckQdrant
  BY <1>5, InvCheckOllama, InvCheckQdrant
<1> QED BY <1>1, <1>2, <1>3, <1>4, <1>5 DEF Next

THEOREM Invariance == Spec => []IInv
BY InvInit, InvStep, PTL DEF Spec

-----------------------------------------------------------------------------
(* What the invariant says to the operator.                                *)

(* Every field of the command keeps to its type. *)
THEOREM TypeCorrect == Spec => []TypeOK
<1>1. IInv => TypeOK
  BY DEF IInv
<1> QED BY <1>1, Invariance, PTL

(* The path that resolve_config_path takes is the one the operator named. *)
LEMMA NamedIsResolved ==
  ASSUME CommandInv PROVE Named = Resolve
<1> DEFINE Is(p) == \/ p = "--config" /\ p \in given
                    \/ p = "DPROX_CONFIG" /\ given = {p}
                    \/ p = "/etc/dprox/config.yml" /\ given = {}
<1>1. Resolve \in Paths /\ Is(Resolve)
  <2>1. CASE "--config" \in given
    BY <2>1 DEF Resolve, Paths
  <2>2. CASE "--config" \notin given /\ "DPROX_CONFIG" \in given
    <3>1. given = {"DPROX_CONFIG"}
      BY <2>2 DEF CommandInv
    <3> QED BY <2>2, <3>1 DEF Resolve, Paths
  <2>3. CASE "--config" \notin given /\ "DPROX_CONFIG" \notin given
    <3>1. given = {}
      BY <2>3 DEF CommandInv
    <3> QED BY <2>3, <3>1 DEF Resolve, Paths
  <2> QED BY <2>1, <2>2, <2>3
<1>2. \A p \in Paths : Is(p) => p = Resolve
  BY DEF Paths, Resolve, CommandInv
<1> HIDE DEF Is
<1>3. (CHOOSE p \in Paths : Is(p)) = Resolve
  BY <1>1, <1>2
<1> QED BY <1>3 DEF Named, Is

(* A server listens only with the configuration of the one place named, an
   acceptable plan loaded whole, limits it can use, and TLS 1.3 with client
   certificates unless the file says otherwise in as many words.           *)
THEOREM ListensAsConfigured == Spec => []ServesAsConfigured
<1>1. ASSUME IInv, ParseExact, step = "serving"
      PROVE  ServesAsConfigured
  <2>1. /\ source.path = Resolve /\ Accepts(source.raw)
        /\ config = Configured(source.raw) /\ parse = "loaded"
        /\ tls = IF MtlsOff THEN NoTls ELSE Listener
    BY <1>1 DEF IInv, ConfigInv, PlanInv, TlsInv, WithConfig, WithPlan
  <2>2. source.path = Named
    BY <1>1, <2>1, NamedIsResolved DEF IInv
  <2>3. Acceptable(doc) /\ Holds(out, doc, Len(All(doc)))
    BY <1>1, <2>1 DEF ParseExact
  <2>4. config.default_limit \in 1 .. config.max_limit
    BY <2>1, LimitsFit
  <2>5. \A f \in {"client_cert_mode", "tls_min_version", "tls_pin_enabled"} :
          /\ f \in DOMAIN source.raw => config[f] = source.raw[f]
          /\ f \notin DOMAIN source.raw => config[f] = Defaults[f]
          /\ config[f] \in Allowed[f]
    BY <2>1, AsSaid, Complete, Constraints
  <2>6. ~MtlsOff => Listener # NoTls
    BY <2>1, ListenerMade
  <2>7. tls = NoTls <=> Says("client_cert_mode", "off")
    <3>1. tls = NoTls <=> config["client_cert_mode"] = "off"
      BY <2>1, <2>6 DEF MtlsOff
    <3> QED BY <2>5, <3>1, Strict DEF Says
  <2>8. ASSUME tls # NoTls
        PROVE  /\ tls.clients = "required" <=> Says("client_cert_mode", "required")
               /\ tls.min = "TLSv1.3" \/ Says("tls_pin_enabled", FALSE)
                    \/ (Says("tls_min_version", "TLSv1.2") /\ tls.min = "TLSv1.2")
    <3>1. /\ tls.clients = config["client_cert_mode"]
          /\ tls.min = IF config["tls_pin_enabled"] THEN config["tls_min_version"]
                      ELSE "library"
      BY <2>1, <2>8 DEF Listener
    <3>2. tls.clients = "required" <=> Says("client_cert_mode", "required")
      BY <2>5, <3>1, Strict DEF Says
    <3>3. CASE config["tls_pin_enabled"] = TRUE
      <4>1. config["tls_min_version"] \in {"TLSv1.2", "TLSv1.3"}
        BY <2>5, Constraints
      <4>2. config["tls_min_version"] = "TLSv1.2" => Says("tls_min_version", "TLSv1.2")
        BY <2>5, Strict DEF Says
      <4> QED BY <3>1, <3>2, <3>3, <4>1, <4>2
    <3>4. CASE config["tls_pin_enabled"] = FALSE
      BY <2>5, <3>2, <3>4, Strict DEF Says
    <3>5. config["tls_pin_enabled"] \in BOOLEAN
      BY <2>5, Constraints
    <3> QED BY <3>3, <3>4, <3>5
  <2> QED BY <2>2, <2>3, <2>4, <2>7, <2>8 DEF ServesAsConfigured
<1>2. IInv /\ ParseExact => ServesAsConfigured
  BY <1>1 DEF ServesAsConfigured
<1> QED BY <1>2, Invariance, CommandParsesExactly, PTL

(* Exit 0 is health with every check passed, 2 and 3 are a failure reported
   by the command that has the code, and no check is reported twice with
   different results.                                                      *)
THEOREM ExitCodesMean == Spec => []ExitMeans
<1>1. IInv => ExitMeans
  BY DEF IInv
<1> QED BY <1>1, Invariance, PTL

=============================================================================
