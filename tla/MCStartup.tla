----------------------------- MODULE MCStartup -----------------------------
(***************************************************************************)
(* Small instances of Startup.                                             *)
(***************************************************************************)
EXTENDS Startup, TLC

CONSTANTS a, aBlank, b, empty, malformed

(* Two names, one of them also with a blank, and groups of the same kind. *)
MCTexts == {a, aBlank, b, empty}
MCStrip == (aBlank :> a) @@ [t \in MCTexts |-> t]

RawEntry(name, groups) == [name |-> name, groups |-> groups]
SomeEntries == {RawEntry(a, {b}), RawEntry(aBlank, {b, aBlank}), RawEntry(b, {}),
                RawEntry(empty, {}), malformed}
ListsTo(n) == UNION {[1 .. k -> SomeEntries] : k \in 0 .. n}

(* Every document with up to two entries in each list, and a few. *)
MCPlanTexts == [agents : ListsTo(2), admins : ListsTo(2)]
MCFewPlans == {[agents |-> <<RawEntry(a, {b})>>, admins |-> <<>>]}

Full ==
  [org |-> "text", bind_host |-> "text", bind_port |-> 8443,
   request_timeout_seconds |-> 30, max_request_body_bytes |-> 65536,
   client_cert_mode |-> "required", tls_min_version |-> "TLSv1.2",
   tls_pin_enabled |-> TRUE, reload_min_interval_seconds |-> 0,
   endpoint |-> "text", model |-> "text", vector_dim |-> 768, embedding_timeout |-> 10,
   url |-> "text", api_key_env |-> "text", collection |-> "text",
   default_limit |-> 5, max_limit |-> 5, qdrant_timeout |-> 10, level |-> "INFO"]
Without(raw, fields) == [f \in DOMAIN raw \ fields |-> raw[f]]
Minimal == Without(Full, DOMAIN Defaults)

(* With all fields, with the fewest, with the strict choices undone, with a
   URL that is none, and five that are refused.                            *)
MCRawConfigs ==
  {Full, Minimal,
   [Full EXCEPT !.client_cert_mode = "off"], [Full EXCEPT !.tls_pin_enabled = FALSE],
   [Full EXCEPT !.url = "no_url"], [Full EXCEPT !.endpoint = "no_url"],
   [Full EXCEPT !.default_limit = 6], [Full EXCEPT !.default_limit = 0],
   [Full EXCEPT !.bind_port = 65536],
   Without(Full, {"org"}), Minimal @@ ("client_cert_modes" :> "required")}

=============================================================================
