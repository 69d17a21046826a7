------------------------------ MODULE Upstreams ------------------------------
(***************************************************************************)
(* How src/dprox/ollama.py and src/dprox/qdrant.py classify what the two   *)
(* services reply: one word per kind of reply that a check of the code     *)
(* tells from the others.                                                  *)
(***************************************************************************)

Outcomes == {"ok", "timeout", "unavailable", "raised"}

(* POST /api/embeddings: no reply in time, no connection, a status that is
   not 200, and of a 200 a body that is no JSON, no object, without a
   vector, with one that holds something else than numbers, an integer no
   float can hold, the wrong dimension, or a good one.                     *)
EmbedReplies ==
  {"timeout", "network", "status", "not_json", "not_object", "no_vector",
   "not_numbers", "huge_integer", "wrong_dim", "vector"}

(* OllamaClient.embed: .get on what is no object and float() of a huge
   integer raise what nobody catches.                                      *)
EmbedOutcome(reply) ==
  CASE reply = "vector" -> "ok"
    [] reply = "timeout" -> "timeout"
    [] reply \in {"not_object", "huge_integer"} -> "raised"
    [] OTHER -> "unavailable"

(* A point of the collection: the classification groups in its payload,
   whether they are one non-empty string or a list (the filter matches
   both), and whether it has a text.                                       *)
Payloads(groups) ==
  {p \in [groups : SUBSET groups, single : BOOLEAN, text : BOOLEAN] :
     p.single => \E g \in groups : p.groups = {g}}

(* _point_to_hit accepts it. *)
Convertible(payload) == payload.single /\ payload.text

(* The filter of build_classification_filter, MatchAny. *)
Matches(payload, groups) == payload.groups \cap groups # {}

(* query_points: failures, beside the points it returns. *)
SearchFailures == {"timeout", "status", "handling", "network", "no_points"}

(* QdrantClient.search of a failure and of a list of points, which one bad
   point spoils.                                                           *)
FailureOutcome(reply) == IF reply = "timeout" THEN "timeout" ELSE "unavailable"
PointsOutcome(payloads) ==
  IF \A p \in payloads : Convertible(p) THEN "ok" ELSE "unavailable"

-----------------------------------------------------------------------------
(* The health probes.  GET /api/tags as EmbedReplies, then a "models" that
   cannot be iterated over, one without the model and one with it; the
   collection's information, then one with the right vector size.          *)
TagsReplies ==
  {"timeout", "network", "status", "not_json", "not_iterable", "no_model", "model"}
CollectionReplies ==
  {"timeout", "network", "status", "not_found", "no_size", "wrong_dim", "right_dim"}

Status(reachable, present) == [reachable |-> reachable, present |-> present]

(* OllamaClient.check_health; it raises on a "models" it cannot iterate. *)
TagsRaise(reply) == reply = "not_iterable"
OllamaStatus(reply) ==
  Status(reply \in {"not_json", "no_model", "model"}, reply = "model")

(* QdrantClient.check_health; present is collection_exists and
   vector_dim_matches.                                                     *)
QdrantStatus(reply) ==
  Status(reply \in {"not_found", "no_size", "wrong_dim", "right_dim"},
         reply = "right_dim")

=============================================================================
