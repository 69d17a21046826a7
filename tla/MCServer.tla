------------------------------ MODULE MCServer ------------------------------
(***************************************************************************)
(* Small instances of Server.                                              *)
(***************************************************************************)
EXTENDS Server, TLC

CONSTANTS r1, r2, c1, c2, e1, e2, e3, g1, g2, k1, k2, k3, k4, k5

(* The first plan gives c1 one group and c2, known, none; the second moves
   c1 to the other group and drops c2.                                     *)
MCPlanDocs == {(c1 :> e1) @@ (c2 :> e3), c1 :> e2}
MCGroupsOf == (e1 :> {g1}) @@ (e2 :> {g2}) @@ (e3 :> {})

(* Good points of each group, one without a text and one that lists both. *)
Payload(groups, single, text) == [groups |-> groups, single |-> single, text |-> text]
MCPayloadOf ==
  (k1 :> Payload({g1}, TRUE, TRUE)) @@ (k2 :> Payload({g2}, TRUE, TRUE))
    @@ (k3 :> Payload({g1, g2}, FALSE, TRUE)) @@ (k4 :> Payload({g1}, TRUE, FALSE))
    @@ (k5 :> Payload({g1}, TRUE, TRUE))

Cert(usage, names) ==
  [loads |-> TRUE, readable |-> TRUE, subject |-> TRUE, usages |-> {usage}, names |-> names]
Client(c) == Cert("clientAuth", <<c>>)

Call(cert, body, limit) == [cert |-> cert, body |-> body, limit |-> limit]

(* The good certificates with each body that is told apart, and a limit that
   is absent, inside the range and on either side of it.                   *)
GoodCalls ==
  {Call(Client(c1), "accepted", NoLimit), Call(Client(c1), "accepted", 0),
   Call(Client(c1), "accepted", 3), Call(Client(c2), "accepted", 2),
   Call(Client(c2), "rejected", NoLimit)}

(* None, the server's own certificate, two names, a name that is no text,
   an unreadable extension, an unreadable subject, garbage.                *)
BadCerts ==
  {NoCert, Cert("serverAuth", <<c1>>), Cert("clientAuth", <<c1, c2>>),
   Cert("clientAuth", <<NotText>>),
   [Client(c1) EXCEPT !.readable = FALSE],
   [Client(c1) EXCEPT !.subject = FALSE], [Client(c1) EXCEPT !.loads = FALSE]}

MCCalls ==
  GoodCalls \cup {Call(cert, "accepted", NoLimit) : cert \in BadCerts}
    \cup {Call(NoCert, "not_json", NoLimit)}
(* One for each way a request can end. *)
MCFewCalls ==
  {Call(Client(c1), "accepted", NoLimit), Call(Client(c1), "accepted", 0),
   Call(Client(c2), "accepted", NoLimit), Call(Client(c2), "rejected", NoLimit),
   Call([Client(c1) EXCEPT !.readable = FALSE], "accepted", NoLimit),
   Call(NoCert, "accepted", NoLimit), Call(NoCert, "not_json", NoLimit)}
MCOpenCalls == {Call(NoCert, body, NoLimit) : body \in Bodies}

Logging(level, text) == [level |-> level, log_query_text |-> text]
MCLogAll == {Logging(2, FALSE), Logging(1, TRUE)}
MCLogInfo == {Logging(2, FALSE)}
MCLogText == {Logging(2, TRUE)}

Symmetry == Permutations(Requests)

=============================================================================
