-------------------------------- MODULE Mtls --------------------------------
(***************************************************************************)
(* Client certificates as src/dprox/mtls.py judges them.                   *)
(***************************************************************************)
EXTENDS Integers, Sequences

CONSTANTS
  CNs,      \* common names that are text
  NotText,  \* a common name that the library returns as bytes
  NoCert    \* what is in the scope without TLS or without a certificate

(* A certificate by what the checks can see of it: whether the DER loads,
   whether its extensions and its subject can be read (the library parses
   each at the first access, the extensions all at once), its extended key
   usages, none for no such extension, and its common names.               *)
Certificates ==
  [loads : BOOLEAN, readable : BOOLEAN, subject : BOOLEAN,
   usages : SUBSET {"clientAuth", "serverAuth"}, names : Seq(CNs \cup {NotText})]

OneTextName(cert) == Len(cert.names) = 1 /\ cert.names[1] # NotText

(* Definitions marked "Slip" are plausible bugs in the definition that
   follows; nothing uses them.                                             *)

(* Slip: any certificate of the CA will do. *)
VerdictAnyUsage(cert) ==
  IF cert = NoCert THEN "auth_required"
  ELSE IF ~cert.loads THEN "cert_invalid"
  ELSE IF ~cert.subject THEN "raised"
  ELSE IF OneTextName(cert) THEN "verified" ELSE "cn_unparseable"

(* validate_client_cert: its checks in order.  An extension or a subject
   that cannot be read raises what is not caught and is no AuthFailure.    *)
Verdict(cert) ==
  IF cert = NoCert THEN "auth_required"
  ELSE IF ~cert.loads THEN "cert_invalid"
  ELSE IF ~cert.readable THEN "raised"
  ELSE IF "clientAuth" \notin cert.usages THEN "cert_invalid"
  ELSE IF ~cert.subject THEN "raised"
  ELSE IF OneTextName(cert) THEN "verified" ELSE "cn_unparseable"

(* Its AuthFailure codes, and audit_reason_for_auth_failure. *)
AuthCodes == {"auth_required", "cert_invalid", "cn_unparseable"}
Reason(code) == IF code = "auth_required" THEN "no_client_cert" ELSE code

(* The CN of a verified certificate, byte for byte. *)
NameOf(cert) == cert.names[1]

=============================================================================
