------------------------------- MODULE HttpGate -------------------------------
(***************************************************************************)
(* Starting over HTTP and who gets in: the settings (config.py), the       *)
(* bearer token (cli.py), and the layers a request passes on its way to    *)
(* the MCP SDK: health.py, origin.py, auth.py and the SDK's check of Host, *)
(* which server.py switches on.                                            *)
(*                                                                         *)
(* A header is the sequence of its values.  An origin is "", a listed one  *)
(* (a pattern for its ports included) or a foreign one.                    *)
(***************************************************************************)
EXTENDS Naturals, Sequences

CONSTANT Generated   \* the tokens secrets.token_urlsafe gives, in turn

Tokens == {"configured"} \cup {Generated[i] : i \in DOMAIN Generated}
ASSUME GeneratedType ==
  /\ Generated \in Seq(STRING)
  /\ \A i \in DOMAIN Generated : Generated[i] \notin {"unset", "configured", "weak", "wrong"}

-----------------------------------------------------------------------------
(* load_settings: the URL and the key, and a token if there is one, have to *)
(* be usable; "weak" is blank but for spaces, short, or a placeholder.      *)
Loads(s) == s.api = "valid" /\ s.bearer # "weak"

(* _with_bearer_token: who binds another address has to configure one.      *)
Refuses(s) == s.http /\ s.bearer = "unset" /\ ~s.localhost

Generates(s) == s.http /\ s.bearer = "unset"

(* The drawn tokens are used up; how many more it takes.                    *)
WithBearerToken(s, drawn) ==
  IF Generates(s) THEN [s EXCEPT !.bearer = Generated[drawn + 1]] ELSE s
Drawn(s) == IF Generates(s) THEN 1 ELSE 0

-----------------------------------------------------------------------------
(* HealthCheckMiddleware                                                    *)
IsProbe(r) == r.type = "http" /\ r.what = "GET /health"

(* OriginValidationMiddleware: empty values are none; two are too many.     *)
Origins(r) == {i \in DOMAIN r.origin : r.origin[i] # ""}
OriginRejected(r) ==
  ~ \/ Origins(r) = {}
    \/ \E i \in DOMAIN r.origin : Origins(r) = {i} /\ r.origin[i] = "listed"

(* Mutant: the token may be one of several Authorization headers.           *)
Authorized_AnyHeader(r, token) ==
  r.type = "http" /\ \E i \in DOMAIN r.authorization : r.authorization[i] = token

(* StaticBearerAuthMiddleware: exactly one header, and no websocket.        *)
Authorized(r, token) == r.type = "http" /\ r.authorization = <<token>>

(* _transport_security: on localhost, or where hosts are listed.            *)
HostRejected(s, r) == (s.localhost \/ s.hosts) /\ r.host = "foreign"

(* _build_http_app: the layers from outside in.                             *)
Answer(s, token, r) ==
  IF IsProbe(r) THEN "alive"
  ELSE IF OriginRejected(r) THEN "forbidden"
  ELSE IF ~Authorized(r, token) THEN "unauthorized"
  ELSE IF HostRejected(s, r) THEN "misdirected"
  ELSE "served"
=============================================================================
