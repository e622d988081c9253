-------------------------------- MODULE GraphQL --------------------------------
(***************************************************************************)
(* How UnraidClient (client.py) reads one response of the Unraid API, and  *)
(* the questions tools/_base.py asks of a GraphQL error.  A response is    *)
(* reduced to what the code tells apart; the queries have one root field.  *)
(***************************************************************************)

Errors == {"plain", "permission", "unsupported"}

(* http: no answer and redirects, 401/403, 5xx, any other 4xx, 2xx.          *)
(* data: absent or null, not an object, {}, its root field null, usable.    *)
(* list: errors is absent, null or a list; errors: what kinds are in it.    *)
(* says: what usable data reports.                                          *)
Response == [http : {"unreachable", "redirect", "denied", "failed", "rejected", "fine"},
             body : {"text", "json", "object"},
             data : {"absent", "wrong", "empty", "null", "some"},
             list : BOOLEAN,
             errors : SUBSET Errors,
             says : {"nothing", "attention", "critical", "enable"}]

(* _has_graphql_errors                                                      *)
HasErrors(r) == r.body = "object" /\ r.list /\ r.errors # {}

Unreached(r) == r.http \in {"unreachable", "redirect"}

(* An answer that is no GraphQL response.                                   *)
Invalid(r) ==
  \/ r.http = "failed"
  \/ r.http = "rejected" /\ ~HasErrors(r)
  \/ r.body # "object" \/ r.data = "wrong" \/ ~r.list

(* Errors with nothing beside them; a rejected request has no partial data. *)
ErrorsOnly(r) ==
  r.errors # {} /\ (r.http = "rejected" \/ r.data # "some")

(* _execute: data, or the class of the exception it raises.                 *)
Kind(r) ==
  IF Unreached(r) THEN "connection"
  ELSE IF r.http = "denied" THEN "auth"
  ELSE IF Invalid(r) THEN "server"
  ELSE IF ErrorsOnly(r) THEN "graphql"
  ELSE "data"

IsPermissionError(r) == "permission" \in r.errors
UnsupportedFieldError(r) == "unsupported" \in r.errors
=============================================================================
