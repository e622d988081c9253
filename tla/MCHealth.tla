-------------------------------- MODULE MCHealth --------------------------------
(***************************************************************************)
(* Answers of each kind the code tells apart, for each query those that    *)
(* matter to its check, and combinations in which two of the code's        *)
(* conditions hold at once.                                                *)
(***************************************************************************)
EXTENDS Health

Fine == [http |-> "fine", body |-> "object", data |-> "some", list |-> TRUE,
         errors |-> {}, says |-> "nothing"]
Attention == [Fine EXCEPT !.says = "attention"]
Critical == [Fine EXCEPT !.says = "critical"]
Partly(r) == [r EXCEPT !.errors = {"plain"}]
Null == [Fine EXCEPT !.data = "null"]
Empty == [Fine EXCEPT !.data = "empty"]
PlainError == [Null EXCEPT !.errors = {"plain"}]
Forbidden == [Null EXCEPT !.data = "absent", !.errors = {"plain", "permission"}]
NoSuchField == [Null EXCEPT !.http = "rejected", !.data = "absent", !.errors = {"unsupported"}]
Denied == [Fine EXCEPT !.http = "denied", !.body = "text"]
Unreachable == [Fine EXCEPT !.http = "unreachable"]
ServerError == [Fine EXCEPT !.http = "failed", !.body = "json"]
Malformed == [Fine EXCEPT !.list = FALSE]

MCResponses ==
  [q \in Queries \cup {"config"} |->
     CASE q = "array" -> {Fine, Critical, Partly(Critical), Partly(Fine), Null, PlainError,
                          Denied, Malformed}
       [] q = "ups" -> {Fine, Partly(Attention), Empty, PlainError, Forbidden, NoSuchField,
                        Denied, ServerError}
       [] q = "notifications" -> {Fine, Attention, Partly(Fine), Forbidden, Denied}
       [] q = "alerts" -> {Fine, Attention, NoSuchField, Denied}
       [] q = "temperature" -> {Fine, Critical, Null, NoSuchField, Unreachable}
       [] q = "config" -> {Fine, [Fine EXCEPT !.says = "enable"], Partly(Fine), Null,
                           PlainError, Denied, Unreachable}]
=============================================================================
