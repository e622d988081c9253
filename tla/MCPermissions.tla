----------------------------- MODULE MCPermissions -----------------------------
(***************************************************************************)
(* All tools and flags; no list or one of two: tools of every tier, and    *)
(* one with a name that is no tool's; stdio, localhost with a generated     *)
(* token, another address with a configured one, and settings that are not  *)
(* accepted.  Requests with each token, a wrong one, none or two, from      *)
(* origins and to hosts that are known and foreign ones.                    *)
(***************************************************************************)
EXTENDS Permissions

M(api, http, localhost, hosts, bearer) ==
  [api |-> api, http |-> http, localhost |-> localhost, hosts |-> hosts, bearer |-> bearer]
Modes ==
  {M("valid", FALSE, TRUE, FALSE, "unset"), M("valid", TRUE, TRUE, FALSE, "unset"),
   M("valid", TRUE, TRUE, FALSE, "configured"), M("valid", TRUE, FALSE, TRUE, "configured"),
   M("valid", TRUE, FALSE, FALSE, "unset"),
   M("valid", TRUE, TRUE, FALSE, "weak"), M("invalid", TRUE, TRUE, FALSE, "configured")}
MCLists == {NoFilter, {"run_graphql_query", "remove_docker_container", "stop_vm", "list_vms"},
            {"whoami", "stop_vm", "no_such_tool"}}
MCEnvironments ==
  {[api |-> m.api, http |-> m.http, localhost |-> m.localhost, hosts |-> m.hosts,
    bearer |-> m.bearer, mutations |-> f[1], dangerous |-> f[2], raw |-> f[3], list |-> l] :
     m \in Modes, f \in [1..3 -> BOOLEAN], l \in MCLists}
MCDocuments == {{"query"}, {"query", "mutation"}, {"subscription"}}

MCGenerated == <<"first", "second", "third">>
GeneratedTokens == {"first", "second"}
R(origin, authorization) ==
  [type |-> "http", what |-> "POST /mcp", host |-> "known", origin |-> origin,
   authorization |-> authorization]
MCRequests ==
  {R(<<"">>, <<t>>) : t \in GeneratedTokens \cup {"configured", "wrong"}}
    \cup {R(<<"foreign">>, <<t>>) : t \in GeneratedTokens \cup {"configured"}}
    \cup {R(<<"listed", "foreign">>, <<"configured">>),
          R(<<"listed">>, <<"wrong", "configured">>), R(<< >>, << >>),
          [R(<< >>, <<"configured">>) EXCEPT !.host = "foreign"],
          [R(<< >>, <<"configured">>) EXCEPT !.type = "websocket"],
          [R(<< >>, << >>) EXCEPT !.what = "GET /health"]}
=============================================================================
