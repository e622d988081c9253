--------------------------------- MODULE Health ---------------------------------
(***************************************************************************)
(* get_health_summary and unraid://health (tools/misc.py): five queries    *)
(* run under gather_all, a sixth when the UPS query failed in a way that   *)
(* may mean there is no UPS, and the verdict over what they brought        *)
(* (formatting.py).  The tasks of GatherAll are the five queries: each is  *)
(* answered, and then succeeds or raises, while the caller may be          *)
(* cancelled at any await.                                                 *)
(***************************************************************************)
EXTENDS GatherAll, GraphQL

CONSTANTS
  Responses,   \* what the server may answer to each query
  Nothing      \* no answer yet

Queries == {"array", "ups", "notifications", "alerts", "temperature"}
Checks == Queries \ {"alerts"}

ASSUME TasksAreQueries == Tasks = Queries
ASSUME ResponsesType == Responses \in [Queries \cup {"config"} -> SUBSET Response]
ASSUME NothingType == Nothing \notin Response

VARIABLES
  answer,   \* the response each query has had
  config,   \* the response to the query for the UPS configuration
  stage,    \* "gathering", "configuring", "error" or "done"
  checks,   \* the summary: the status of each check
  overall   \* the summary: the verdict; or the class of the error

gathered == <<task, caller, outer, raised, asked, first>>
summary == <<checks, overall>>
healthVars == <<gathered, answer, config, stage, summary>>

HealthInit ==
  /\ Init
  /\ answer = [q \in Queries |-> Nothing]
  /\ config = Nothing
  /\ stage = "gathering"
  /\ checks = [c \in Checks |-> "none"]
  /\ overall = "none"

-----------------------------------------------------------------------------
(* Mutant: the array query, too, is left out when the key is refused.       *)
Tolerates_Always(q) == TRUE

(* tolerate_auth; ups_check catches the refusal by itself.                  *)
Tolerates(q) == q # "array"

(* An exception that is not caught by the query's own wrapper.              *)
Raises(q, r) ==
  \/ Kind(r) \in {"connection", "server"}
  \/ Kind(r) = "auth" /\ ~Tolerates(q)

(* required_field                                                           *)
Required(q) == q \in {"array", "temperature", "config"}

(* Mutant: usable data makes the check pass, whatever errors came with it.  *)
Passes_Partly(q, r) == Kind(r) = "data" /\ (Required(q) => r.data = "some")

(* The check is ok.                                                         *)
Passes(q, r) ==
  /\ Kind(r) = "data" /\ r.errors = {}
  /\ Required(q) => r.data = "some"

(* ups_check: it may simply not be configured.                              *)
Eligible(r) ==
  Kind(r) = "graphql" /\ ~IsPermissionError(r) /\ ~UnsupportedFieldError(r)

(* The service is not "enable", and the whole answer says so.               *)
NotConfigured(r) == Passes("config", r) /\ r.says # "enable"

-----------------------------------------------------------------------------
(* Mutant: only what a passed check brought is looked at.                   *)
Reports_IfPassed(a, s) ==
  \E q \in Queries : Passes(q, a[q]) /\ a[q].data = "some" /\ a[q].says = s

(* Usable data, of whichever query, that reports s.  (Alerts are listed     *)
(* once: under the overview's counts, or by themselves without them.)       *)
Reports(a, s) ==
  \E q \in Queries : Kind(a[q]) = "data" /\ a[q].data = "some" /\ a[q].says = s

Failed(c) == \E q \in Checks : c[q] = "failed"

(* summarize_health: a fixed precedence.                                    *)
Verdict(a, c) ==
  IF Reports(a, "critical") THEN "critical"
  ELSE IF Reports(a, "attention") THEN "attention"
  ELSE IF Failed(c) THEN "degraded" ELSE "ok"

Status(a) == [q \in Checks |-> IF Passes(q, a[q]) THEN "ok" ELSE "failed"]

Summarize(a, c) ==
  /\ stage' = "done" /\ checks' = c /\ overall' = Verdict(a, c)

Fail(class) ==
  /\ stage' = "error" /\ overall' = class /\ UNCHANGED checks

(* One of the five queries is answered, or found unanswerable.              *)
Answer(q, r) ==
  /\ answer' = [answer EXCEPT ![q] = r]
  /\ IF Raises(q, r) THEN Fails(q) ELSE Succeeds(q)
  /\ UNCHANGED <<config, stage, summary>>

(* All five have come back.                                                 *)
Gathered ==
  /\ Return
  /\ IF Eligible(answer["ups"])
     THEN stage' = "configuring" /\ UNCHANGED summary
     ELSE Summarize(answer, Status(answer))
  /\ UNCHANGED <<answer, config>>

(* gather_all raises: the exception of a query, or the cancellation.        *)
GatherRaises ==
  /\ Reraise
  /\ Fail(IF raised \in Queries THEN Kind(answer[raised]) ELSE "cancelled")
  /\ UNCHANGED <<answer, config>>

(* What else gather_all does.                                               *)
Gathering ==
  /\ Catch \/ Cancel \/ \E q \in Queries : Unwinds(q)
  /\ UNCHANGED <<answer, config, stage, summary>>

(* The UPS configuration is answered.                                       *)
Configured(r) ==
  /\ stage = "configuring"
  /\ config' = r
  /\ \/ Raises("config", r) /\ Fail(Kind(r))
     \/ /\ ~Raises("config", r)
        /\ LET c == Status(answer)
           IN  Summarize(answer, IF NotConfigured(r)
                                 THEN [c EXCEPT !["ups"] = "not_configured"] ELSE c)
  /\ UNCHANGED <<gathered, answer>>

CancelConfiguring ==
  /\ stage = "configuring"
  /\ Fail("cancelled")
  /\ UNCHANGED <<gathered, answer, config>>

HealthNext ==
  \/ \E q \in Queries : \E r \in Responses[q] : Answer(q, r)
  \/ Gathered \/ GatherRaises \/ Gathering
  \/ \E r \in Responses["config"] : Configured(r)
  \/ CancelConfiguring

HealthSpec == HealthInit /\ [][HealthNext]_healthVars

-----------------------------------------------------------------------------
Usable(r) == r.http = "fine" /\ r.body = "object" /\ r.list /\ r.data = "some"
Clean(r) == r.http = "fine" /\ r.body = "object" /\ r.list /\ r.data # "wrong" /\ r.errors = {}

(* "If overall == ok, report and stop" (docs/llm-usage.md): ok says that    *)
(* the disks and the temperatures were read without an error, that the UPS  *)
(* and the notifications were, or that there is no UPS, and that nothing    *)
(* that was read reports anything.  There is no UPS only where the server   *)
(* answered that its service is not enabled, after an error that is neither *)
(* a permission nor a build that lacks the query.                           *)
OkMeansRead ==
  /\ checks["ups"] = "not_configured" =>
    /\ answer["ups"].errors = {"plain"}
    /\ Clean(config) /\ config.data = "some" /\ config.says # "enable"
  /\ overall = "ok" =>
    /\ \A q \in {"array", "temperature"} : Clean(answer[q]) /\ answer[q].data = "some"
    /\ Clean(answer["notifications"])
    /\ Clean(answer["ups"]) \/ checks["ups"] = "not_configured"
    /\ \A q \in Queries :
         Usable(answer[q]) => answer[q].says \notin {"attention", "critical"}

(* A failed check takes no signal with it: what usable data reports decides *)
(* the verdict although errors came beside it, or other queries failed.     *)
SignalsSurvive ==
  stage = "done" => \A q \in Queries :
    Usable(answer[q]) =>
      /\ answer[q].says = "critical" => overall = "critical"
      /\ answer[q].says = "attention" => overall \in {"critical", "attention"}

(* A summary is never the answer to a bad key or an unreachable server: the *)
(* refusals that other checks tolerate rest on the array query's success.   *)
BrokenAccessFails ==
  stage = "done" =>
    /\ answer["array"].http # "denied"
    /\ \A q \in Queries : answer[q].http \notin {"unreachable", "redirect", "failed"}
=============================================================================
