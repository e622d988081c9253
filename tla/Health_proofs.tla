------------------------------ MODULE Health_proofs ------------------------------
(***************************************************************************)
(* The safety of gather_all, for any number of tasks, and of the health    *)
(* summary on top of it, for whatever the server answers.                  *)
(*                                                                         *)
(* The inductive invariant of gather_all ties what the first gather was    *)
(* settled with to the history of the tasks, and says who may still be     *)
(* running when.  The summary's steps are steps of gather_all or leave its *)
(* state alone, so they keep it; what they add says what a summary was     *)
(* made of.                                                                *)
(***************************************************************************)
EXTENDS Health, TLAPS

-----------------------------------------------------------------------------
(* gather_all *)

(* The gather is settled by the first error, or by all results.             *)
OuterInv ==
  /\ outer = "none" => caller = "gathering" /\ first = "none"
                       /\ \A t \in Tasks : task[t] \in {"running", "cancelling", "ok"}
  /\ outer = "results" => \A t \in Tasks : task[t] = "ok"
  /\ outer \in Tasks => first = outer
  /\ outer = Cancelled => asked /\ \A t \in Tasks : task[t] # "running"

(* Before the exception is caught, only a cancelled caller's tasks are      *)
(* cancelled, and then all of them.                                         *)
TaskInv ==
  /\ caller = "gathering" /\ ~asked =>
       \A t \in Tasks : task[t] \in {"running", "ok", "failed"}
  /\ asked /\ outer = "none" => \A t \in Tasks : task[t] # "running"
  /\ caller \in {"draining", "raised"} => \A t \in Tasks : task[t] # "running"
  /\ caller \in {"returned", "raised"} => AllOver

CallerInv ==
  /\ caller = "returned" => ~asked /\ outer = "results"
  /\ caller \in {"draining", "raised"} =>
       IF asked THEN raised = Cancelled ELSE raised = first

GatherInv == TypeOK /\ OuterInv /\ TaskInv /\ CallerInv

USE TasksType, CancelledType, NamesType

(* A fresh call satisfies the invariant. *)
LEMMA InitInv == Init => GatherInv
BY DEF Init, GatherInv, TypeOK, OuterInv, TaskInv, CallerInv, AllOver, Over

(* A task that ends in success keeps the invariant. *)
LEMMA SucceedsInv == GatherInv /\ (\E t \in Tasks : Succeeds(t)) => GatherInv'
<1> SUFFICES ASSUME GatherInv, NEW t \in Tasks, Succeeds(t) PROVE GatherInv'
  OBVIOUS
<1> USE DEF GatherInv, Succeeds, Settle, Over
<1>1. TypeOK'
  BY DEF TypeOK
<1>2. \A u \in Tasks : task'[u] = IF u = t THEN "ok" ELSE task[u]
  BY DEF TypeOK
<1>3. OuterInv'
  BY <1>2 DEF TypeOK, OuterInv
<1>4. TaskInv'
  BY <1>2 DEF TypeOK, OuterInv, TaskInv, AllOver
<1>5. CallerInv'
  BY DEF CallerInv, OuterInv, TypeOK
<1> QED BY <1>1, <1>3, <1>4, <1>5

(* A task that fails keeps the invariant: if it is the first, it settles    *)
(* the gather.                                                              *)
LEMMA FailsInv == GatherInv /\ (\E t \in Tasks : Fails(t)) => GatherInv'
<1> SUFFICES ASSUME GatherInv, NEW t \in Tasks, Fails(t) PROVE GatherInv'
  OBVIOUS
<1> USE DEF GatherInv, Fails, Settle, Over
<1>1. TypeOK'
  BY DEF TypeOK
<1>2. \A u \in Tasks : task'[u] = IF u = t THEN "failed" ELSE task[u]
  BY DEF TypeOK
<1>3. OuterInv'
  BY <1>2 DEF TypeOK, OuterInv
<1>4. TaskInv'
  BY <1>2 DEF TypeOK, OuterInv, TaskInv, AllOver
<1>5. CallerInv'
  BY DEF CallerInv, TaskInv, OuterInv, TypeOK
<1> QED BY <1>1, <1>3, <1>4, <1>5

(* A task that unwinds keeps the invariant: nobody is running any more, so  *)
(* no error can follow its cancellation.                                    *)
LEMMA UnwindsInv == GatherInv /\ (\E t \in Tasks : Unwinds(t)) => GatherInv'
<1> SUFFICES ASSUME GatherInv, NEW t \in Tasks, Unwinds(t) PROVE GatherInv'
  OBVIOUS
<1> USE DEF GatherInv, Unwinds, Settle, Over
<1>1. TypeOK'
  BY DEF TypeOK
<1>2. \A u \in Tasks : task'[u] = IF u = t THEN "cancelled" ELSE task[u]
  BY DEF TypeOK
<1>3. OuterInv'
  BY <1>2 DEF TypeOK, OuterInv, TaskInv
<1>4. TaskInv'
  BY <1>2 DEF TypeOK, OuterInv, TaskInv, AllOver
<1>5. CallerInv'
  BY DEF CallerInv, OuterInv, TypeOK
<1> QED BY <1>1, <1>3, <1>4, <1>5

(* The caller's own steps keep the invariant. *)
LEMMA CallerStepInv == GatherInv /\ (Return \/ Catch \/ Reraise) => GatherInv'
<1> SUFFICES ASSUME GatherInv, Return \/ Catch \/ Reraise PROVE GatherInv'
  OBVIOUS
<1> USE DEF GatherInv, TypeOK, OuterInv, TaskInv, CallerInv, AllOver, Over
<1>1. CASE Return
  BY <1>1 DEF Return
<1>2. CASE Catch
  <2>1. \A u \in Tasks : task'[u] = IF task[u] = "running" THEN "cancelling" ELSE task[u]
    BY <1>2 DEF Catch, CancelAll
  <2>2. TypeOK'
    BY <1>2 DEF Catch, CancelAll
  <2>3. OuterInv' /\ TaskInv'
    BY <1>2, <2>1 DEF Catch
  <2>4. CallerInv'
    BY <1>2 DEF Catch
  <2> QED BY <2>2, <2>3, <2>4
<1>3. CASE Reraise
  BY <1>3 DEF Reraise
<1> QED BY <1>1, <1>2, <1>3

(* A cancellation of the caller keeps the invariant, whenever it arrives. *)
LEMMA CancelInv == GatherInv /\ Cancel => GatherInv'
<1> SUFFICES ASSUME GatherInv, Cancel PROVE GatherInv'
  OBVIOUS
<1> USE DEF GatherInv, TypeOK, OuterInv, TaskInv, CallerInv, AllOver, Over
<1>1. CASE caller = "gathering" /\ outer = "none"
  <2>1. \A u \in Tasks : task'[u] = IF task[u] = "running" THEN "cancelling" ELSE task[u]
    BY <1>1 DEF Cancel, CancelAll
  <2>2. TypeOK'
    BY <1>1 DEF Cancel, CancelAll
  <2>3. OuterInv' /\ TaskInv' /\ CallerInv'
    BY <1>1, <2>1 DEF Cancel
  <2> QED BY <2>2, <2>3
<1>2. CASE caller = "gathering" /\ outer # "none"
  BY <1>2 DEF Cancel
<1>3. CASE caller = "draining"
  BY <1>3 DEF Cancel
<1> QED BY <1>1, <1>2, <1>3 DEF Cancel

(* Every step keeps the invariant. *)
LEMMA StepInv == GatherInv /\ [Next]_vars => GatherInv'
<1> SUFFICES ASSUME GatherInv, [Next]_vars PROVE GatherInv'
  OBVIOUS
<1>1. CASE Next
  BY <1>1, SucceedsInv, FailsInv, UnwindsInv, CallerStepInv, CancelInv DEF Next
<1>2. CASE UNCHANGED vars
  BY <1>2 DEF vars, GatherInv, TypeOK, OuterInv, TaskInv, CallerInv, AllOver, Over
<1> QED BY <1>1, <1>2

(* The invariant holds for every number of tasks. *)
THEOREM GatherInvariant == Spec => []GatherInv
BY InitInv, StepInv, PTL DEF Spec

(* The variables keep their types. *)
THEOREM TypeCorrect == Spec => []TypeOK
<1>1. GatherInv => TypeOK
  BY DEF GatherInv
<1> QED BY <1>1, GatherInvariant, PTL

(* However gather_all ends, none of its tasks is left running. *)
THEOREM NoTaskLeaks == Spec => []NothingLeftRunning
<1>1. GatherInv => NothingLeftRunning
  BY DEF GatherInv, TaskInv, NothingLeftRunning, Done
<1> QED BY <1>1, GatherInvariant, PTL

(* gather_all raises the first task's error unwrapped, or the caller's own  *)
(* cancellation.                                                            *)
THEOREM ErrorIsOriginal == Spec => []OriginalErrorRaised
<1>1. GatherInv => OriginalErrorRaised
  BY DEF GatherInv, CallerInv, OriginalErrorRaised
<1> QED BY <1>1, GatherInvariant, PTL

(* gather_all returns only complete results. *)
THEOREM ResultsComplete == Spec => []ResultsAreComplete
<1>1. GatherInv => ResultsAreComplete
  BY DEF GatherInv, CallerInv, OuterInv, ResultsAreComplete
<1> QED BY <1>1, GatherInvariant, PTL

-----------------------------------------------------------------------------
(* The health summary *)

Made(c) ==
  \/ c = Status(answer)
  \/ /\ c = [Status(answer) EXCEPT !["ups"] = "not_configured"]
     /\ Eligible(answer["ups"])
     /\ config \in Response /\ NotConfigured(config)

(* A query that succeeded has an answer that none of its wrappers let pass  *)
(* as an error.                                                             *)
AnswerInv ==
  /\ answer = [q \in Queries |-> answer[q]]
  /\ \A q \in Queries : task[q] = "ok" => answer[q] \in Response /\ ~Raises(q, answer[q])

(* What is asked for the UPS, and what is summarized, follows the results   *)
(* of all five queries.                                                     *)
StageInv ==
  /\ stage \in {"gathering", "configuring", "error", "done"}
  /\ stage \in {"configuring", "done"} => caller = "returned"
  /\ stage = "configuring" => Eligible(answer["ups"])
  /\ stage # "done" => checks = [c \in Checks |-> "none"] /\ overall # "ok"
  /\ stage = "done" => Made(checks) /\ overall = Verdict(answer, checks)

HealthInv == GatherInv /\ AnswerInv /\ StageInv

USE TasksAreQueries

(* What each class of an answer says of it.                                 *)
LEMMA KindMeans ==
  ASSUME NEW r \in Response
  PROVE  /\ Kind(r) # "ok"
         /\ r.http \in {"unreachable", "redirect"} => Kind(r) = "connection"
         /\ r.http = "denied" => Kind(r) = "auth"
         /\ r.http = "failed" => Kind(r) = "server"
         /\ Usable(r) => Kind(r) = "data"
         /\ Kind(r) = "data" /\ r.errors = {} => Clean(r)
         /\ Kind(r) = "graphql" => r.errors # {}
BY DEF Kind, Unreached, Invalid, HasErrors, ErrorsOnly, Response, Usable, Clean

(* The summary starts with nothing asked and nothing known.                 *)
LEMMA HealthInitInv == HealthInit => HealthInv
<1> SUFFICES ASSUME HealthInit PROVE HealthInv
  OBVIOUS
<1>1. GatherInv
  BY InitInv DEF HealthInit
<1>2. AnswerInv /\ StageInv
  BY DEF HealthInit, Init, AnswerInv, StageInv
<1> QED BY <1>1, <1>2 DEF HealthInv

(* A step of the summary is one of gather_all, or leaves its state alone.   *)
LEMMA HealthStepGathers == [HealthNext]_healthVars => [Next]_vars
BY DEF HealthNext, healthVars, gathered, vars, Next, Answer, Gathered, GatherRaises, Gathering,
       Configured, CancelConfiguring

(* HealthInv is inductive.                                                  *)
LEMMA HealthStepInv == HealthInv /\ [HealthNext]_healthVars => HealthInv'
<1> SUFFICES ASSUME HealthInv, [HealthNext]_healthVars PROVE HealthInv'
  OBVIOUS
<1>1. GatherInv'
  BY HealthStepGathers, StepInv DEF HealthInv
<1>2. CASE \E q \in Queries : \E r \in Responses[q] : Answer(q, r)
  <2>0. PICK q \in Queries : \E r \in Responses[q] : Answer(q, r)
    BY <1>2
  <2>1. PICK r \in Responses[q] : Answer(q, r)
    BY <2>0
  <2>2. r \in Response
    BY ResponsesType
  <2>3. /\ answer' = [answer EXCEPT ![q] = r] /\ task[q] = "running"
        /\ caller' = caller /\ UNCHANGED <<config, stage, checks, overall>>
        /\ task' = [task EXCEPT ![q] = IF Raises(q, r) THEN "failed" ELSE "ok"]
    BY <2>1 DEF Answer, Fails, Succeeds, summary
  <2>4. caller # "returned"
    BY <2>1, <2>3 DEF HealthInv, GatherInv, TaskInv, AllOver, Over
  <2>5. stage \notin {"configuring", "done"}
    BY <2>4 DEF HealthInv, StageInv
  <2>6. StageInv'
    BY <2>3, <2>5 DEF HealthInv, StageInv
  <2>7. AnswerInv'
    <3>1. ASSUME NEW u \in Queries, task'[u] = "ok"
          PROVE  answer'[u] \in Response /\ ~Raises(u, answer'[u])
      <4>1. CASE u = q
        <5>1. answer'[u] = r /\ ~Raises(q, r)
          BY <2>3, <3>1, <4>1 DEF HealthInv, AnswerInv, GatherInv, TypeOK
        <5> QED BY <2>2, <4>1, <5>1
      <4>2. CASE u # q
        <5>1. answer'[u] = answer[u] /\ task'[u] = task[u]
          BY <2>3, <4>2 DEF HealthInv, AnswerInv, GatherInv, TypeOK
        <5> QED BY <3>1, <5>1 DEF HealthInv, AnswerInv
      <4> QED BY <4>1, <4>2
    <3>2. answer' = [u \in Queries |-> answer'[u]]
      BY <2>3 DEF HealthInv, AnswerInv
    <3> QED BY <3>1, <3>2 DEF AnswerInv
  <2> QED BY <1>1, <2>6, <2>7 DEF HealthInv
<1>3. CASE Gathered
  <2>1. task' = task /\ answer' = answer /\ config' = config /\ caller' = "returned"
    BY <1>3 DEF Gathered, Return
  <2>2. AnswerInv'
    BY <2>1 DEF HealthInv, AnswerInv
  <2>3. StageInv'
    <3>1. CASE Eligible(answer["ups"])
      <4>1. stage # "done"
        BY <1>3 DEF Gathered, Return, HealthInv, StageInv
      <4> QED BY <1>3, <2>1, <3>1, <4>1 DEF Gathered, summary, HealthInv, StageInv
    <3>2. CASE ~Eligible(answer["ups"])
      <4>1. stage' = "done" /\ checks' = Status(answer) /\ overall' = Verdict(answer, checks')
        BY <1>3, <3>2 DEF Gathered, Summarize
      <4>2. Made(checks)'
        BY <2>1, <4>1 DEF Made, Status, Checks, Queries
      <4>3. overall' = Verdict(answer', checks')
        BY <2>1, <4>1
      <4> QED BY <2>1, <4>1, <4>2, <4>3 DEF StageInv
    <3> QED BY <3>1, <3>2
  <2> QED BY <1>1, <2>2, <2>3 DEF HealthInv
<1>4. CASE GatherRaises
  <2>1. /\ task' = task /\ answer' = answer /\ stage' = "error" /\ checks' = checks
        /\ caller = "draining"
        /\ overall' = IF raised \in Queries THEN Kind(answer[raised]) ELSE "cancelled"
    BY <1>4 DEF GatherRaises, Reraise, Fail
  <2>2. overall' # "ok"
    BY <2>1 DEF Kind
  <2> QED BY <1>1, <2>1, <2>2 DEF HealthInv, AnswerInv, StageInv
<1>5. CASE Gathering
  <2>1. UNCHANGED <<answer, config, stage, checks, overall>>
    BY <1>5 DEF Gathering, summary
  <2>2. \A q \in Queries : task'[q] = "ok" => task[q] = "ok"
    BY <1>5 DEF Gathering, Catch, Cancel, CancelAll, Unwinds, HealthInv, GatherInv, TypeOK
  <2>3. caller = "returned" => caller' = "returned"
    BY <1>5 DEF Gathering, Catch, Cancel, Unwinds
  <2>4. StageInv'
    BY <2>1, <2>3 DEF HealthInv, StageInv, Made, Status, Verdict, Reports, Failed
  <2> QED BY <1>1, <2>1, <2>2, <2>4 DEF HealthInv, AnswerInv
<1>6. CASE \E r \in Responses["config"] : Configured(r)
  <2>1. PICK r \in Responses["config"] : Configured(r)
    BY <1>6
  <2>2. r \in Response
    BY ResponsesType
  <2>3. /\ stage = "configuring" /\ config' = r
        /\ task' = task /\ caller' = caller /\ answer' = answer
    BY <2>1 DEF Configured, gathered
  <2>4. AnswerInv'
    BY <2>3 DEF HealthInv, AnswerInv
  <2>5. StageInv'
    <3>1. CASE Raises("config", r)
      <4>1. stage' = "error" /\ overall' = Kind(r) /\ checks' = checks
        BY <2>1, <3>1 DEF Configured, Fail
      <4> QED BY <2>2, <2>3, <4>1, KindMeans DEF HealthInv, StageInv
    <3>2. CASE ~Raises("config", r)
      <4>1. /\ stage' = "done" /\ overall' = Verdict(answer, checks')
            /\ checks' = IF NotConfigured(r)
                         THEN [Status(answer) EXCEPT !["ups"] = "not_configured"]
                         ELSE Status(answer)
        BY <2>1, <3>2 DEF Configured, Summarize
      <4>2. Eligible(answer["ups"]) /\ caller = "returned"
        BY <2>3 DEF HealthInv, StageInv
      <4>3. Made(checks)'
        <5>1. Status(answer)' = Status(answer) /\ (Eligible(answer["ups"])' <=> Eligible(answer["ups"]))
              /\ (NotConfigured(config)' <=> NotConfigured(r))
          BY <2>3
        <5> QED BY <2>2, <2>3, <4>1, <4>2, <5>1 DEF Made
      <4>4. overall' = Verdict(answer', checks')
        BY <2>3, <4>1
      <4> QED BY <2>3, <4>1, <4>2, <4>3, <4>4 DEF StageInv
    <3> QED BY <3>1, <3>2
  <2> QED BY <1>1, <2>4, <2>5 DEF HealthInv
<1>7. CASE CancelConfiguring
  BY <1>1, <1>7 DEF CancelConfiguring, Fail, gathered, HealthInv, AnswerInv, StageInv
<1>8. CASE UNCHANGED healthVars
  <2>1. UNCHANGED <<task, caller, answer, config, stage, checks, overall>>
    BY <1>8 DEF healthVars, gathered, summary
  <2>2. StageInv'
    BY <2>1 DEF HealthInv, StageInv, Made, Status, Verdict, Reports, Failed
  <2> QED BY <1>1, <2>1, <2>2 DEF HealthInv, AnswerInv
<1> QED BY <1>2, <1>3, <1>4, <1>5, <1>6, <1>7, <1>8 DEF HealthNext

LEMMA HealthInvHolds == HealthSpec => []HealthInv
BY HealthInitInv, HealthStepInv, PTL DEF HealthSpec

(* The summary gathers its queries as gather_all does.                      *)
THEOREM SummaryGathers == HealthSpec => Init /\ [][Next]_vars
<1>1. HealthInit => Init
  BY DEF HealthInit
<1> QED BY <1>1, HealthStepGathers, PTL DEF HealthSpec

(* However the summary ends, none of its queries is left running, and what  *)
(* it raises is the first error or the cancellation.                        *)
THEOREM SummaryLeaksNothing == HealthSpec => [](NothingLeftRunning /\ OriginalErrorRaised)
<1>1. HealthInv => NothingLeftRunning /\ OriginalErrorRaised
  BY DEF HealthInv, GatherInv, TaskInv, CallerInv, NothingLeftRunning, OriginalErrorRaised, Done
<1> QED BY <1>1, HealthInvHolds, PTL

(* A summary is made of five answers that are no errors.                    *)
LEMMA DoneAnswers ==
  ASSUME HealthInv, stage = "done", NEW q \in Queries
  PROVE  answer[q] \in Response /\ ~Raises(q, answer[q])
<1>1. caller = "returned"
  BY DEF HealthInv, StageInv
<1>2. task[q] = "ok"
  BY <1>1 DEF HealthInv, GatherInv, CallerInv, OuterInv
<1> QED BY <1>2 DEF HealthInv, AnswerInv

(* "ok" is said of what was read without an error and reports nothing       *)
(* (fetch_health, summarize_health).                                        *)
THEOREM OkIsRead == HealthSpec => []OkMeansRead
<1>1. ASSUME HealthInv, checks["ups"] = "not_configured"
      PROVE  /\ answer["ups"].errors = {"plain"}
             /\ Clean(config) /\ config.data = "some" /\ config.says # "enable"
  <2> USE <1>1
  <2>1. stage = "done" /\ Made(checks)
    BY DEF HealthInv, StageInv, Checks, Queries
  <2>2. Eligible(answer["ups"]) /\ config \in Response /\ NotConfigured(config)
    <3>1. "ups" \in Checks
      BY DEF Checks, Queries
    <3>2. checks # Status(answer)
      BY <3>1 DEF Status
    <3> QED BY <2>1, <3>2 DEF Made
  <2>3. answer["ups"] \in Response
    BY <2>1, DoneAnswers DEF Queries
  <2>4. answer["ups"].errors # {} /\ answer["ups"].errors \subseteq {"plain"}
    <3>1. answer["ups"].errors \subseteq Errors
      BY <2>3 DEF Response
    <3> QED BY <2>2, <2>3, <3>1, KindMeans
            DEF Eligible, Errors, IsPermissionError, UnsupportedFieldError
  <2>5. Kind(config) = "data" /\ config.errors = {} /\ config.data = "some" /\ config.says # "enable"
    BY <2>2 DEF NotConfigured, Passes, Required
  <2> QED BY <2>2, <2>4, <2>5, KindMeans
<1>2. ASSUME HealthInv, overall = "ok"
      PROVE  /\ \A q \in {"array", "temperature"} : Clean(answer[q]) /\ answer[q].data = "some"
             /\ Clean(answer["notifications"])
             /\ Clean(answer["ups"]) \/ checks["ups"] = "not_configured"
             /\ \A q \in Queries :
                  Usable(answer[q]) => answer[q].says \notin {"attention", "critical"}
  <2> USE <1>2
  <2>1. stage = "done" /\ Made(checks) /\ Verdict(answer, checks) = "ok"
    BY DEF HealthInv, StageInv
  <2>2. ~Reports(answer, "critical") /\ ~Reports(answer, "attention") /\ ~Failed(checks)
    BY <2>1 DEF Verdict
  <2>3. \A q \in Queries : answer[q] \in Response
    BY <2>1, DoneAnswers
  <2>4. \A q \in Checks : checks[q] = Status(answer)[q] \/ (q = "ups" /\ checks[q] = "not_configured")
    BY <2>1 DEF Made, Status, Checks, Queries
  <2>5. \A q \in Checks : Passes(q, answer[q]) \/ (q = "ups" /\ checks[q] = "not_configured")
    BY <2>2, <2>4 DEF Failed, Status
  <2>6. \A q \in Checks : Passes(q, answer[q]) => Clean(answer[q]) /\ (Required(q) => answer[q].data = "some")
    BY <2>3, KindMeans DEF Passes, Checks
  <2>7. \A q \in Queries : Usable(answer[q]) => answer[q].says \notin {"attention", "critical"}
    BY <2>2, <2>3, KindMeans DEF Reports, Usable
  <2> QED BY <2>5, <2>6, <2>7 DEF Checks, Queries, Required
<1>3. HealthInv => OkMeansRead
  BY <1>1, <1>2 DEF OkMeansRead
<1> QED BY <1>3, HealthInvHolds, PTL

(* What usable data reports decides the verdict (summarize_health).         *)
THEOREM SignalsDecide == HealthSpec => []SignalsSurvive
<1>1. ASSUME HealthInv, stage = "done", NEW q \in Queries, Usable(answer[q])
      PROVE  /\ answer[q].says = "critical" => overall = "critical"
             /\ answer[q].says = "attention" => overall \in {"critical", "attention"}
  <2>1. Kind(answer[q]) = "data" /\ answer[q].data = "some"
    BY <1>1, DoneAnswers, KindMeans DEF Usable
  <2>2. overall = Verdict(answer, checks)
    BY <1>1 DEF HealthInv, StageInv
  <2>3. answer[q].says = "critical" => Reports(answer, "critical")
    BY <2>1 DEF Reports
  <2>4. answer[q].says = "attention" => Reports(answer, "attention")
    BY <2>1 DEF Reports
  <2> QED BY <2>2, <2>3, <2>4 DEF Verdict
<1>2. HealthInv => SignalsSurvive
  BY <1>1 DEF SignalsSurvive
<1> QED BY <1>2, HealthInvHolds, PTL

(* A bad key or an unreachable server never makes a summary                 *)
(* (safe_query_with_status, fetch_health).                                  *)
THEOREM BrokenAccessRaises == HealthSpec => []BrokenAccessFails
<1>1. ASSUME HealthInv, stage = "done", NEW q \in Queries
      PROVE  /\ answer[q].http \notin {"unreachable", "redirect", "failed"}
             /\ q = "array" => answer[q].http # "denied"
  <2>1. answer[q] \in Response /\ ~Raises(q, answer[q])
    BY <1>1, DoneAnswers
  <2> QED BY <2>1, KindMeans DEF Raises, Tolerates
<1>2. HealthInv => BrokenAccessFails
  BY <1>1 DEF BrokenAccessFails, Queries
<1> QED BY <1>2, HealthInvHolds, PTL
=============================================================================
