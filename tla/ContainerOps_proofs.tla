-------------------------- MODULE ContainerOps_proofs --------------------------
(***************************************************************************)
(* What the tools that change one container may report and leave behind,   *)
(* for any number of calls and containers and every way ids can clash.     *)
(***************************************************************************)
EXTENDS ContainerOps, SequenceTheorems, TLAPS

Unsent == {"idle", "asking", "looking", "listed", "resolved", "rejected"}
Outcomes == {"none", "inflight", "applied", "declined", "unsupported"}

OpsType ==
  /\ native \in BOOLEAN
  /\ pc \in [Calls -> Unsent \cup {"waiting", "ok", "failed"}]
  /\ req \in [Calls -> Requests]
  /\ seen \in [Calls -> SUBSET Ids]
  /\ target \in [Calls -> Ids \cup {Nothing}]
  /\ op \in [Calls -> Tools \cup {"none"}]
  /\ flight \in [Calls -> Outcomes]
  /\ applied \in [Calls -> Seq(Tools)]

(* What a call had got done when it sent its last mutation: the second of   *)
(* the two that replace a restart follows a stop that was carried out.      *)
Prior(c) == IF req[c].tool = "restart" /\ op[c] = "start" THEN <<"stop">> ELSE << >>

(* Before it sends anything, a call has only looked up what it is about.    *)
AimInv(c) ==
  /\ pc[c] \in Unsent => op[c] = "none"
  /\ pc[c] \in {"looking", "listed"} => req[c].ref \notin FullRefs
  /\ pc[c] = "resolved" \/ op[c] # "none" => Meant(c) = {target[c]}

(* What it sends, and what the server has done of it: a stop or a start is  *)
(* sent for a restart only where the server has no restart.                 *)
SendInv(c) ==
  /\ op[c] = "none" <=> flight[c] = "none"
  /\ op[c] \in {"none", req[c].tool} \/ (req[c].tool = "restart" /\ op[c] \in {"stop", "start"})
  /\ req[c].tool = "restart" /\ op[c] \in {"stop", "start"} => ~native
  /\ flight[c] = "unsupported" => op[c] = "restart" /\ ~native
  /\ applied[c] = IF flight[c] = "applied" THEN Append(Prior(c), op[c]) ELSE Prior(c)
  /\ pc[c] = "ok" => flight[c] = "applied" /\ (op[c] = req[c].tool \/ op[c] = "start")

CallInv(c) == AimInv(c) /\ SendInv(c)

OpsInv == OpsType /\ \A c \in Calls : CallInv(c)

(* The only mutations of a call, one or two.                                *)
LEMMA AppendOne == \A o \in Tools : Append(<< >>, o) = <<o>>
BY AppendProperties
LEMMA AppendTwo == Append(<<"stop">>, "start") = <<"stop", "start">>
<1> DEFINE both == Append(<<"stop">>, "start")
<1>1. <<"stop">> \in Seq(Tools) /\ "start" \in Tools
  BY DEF Tools
<1>2. both \in Seq(Tools) /\ Len(both) = 2 /\ both[1] = "stop" /\ both[2] = "start"
  BY <1>1, AppendProperties
<1>3. \A b \in Seq(Tools) : Len(b) = 2 => b = <<b[1], b[2]>>
  OBVIOUS
<1> QED BY <1>2, <1>3

USE NothingType, RefsType, DenotesType, RequestsType

-----------------------------------------------------------------------------
(* A call that has not begun has done nothing.                              *)
LEMMA InitInv == Init => OpsInv
<1> SUFFICES ASSUME Init PROVE OpsInv
  OBVIOUS
<1>1. OpsType
  BY DEF Init, OpsType, Unsent, Outcomes
<1>2. ASSUME NEW c \in Calls PROVE CallInv(c)
  BY DEF Init, CallInv, AimInv, SendInv, Prior, Unsent
<1> QED BY <1>1, <1>2 DEF OpsInv

(* The steps before the first mutation change nothing that was sent.        *)
LEMMA GateInv ==
  ASSUME OpsInv, NEW c \in Calls,
         Unconfirmed(c) \/ Ask(c) \/ Refused(c) \/ PassThrough(c) \/ LookUp(c)
           \/ Listed(c) \/ PickContainer(c) \/ NotResolved(c) \/ ListingFails(c) \/ Cancel(c)
  PROVE  OpsInv'
<1> USE DEF OpsInv, OpsType, CallInv, Unsent, Goto, server, sent
<1>1. native' = native /\ req' = req /\ op' = op /\ flight' = flight /\ applied' = applied
  BY DEF Unconfirmed, Ask, Refused, PassThrough, LookUp, Listed, PickContainer,
         NotResolved, ListingFails, Cancel
<1>2. op[c] = "none" /\ pc'[c] \notin {"ok", "waiting"}
  BY DEF AimInv, Unconfirmed, Ask, Refused, PassThrough, LookUp, Listed, PickContainer,
         NotResolved, ListingFails, Cancel, Cleared
<1>3. \A d \in Calls \ {c} : pc'[d] = pc[d] /\ seen'[d] = seen[d] /\ target'[d] = target[d]
  BY DEF Unconfirmed, Ask, Refused, PassThrough, LookUp, Listed, PickContainer,
         NotResolved, ListingFails, Cancel
<1>4. OpsType'
  <2>1. pc' \in [Calls -> Unsent \cup {"waiting", "ok", "failed"}]
    BY DEF Unconfirmed, Ask, Refused, PassThrough, LookUp, Listed, PickContainer,
           NotResolved, ListingFails, Cancel
  <2>2. seen' \in [Calls -> SUBSET Ids]
    BY DEF Unconfirmed, Ask, Refused, PassThrough, LookUp, Listed, PickContainer,
           NotResolved, ListingFails, Cancel, Existing
  <2>3. target' \in [Calls -> Ids \cup {Nothing}]
    <3>1. CASE PassThrough(c)
      <4>1. PICK k \in Ids : Denotes[req[c].ref] = {k}
        BY <3>1 DEF PassThrough
      <4> QED BY <3>1, <4>1 DEF PassThrough
    <3>2. CASE PickContainer(c)
      <4>1. PICK k \in Found(c) : target' = [target EXCEPT ![c] = k]
        BY <3>2 DEF PickContainer
      <4>2. k \in Ids
        BY DEF Found
      <4> QED BY <4>1, <4>2
    <3>3. CASE ~PassThrough(c) /\ ~PickContainer(c)
      BY <3>3 DEF Unconfirmed, Ask, Refused, LookUp, Listed, NotResolved, ListingFails, Cancel
    <3> QED BY <3>1, <3>2, <3>3
  <2> QED BY <1>1, <2>1, <2>2, <2>3
<1>5. ASSUME NEW d \in Calls PROVE SendInv(d)'
  BY <1>1, <1>2, <1>3 DEF SendInv, Prior
<1>6. ASSUME NEW d \in Calls \ {c} PROVE AimInv(d)'
  BY <1>1, <1>3 DEF AimInv, Meant
<1>7. AimInv(c)'
  <2>1. CASE PassThrough(c)
    <3>1. PICK k \in Ids : Denotes[req[c].ref] = {k}
      BY <2>1 DEF PassThrough
    <3> QED BY <1>1, <1>2, <2>1, <3>1 DEF PassThrough, AimInv, Meant
  <2>2. CASE PickContainer(c)
    BY <1>1, <1>2, <2>2 DEF PickContainer, Picks, Found, AimInv, Meant
  <2>3. CASE ~PassThrough(c) /\ ~PickContainer(c)
    BY <1>1, <1>2, <2>3 DEF AimInv, Meant, Unconfirmed, Ask, Refused, LookUp, Listed,
                            NotResolved, ListingFails, Cancel
  <2> QED BY <2>1, <2>2, <2>3
<1> QED BY <1>4, <1>5, <1>6, <1>7

(* Nor do the steps that follow change what a call is about.                *)
LEMMA SendStepInv ==
  ASSUME OpsInv, NEW c \in Calls,
         SendFirst(c) \/ ServerApply(c) \/ ServerDecline(c) \/ Succeeds(c) \/ FallBack(c)
           \/ StartAgain(c) \/ Declined(c) \/ GiveUp(c)
  PROVE  OpsInv'
<1> USE DEF OpsInv, OpsType, CallInv, Unsent, Outcomes, Goto, server, sent, Send
<1> DEFINE Step == SendFirst(c) \/ ServerApply(c) \/ ServerDecline(c) \/ Succeeds(c)
                     \/ FallBack(c) \/ StartAgain(c) \/ Declined(c) \/ GiveUp(c)
<1>1. native' = native /\ req' = req /\ seen' = seen /\ target' = target
  BY DEF SendFirst, ServerApply, ServerDecline, Succeeds, FallBack, StartAgain, Declined, GiveUp
<1>2. \A d \in Calls \ {c} : /\ pc'[d] = pc[d] /\ op'[d] = op[d]
                             /\ flight'[d] = flight[d] /\ applied'[d] = applied[d]
  BY DEF SendFirst, ServerApply, ServerDecline, Succeeds, FallBack, StartAgain, Declined, GiveUp
<1>3. req[c] \in RequestType /\ req[c].tool \in Tools
  BY DEF RequestType
<1>4. OpsType'
  <2>1. pc' \in [Calls -> Unsent \cup {"waiting", "ok", "failed"}]
    BY DEF SendFirst, ServerApply, ServerDecline, Succeeds, FallBack, StartAgain, Declined, GiveUp
  <2>2. op' \in [Calls -> Tools \cup {"none"}]
    BY <1>3 DEF SendFirst, ServerApply, ServerDecline, Succeeds, FallBack, StartAgain,
                Declined, GiveUp, Tools
  <2>3. flight' \in [Calls -> Outcomes]
    BY DEF SendFirst, ServerApply, ServerDecline, Succeeds, FallBack, StartAgain, Declined, GiveUp
  <2>4. applied' \in [Calls -> Seq(Tools)]
    <3>1. CASE ServerApply(c)
      <4>1. op[c] \in Tools
        BY <3>1 DEF ServerApply, SendInv
      <4> QED BY <3>1, <4>1 DEF ServerApply
    <3>2. CASE ~ServerApply(c)
      BY <3>2 DEF SendFirst, ServerDecline, Succeeds, FallBack, StartAgain, Declined, GiveUp
    <3> QED BY <3>1, <3>2
  <2> QED BY <1>1, <2>1, <2>2, <2>3, <2>4
<1>5. ASSUME NEW d \in Calls \ {c} PROVE CallInv(d)'
  <2>1. AimInv(d)'
    BY <1>1, <1>2 DEF AimInv, Meant
  <2>2. SendInv(d)'
    <3>1. native' = native /\ req'[d] = req[d] /\ pc'[d] = pc[d] /\ op'[d] = op[d]
          /\ flight'[d] = flight[d] /\ applied'[d] = applied[d]
      BY <1>1, <1>2
    <3> HIDE <1>4
    <3> QED BY <3>1 DEF SendInv, Prior
  <2> QED BY <2>1, <2>2
<1>6. AimInv(c)'
  BY <1>1, <1>3 DEF AimInv, Meant, SendInv, Tools, SendFirst, ServerApply, ServerDecline,
                    Succeeds, FallBack, StartAgain, Declined, GiveUp
<1>7. SendInv(c)'
  <2>1. CASE SendFirst(c)
    BY <1>1, <1>3, <2>1 DEF SendFirst, AimInv, SendInv, Prior, Tools
  <2>2. CASE ServerApply(c)
    <3>1. applied[c] = Prior(c) /\ Prior(c)' = Prior(c)
      BY <1>1, <2>2 DEF ServerApply, SendInv, Prior
    <3>2. /\ applied'[c] = Append(applied[c], op[c]) /\ flight'[c] = "applied"
          /\ pc'[c] = pc[c] /\ op'[c] = op[c]
      BY <2>2 DEF ServerApply
    <3> QED BY <1>1, <2>2, <3>1, <3>2 DEF ServerApply, SendInv
  <2>3. CASE ServerDecline(c)
    BY <1>1, <1>3, <2>3 DEF ServerDecline, Supported, AimInv, SendInv, Prior
  <2>4. CASE Succeeds(c) \/ Declined(c) \/ GiveUp(c)
    BY <1>1, <2>4 DEF Succeeds, Declined, GiveUp, SendInv, Prior
  <2>5. CASE FallBack(c)
    <3>1. op[c] = "restart" /\ req[c].tool = "restart" /\ ~native
      BY <2>5 DEF FallBack, SendInv
    <3>2. applied[c] = << >>
      BY <2>5, <3>1 DEF FallBack, SendInv, Prior
    <3> QED BY <1>1, <2>5, <3>1, <3>2 DEF FallBack, SendInv, Prior
  <2>6. CASE StartAgain(c)
    <3>1. applied[c] = <<"stop">>
      BY <2>6 DEF StartAgain, SendInv, Prior
    <3> QED BY <1>1, <1>3, <2>6, <3>1 DEF StartAgain, SendInv, Prior
  <2> QED BY <2>1, <2>2, <2>3, <2>4, <2>5, <2>6
<1> QED BY <1>4, <1>5, <1>6, <1>7

(* OpsInv is inductive.                                                     *)
LEMMA StepInv == OpsInv /\ [Next]_vars => OpsInv'
<1> SUFFICES ASSUME OpsInv, [Next]_vars PROVE OpsInv'
  OBVIOUS
<1>1. CASE Next
  BY <1>1, GateInv, SendStepInv DEF Next
<1>2. CASE UNCHANGED vars
  BY <1>2 DEF vars, OpsInv, OpsType, CallInv, AimInv, SendInv, Meant, Prior
<1> QED BY <1>1, <1>2

-----------------------------------------------------------------------------
(* A reported success is complete, and everything sent is about the only    *)
(* container meant (do_container_power, do_restart_container and the        *)
(* others).                                                                 *)
THEOREM SuccessIsReal == Spec => []SuccessMeansDone
<1>1. ASSUME OpsInv, NEW c \in Calls, pc[c] = "ok"
      PROVE  applied[c] \in PlanOf(req[c])
  <2>1. SendInv(c)
    BY <1>1 DEF OpsInv, CallInv
  <2>2. applied[c] = Append(Prior(c), op[c])
    BY <1>1, <2>1 DEF SendInv
  <2>3. CASE req[c].tool = "restart" /\ op[c] = "start"
    <3>1. applied[c] = Append(<<"stop">>, "start")
      BY <2>2, <2>3 DEF Prior
    <3> QED BY <2>3, <3>1, AppendTwo DEF PlanOf
  <2>4. CASE ~(req[c].tool = "restart" /\ op[c] = "start")
    <3>1. op[c] = req[c].tool
      BY <1>1, <2>1, <2>4 DEF SendInv
    <3>2. op[c] \in Tools /\ Prior(c) = << >>
      BY <1>1, <2>1, <2>4 DEF SendInv, OpsInv, OpsType, Prior
    <3>3. applied[c] = <<op[c]>>
      BY <2>2, <3>2, AppendOne
    <3> QED BY <3>1, <3>3 DEF PlanOf
  <2> QED BY <2>3, <2>4
<1>2. OpsInv => SuccessMeansDone
  BY <1>1 DEF SuccessMeansDone, OpsInv, CallInv, AimInv
<1> QED BY InitInv, StepInv, <1>2, PTL DEF Spec

(* A rejected call has sent nothing, and nothing of it can be carried out   *)
(* later (the gates, resolve_container_id).                                 *)
THEOREM RejectionIsClean == Spec => []RejectedChangedNothing
<1>1. OpsInv => RejectedChangedNothing
  BY DEF RejectedChangedNothing, OpsInv, CallInv, AimInv, SendInv, Prior, Unsent
<1> QED BY InitInv, StepInv, <1>1, PTL DEF Spec

(* Where the server can restart containers, no restart leaves one stopped   *)
(* (do_restart_container).                                                  *)
THEOREM RestartIsAtomicWhereNative == Spec => []RestartLeavesNothingStopped
<1>1. ASSUME OpsInv, native, NEW c \in Calls, req[c].tool = "restart"
      PROVE  applied[c] # <<"stop">>
  <2>1. op[c] \in {"none", "restart"}
    BY <1>1 DEF OpsInv, CallInv, SendInv
  <2>2. Prior(c) = << >>
    BY <2>1 DEF Prior
  <2>3. flight[c] = "applied" => op[c] = "restart"
    BY <1>1, <2>1 DEF OpsInv, CallInv, SendInv
  <2>4. CASE flight[c] = "applied"
    <3>1. applied[c] = Append(<< >>, "restart") /\ "restart" \in Tools
      BY <1>1, <2>2, <2>3, <2>4 DEF OpsInv, CallInv, SendInv, Tools
    <3> QED BY <3>1, AppendOne
  <2>5. CASE flight[c] # "applied"
    BY <1>1, <2>2, <2>5 DEF OpsInv, CallInv, SendInv
  <2> QED BY <2>4, <2>5
<1>2. OpsInv => RestartLeavesNothingStopped
  BY <1>1 DEF RestartLeavesNothingStopped
<1> QED BY InitInv, StepInv, <1>2, PTL DEF Spec
=============================================================================
