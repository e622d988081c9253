----------------------------- MODULE Server_proofs -----------------------------
(***************************************************************************)
(* The server as a process.  Permissions: what it sends to the Unraid API, *)
(* for every environment it can be started in, every HTTP request and      *)
(* every document.  Lifespan: the holder of the running context, for any   *)
(* number of entries into the lifespan and of resource reads.              *)
(***************************************************************************)
EXTENDS Permissions, Lifespan, TLAPS

(* The process that runs publishes what its settings say, and its gate      *)
(* takes the token of its settings, one the operator knows.                 *)
ProcessInv ==
  /\ drawn \in Nat
  /\ up => registered = Published(settings)
  /\ up /\ settings.http =>
       /\ gate = settings.bearer
       /\ settings.bearer # "configured" =>
            settings.localhost /\ settings.bearer = Generated[drawn]

(* A call that has arrived came through the gate of the process it is in;   *)
(* a call that waits for an answer does so in its process, or with a modern *)
(* client.                                                                  *)
CallInv ==
  /\ answer \in {"none", "proceed", "refuse", "dismiss"}
  /\ pc \in {"calling", "arrived", "asking"} => call \in Calls
  /\ pc = "arrived" =>
       /\ up
       /\ settings.http => request \in Requests /\ Answer(settings, gate, request) = "served"
  /\ pc = "asking" => call.client = "modern" \/ (up /\ ~settings.http)

PermInv == ProcessInv /\ CallInv

-----------------------------------------------------------------------------
(* The tables                                                               *)

(* What has a high blast radius is sent by tools of the dangerous tier.     *)
LEMMA BlastIsDangerous == \A s \in Sends : s[3] \in HighBlastRadius => s[1] \in Dangerous
<1> USE DEF HighBlastRadius, Dangerous, ArrayDangerous, DockerDangerous
<1>1. \A s \in ArraySends : s[3] \notin HighBlastRadius
  BY DEF ArraySends
<1>2. \A s \in ArrayDangerousSends : s[1] \in Dangerous
  BY DEF ArrayDangerousSends
<1>3. \A s \in ContainerSends : s[3] \notin HighBlastRadius
  BY DEF ContainerSends
<1>4. \A s \in UpdateSends : s[3] \notin HighBlastRadius
  BY DEF UpdateSends
<1>5. \A s \in DockerDangerousSends : s[1] \in Dangerous
  BY DEF DockerDangerousSends
<1>6. \A s \in VmSends : s[3] \notin HighBlastRadius
  BY DEF VmSends
<1>7. \A s \in NotificationSends : s[3] \notin HighBlastRadius
  BY DEF NotificationSends
<1> QED BY <1>1, <1>2, <1>3, <1>4, <1>5, <1>6, <1>7 DEF Sends

(* What is disruptive is sent by tools that ask.                            *)
LEMMA DisruptiveAsks == \A s \in Sends : s[3] \in Disruptive => s[1] \in Asks
<1> USE DEF HighBlastRadius, Disruptive, Asks, ArrayAsks, DockerAsks, VmAsks, NotificationAsks
<1>1. \A s \in ArraySends : s[3] \in Disruptive => s[1] \in Asks
  BY DEF ArraySends
<1>2. \A s \in ArrayDangerousSends : s[3] \in Disruptive => s[1] \in Asks
  BY DEF ArrayDangerousSends
<1>3. \A s \in ContainerSends : s[3] \in Disruptive => s[1] \in Asks
  BY DEF ContainerSends
<1>4. \A s \in UpdateSends : s[3] \in Disruptive => s[1] \in Asks
  BY DEF UpdateSends
<1>5. \A s \in DockerDangerousSends : s[3] \in Disruptive => s[1] \in Asks
  BY DEF DockerDangerousSends
<1>6. \A s \in VmSends : s[3] \in Disruptive => s[1] \in Asks
  BY DEF VmSends
<1>7. \A s \in NotificationSends : s[3] \in Disruptive => s[1] \in Asks
  BY DEF NotificationSends
<1> QED BY <1>1, <1>2, <1>3, <1>4, <1>5, <1>6, <1>7 DEF Sends

(* The tiers have no tool in common.                                        *)
LEMMA TiersDisjoint ==
  /\ (Mutations \cup Dangerous) \cap (Reads \cup Raw) = {}
  /\ Mutations \cap Dangerous = {}
  /\ Reads \cap Raw = {}
<1>1. (Mutations \cup Dangerous) \cap (Reads \cup Raw) = {}
  BY DEF Mutations, Dangerous, Reads, Raw, ArrayMutations, DockerMutations, VmMutations,
         NotificationMutations, ArrayDangerous, DockerDangerous, SystemReads, ArrayReads,
         DockerReads, VmReads, ShareReads, NotificationReads, MiscReads
<1>2. Mutations \cap Dangerous = {}
  BY DEF Mutations, Dangerous, ArrayMutations, DockerMutations, VmMutations,
         NotificationMutations, ArrayDangerous, DockerDangerous
<1>3. Reads \cap Raw = {}
  BY DEF Reads, Raw, SystemReads, ArrayReads, DockerReads, VmReads, ShareReads,
         NotificationReads, MiscReads
<1> QED BY <1>1, <1>2, <1>3

(* A tool that changes something sends a mutation of its own.               *)
LEMMA MutationIsOwn ==
  ASSUME NEW t \in Mutations \cup Dangerous, NEW a \in Actions(t)
  PROVE  \E s \in Sends : s[1] = t /\ s[3] = Mutation(t, a)
<1>1. \E s \in Sends : s[1] = t /\ s[2] = a
  BY TiersDisjoint DEF Actions
<1> DEFINE s == CHOOSE x \in Sends : x[1] = t /\ x[2] = a
<1>2. s \in Sends /\ s[1] = t
  BY <1>1
<1> QED BY <1>2 DEF Mutation

-----------------------------------------------------------------------------
(* Nothing runs and nothing is called at first.                             *)
LEMMA InitInv == Init => PermInv
BY DEF Init, PermInv, ProcessInv, CallInv

(* A process that starts has completed its settings.                        *)
LEMMA StartProcess == ASSUME PermInv, Start PROVE ProcessInv'
<1> DEFINE main(s) == WithBearerToken(s, drawn)
           serve(s) == WithBearerToken(main(s), drawn + Drawn(s))
<1>1. PICK s \in Environments :
        /\ Starts(s)
        /\ Generates(s) => drawn + 1 < Len(Generated)
        /\ settings' = main(s)
        /\ drawn' = drawn + Drawn(s) + Drawn(main(s))
        /\ gate' = IF s.http THEN serve(s).bearer ELSE "none"
        /\ registered' = Published(main(s))
  BY DEF Start
<1>2. drawn \in Nat
  BY DEF PermInv, ProcessInv
<1>3. s.bearer \in {"unset", "configured"} /\ (s.http /\ s.bearer = "unset" => s.localhost)
  BY <1>1, EnvironmentsType DEF Starts, Loads, Refuses
<1>4. CASE Generates(s)
  <2>1. s.http /\ s.bearer = "unset" /\ s.localhost
    BY <1>3, <1>4 DEF Generates
  <2>2. drawn + 1 \in DOMAIN Generated
    BY <1>1, <1>2, <1>4, GeneratedType
  <2>3. main(s) = [s EXCEPT !.bearer = Generated[drawn + 1]]
    BY <1>4 DEF WithBearerToken
  <2>4. /\ main(s).bearer = Generated[drawn + 1] /\ main(s).http = s.http
        /\ main(s).localhost = s.localhost
    BY <2>3, EnvironmentsType
  <2>5. ~Generates(main(s)) /\ Drawn(s) = 1
    BY <1>4, <2>2, <2>4, GeneratedType DEF Generates, Drawn
  <2>6. serve(s) = main(s) /\ Drawn(main(s)) = 0
    BY <2>5 DEF WithBearerToken, Drawn
  <2>7. drawn' = drawn + 1
    BY <1>1, <1>2, <2>5, <2>6
  <2> HIDE DEF main, serve
  <2> QED BY <1>1, <1>2, <2>1, <2>4, <2>6, <2>7 DEF ProcessInv
<1>5. CASE ~Generates(s)
  <2>1. main(s) = s /\ serve(s) = s /\ Drawn(s) = 0
    BY <1>5 DEF WithBearerToken, Drawn
  <2>2. drawn' = drawn
    BY <1>1, <1>2, <2>1
  <2>3. s.http => s.bearer = "configured"
    BY <1>3, <1>5 DEF Generates
  <2> HIDE DEF main, serve
  <2> QED BY <1>1, <1>2, <2>1, <2>2, <2>3 DEF ProcessInv
<1> QED BY <1>4, <1>5

(* PermInv is inductive.                                                    *)
LEMMA StepInv == PermInv /\ [Next]_vars => PermInv'
<1> SUFFICES ASSUME PermInv, [Next]_vars PROVE PermInv'
  OBVIOUS
<1>1. CASE Start
  <2>1. CallInv'
    BY <1>1 DEF Start, PermInv, CallInv
  <2> QED BY <1>1, <2>1, StartProcess DEF PermInv
<1>2. CASE Stop
  <2>1. ProcessInv'
    BY <1>2 DEF Stop, PermInv, ProcessInv
  <2>2. CallInv'
    BY <1>2 DEF Stop, Waiting, End, PermInv, CallInv
  <2> QED BY <2>1, <2>2 DEF PermInv
<1>3. CASE Call \/ Arrive \/ TurnedAway \/ Unknown \/ Ask \/ Answered \/ Reject
           \/ Perform \/ Performed
  <2>1. UNCHANGED process
    BY <1>3 DEF Call, Arrive, TurnedAway, Unknown, Ask, Answered, Reject, Perform, Performed
  <2>2. ProcessInv'
    BY <2>1 DEF process, PermInv, ProcessInv
  <2>3. CallInv'
    <3>1. CASE Call
      BY <3>1 DEF Call, process, PermInv, CallInv
    <3>2. CASE Arrive
      BY <3>2, <2>1 DEF Arrive, process, PermInv, CallInv
    <3>3. CASE Ask
      <4>1. call \in Calls /\ up
        BY <3>3 DEF Ask, PermInv, CallInv
      <4>2. call.client = "modern" \/ ~settings.http
        BY <3>3 DEF Ask, MustAsk, CanElicit
      <4> QED BY <3>3, <2>1, <4>1, <4>2 DEF Ask, process, PermInv, CallInv
    <3>4. CASE Answered
      BY <3>4, <2>1 DEF Answered, process, PermInv, CallInv
    <3>5. CASE Perform
      BY <3>5 DEF Perform, PermInv, CallInv
    <3>6. CASE TurnedAway \/ Unknown \/ Reject \/ Performed
      BY <3>6 DEF TurnedAway, Unknown, Reject, Performed, End, PermInv, CallInv
    <3> QED BY <1>3, <3>1, <3>2, <3>3, <3>4, <3>5, <3>6
  <2> QED BY <2>2, <2>3 DEF PermInv
<1>4. CASE UNCHANGED vars
  BY <1>4 DEF vars, process, PermInv, ProcessInv, CallInv
<1> QED BY <1>1, <1>2, <1>3, <1>4 DEF Next

-----------------------------------------------------------------------------
(* Only a performed call sends anything.                                    *)
LEMMA OnlyPerformSends == ASSUME [Next]_vars, Sent PROVE Perform
BY DEF Next, vars, Sent, Start, Stop, End, Call, Arrive, TurnedAway, Unknown, Ask, Answered,
       Reject, Performed

(* It is published by the process that runs, and it is a call.              *)
LEMMA PerformIsPublished ==
  ASSUME PermInv, Perform
  PROVE  /\ up /\ call \in Calls /\ answer \in {"none", "proceed", "refuse", "dismiss"}
         /\ call.tool \in Published(settings)
BY DEF PermInv, ProcessInv, CallInv, Perform, Known

(* A mutation is sent for a tool that changes something, and is its own.    *)
LEMMA PerformedMutation ==
  ASSUME PermInv, Perform, effect' # "read"
  PROVE  /\ call.tool \in Mutations \cup Dangerous /\ call.confirm
         /\ \E s \in Sends : s[1] = call.tool /\ s[3] = effect'
<1>1. call \in Calls
  BY PerformIsPublished
<1>2. call.action \in Actions(call.tool) /\ (call.tool \in Raw <=> call.document # {})
  BY <1>1 DEF Calls
<1>3. "mutation" \notin call.document
  <2>1. CASE call.tool \in Raw
    BY <2>1 DEF Perform, Accepted, ReadOnlyQuery
  <2>2. CASE call.tool \notin Raw
    BY <1>2, <2>2
  <2> QED BY <2>1, <2>2
<1>4. call.tool \in Mutations \cup Dangerous /\ effect' = Mutation(call.tool, call.action)
  BY <1>3 DEF Perform
<1>5. call.confirm
  BY <1>4 DEF Perform, Accepted
<1> QED BY <1>2, <1>4, <1>5, MutationIsOwn

(* Nothing is sent that the settings of the running process withhold.       *)
(* (register_all, _apply_allow_list, _ensure_read_only)                     *)
THEOREM SettingsBound == Spec => NothingBeyondSettings
<1>1. ASSUME PermInv, [Next]_vars, Sent
      PROVE  /\ effect' # "read" => settings.mutations
             /\ effect' \in HighBlastRadius => settings.dangerous
             /\ call.tool \in Raw => settings.raw
             /\ settings.list # NoFilter => call.tool \in settings.list
  <2> USE <1>1
  <2>1. Perform
    BY OnlyPerformSends
  <2>2. /\ call.tool \in Enabled(settings)
        /\ settings.list # NoFilter => call.tool \in settings.list
    BY <2>1, PerformIsPublished DEF Published
  <2>3. call.tool \in Mutations \cup Dangerous => settings.mutations
    BY <2>2, TiersDisjoint DEF Enabled
  <2>4. call.tool \in Dangerous => settings.dangerous
    BY <2>2, TiersDisjoint DEF Enabled
  <2>5. call.tool \in Raw => settings.raw
    BY <2>2, TiersDisjoint DEF Enabled
  <2>6. effect' # "read" => settings.mutations
    BY <2>1, <2>3, PerformedMutation
  <2>7. effect' \in HighBlastRadius => settings.dangerous
    <3>1. "read" \notin HighBlastRadius
      BY DEF HighBlastRadius
    <3>2. effect' \in HighBlastRadius => call.tool \in Dangerous
      BY <2>1, <3>1, PerformedMutation, BlastIsDangerous
    <3> QED BY <3>2, <2>4
  <2> QED BY <2>2, <2>5, <2>6, <2>7
<1>2. PermInv /\ [Next]_vars =>
        [Sent => /\ effect' # "read" => settings.mutations
                 /\ effect' \in HighBlastRadius => settings.dangerous
                 /\ call.tool \in Raw => settings.raw
                 /\ settings.list # NoFilter => call.tool \in settings.list]_vars
  BY <1>1
<1> QED BY InitInv, StepInv, <1>2, PTL DEF Spec, NothingBeyondSettings

(* Nothing disruptive is sent unconfirmed, nor against or without the word  *)
(* of a human who can be asked (require_confirm, require_confirmation).     *)
THEOREM DisruptionIsAgreed == Spec => DestructiveIsAgreed
<1>1. ASSUME PermInv, [Next]_vars, Sent, effect' \in Disruptive
      PROVE  /\ call.confirm
             /\ call.client = "modern" \/ (call.client = "legacy" /\ ~settings.http)
                  => answer = "proceed"
  <2> USE <1>1
  <2>1. Perform
    BY OnlyPerformSends
  <2>2. effect' # "read"
    BY DEF Disruptive, HighBlastRadius
  <2>3. call.tool \in Asks /\ call.confirm
    BY <2>1, <2>2, PerformedMutation, DisruptiveAsks
  <2>4. CanElicit => answer # "none"
    BY <2>1, <2>3 DEF Perform, MustAsk
  <2>5. answer \in {"none", "proceed"}
    BY <2>1 DEF Perform, Accepted, Declined
  <2> QED BY <2>3, <2>4, <2>5 DEF CanElicit
<1>2. PermInv /\ [Next]_vars =>
        [Sent /\ effect' \in Disruptive =>
           /\ call.confirm
           /\ call.client = "modern" \/ (call.client = "legacy" /\ ~settings.http)
                => answer = "proceed"]_vars
  BY <1>1
<1> QED BY InitInv, StepInv, <1>2, PTL DEF Spec, DestructiveIsAgreed

(* Over HTTP only requests with the token of the running process, and from  *)
(* no foreign page, have anything sent (auth.py, origin.py, cli.py).        *)
THEOREM BearersAct == Spec => OnlyBearersAct
<1>1. ASSUME PermInv, [Next]_vars, Sent, settings.http
      PROVE  /\ request.type = "http"
             /\ request.authorization = <<settings.bearer>>
             /\ \A i \in DOMAIN request.origin : request.origin[i] # "foreign"
             /\ settings.localhost => request.host = "known"
             /\ settings.bearer # "configured" =>
                  settings.localhost /\ settings.bearer = Generated[drawn]
  <2> USE <1>1
  <2>1. Perform
    BY OnlyPerformSends
  <2>2. up /\ request \in Requests /\ Answer(settings, gate, request) = "served"
    BY <2>1 DEF Perform, PermInv, CallInv
  <2>3. /\ ~OriginRejected(request) /\ Authorized(request, gate)
        /\ ~HostRejected(settings, request)
    BY <2>2 DEF Answer
  <2>4. gate = settings.bearer /\ (settings.bearer # "configured" =>
           settings.localhost /\ settings.bearer = Generated[drawn])
    BY <2>2 DEF PermInv, ProcessInv
  <2>5. \A i \in DOMAIN request.origin : request.origin[i] # "foreign"
    BY <2>3 DEF OriginRejected, Origins
  <2>6. settings.localhost => request.host = "known"
    BY <2>2, <2>3, RequestsType DEF HostRejected
  <2> QED BY <2>3, <2>4, <2>5, <2>6 DEF Authorized
<1>2. PermInv /\ [Next]_vars =>
        [Sent /\ settings.http =>
           /\ request.type = "http"
           /\ request.authorization = <<settings.bearer>>
           /\ \A i \in DOMAIN request.origin : request.origin[i] # "foreign"
           /\ settings.localhost => request.host = "known"
           /\ settings.bearer # "configured" =>
                settings.localhost /\ settings.bearer = Generated[drawn]]_vars
  BY <1>1
<1> QED BY InitInv, StepInv, <1>2, PTL DEF Spec, OnlyBearersAct

-----------------------------------------------------------------------------
(* Lifespan: where an entry may be.                                         *)
Phases == {"out", "probing", "serving"} \cup Closing \cup Ended

(* The variables that say who is in the lifespan keep their types.          *)
HolderType ==
  /\ phase \in [Entries -> Phases]
  /\ http \in [Entries -> {"none", "open", "closing", "closed"}]
  /\ running \in Entries \cup {Nobody}

(* An entry has had its client open since before it served.                 *)
ClientOpen == \A e \in Entries : phase[e] \in {"probing", "serving"} => http[e] = "open"

HolderInv == HolderType /\ ClientOpen /\ HolderServes

USE NobodyType

(* Nobody has entered. *)
LEMMA HolderInit == LifespanInit => HolderInv
BY DEF LifespanInit, HolderInv, HolderType, ClientOpen, HolderServes, Phases

(* What one entry does keeps the invariant; only a refusal and an admission *)
(* look at what the others did.                                             *)
LEMMA EntryInv ==
  ASSUME HolderInv, NEW e \in Entries,
         \/ Enter(e) \/ VersionsProbed(e) \/ RolesProbed(e)
         \/ Admit(e) \/ Refuse(e) \/ CancelStartup(e)
         \/ Leave(e) \/ CloseClient(e) \/ Exit(e)
  PROVE  HolderInv'
<1> USE DEF HolderInv, HolderType, ClientOpen, HolderServes, Phases, Closing, Ended, Goto
<1>1. CASE Enter(e)
  BY <1>1 DEF Enter
<1>2. CASE VersionsProbed(e) \/ RolesProbed(e)
  BY <1>2 DEF VersionsProbed, RolesProbed
<1>3. CASE Admit(e)
  BY <1>3 DEF Admit, Probed
<1>4. CASE Refuse(e)
  BY <1>4 DEF Refuse, Probed
<1>5. CASE CancelStartup(e)
  BY <1>5 DEF CancelStartup
<1>6. CASE Leave(e)
  BY <1>6 DEF Leave
<1>7. CASE CloseClient(e)
  BY <1>7 DEF CloseClient
<1>8. CASE Exit(e)
  BY <1>8 DEF Exit
<1> QED BY <1>1, <1>2, <1>3, <1>4, <1>5, <1>6, <1>7, <1>8

(* A resource read changes nothing of the lifespan. *)
LEMMA ReadInv ==
  ASSUME HolderInv, NEW r \in ResourceReads, ReadBegins(r) \/ ReadEnds(r)
  PROVE  HolderInv'
BY DEF ReadBegins, ReadEnds, HolderInv, HolderType, ClientOpen, HolderServes

(* HolderInv is inductive. *)
LEMMA HolderStep == HolderInv /\ [LifespanNext]_lifespanVars => HolderInv'
<1> SUFFICES ASSUME HolderInv, [LifespanNext]_lifespanVars PROVE HolderInv'
  OBVIOUS
<1>1. CASE UNCHANGED lifespanVars
  BY <1>1 DEF lifespanVars, HolderInv, HolderType, ClientOpen, HolderServes
<1>2. CASE LifespanNext
  BY <1>2, EntryInv, ReadInv DEF LifespanNext
<1> QED BY <1>1, <1>2

(* For any number of entries and reads, and whatever the probes come to:    *)
(* the resources use the context of the one lifespan that serves, over an   *)
(* open client (build_server's holder, server.py).                          *)
THEOREM ResourcesAreServed == LifespanSpec => []HolderServes
<1>1. LifespanSpec => []HolderInv
  BY HolderInit, HolderStep, PTL DEF LifespanSpec
<1>2. HolderInv => HolderServes
  BY DEF HolderInv
<1> QED BY <1>1, <1>2, PTL
=============================================================================
