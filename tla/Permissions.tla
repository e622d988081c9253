------------------------------ MODULE Permissions ------------------------------
(***************************************************************************)
(* How a server starts (cli.py) and which tools it publishes (tools/       *)
(* __init__.py), and the way of one call through its gates (tools/         *)
(* _base.py), over HTTP behind those of HttpGate, while the operator       *)
(* restarts the server with other settings.  A client calls whatever it    *)
(* likes: its list of tools, or its token, may be an old one.              *)
(*                                                                         *)
(* A modern client is asked by an answer that it repeats the call with     *)
(* (InputRequiredResult): the second call may meet another process.  A     *)
(* legacy client is asked while the call waits, over stdio only.           *)
(***************************************************************************)
EXTENDS Tools, HttpGate

CONSTANTS
  NoFilter,      \* UNRAID_MCP_TOOLS is blank
  Environments,  \* what the operator may set
  Documents,     \* documents of run_graphql_query: sets of kinds of operations
  Requests       \* the HTTP requests clients make

(* UNRAID_...: hosts says whether UNRAID_MCP_ALLOWED_HOSTS is set, list is  *)
(* a set of names.                                                          *)
ASSUME EnvironmentsType ==
  Environments \subseteq
    [api: {"valid", "invalid"}, bearer: {"unset", "weak", "configured"},
     mutations: BOOLEAN, dangerous: BOOLEAN, raw: BOOLEAN,
     http: BOOLEAN, localhost: BOOLEAN, hosts: BOOLEAN,
     list: {NoFilter} \cup (SUBSET STRING \ {{}})]
ASSUME DocumentsType == Documents \subseteq SUBSET {"query", "mutation", "subscription"}
ASSUME RequestsType ==
  Requests \subseteq
    [type: {"http", "websocket"}, what: {"GET /health", "POST /mcp"},
     host: {"known", "foreign"}, origin: Seq({"", "listed", "foreign"}),
     authorization: Seq(Tokens \cup {"wrong"})]

VARIABLES
  settings,    \* of the process that runs
  gate,        \* the bearer token its HTTP gate takes
  drawn,       \* history: how many tokens were generated, and logged
  up,          \* whether it runs
  registered,  \* the tools it publishes
  pc,          \* where the call is
  call,        \* what it is
  request,     \* the HTTP request it came with
  answer,      \* what the human has answered to it
  effect       \* what was sent to the Unraid API for it

process == <<settings, gate, drawn, up, registered>>
vars == <<process, pc, call, request, answer, effect>>

(* Reads have no confirm flag, and only the raw query takes a document.     *)
Calls ==
  {c \in [tool: Catalog, action: UNION {Actions(t) : t \in Catalog}, confirm: BOOLEAN,
          args: {"fine", "undeclared", "invalid"}, document: Documents \cup {{}},
          client: {"plain", "legacy", "modern"}] :
     /\ c.action \in Actions(c.tool)
     /\ c.tool \in Reads \cup Raw => ~c.confirm
     /\ c.tool \in Raw <=> c.document # {}}

NoCall == [tool |-> "whoami", action |-> "none", confirm |-> FALSE, args |-> "fine",
           document |-> {}, client |-> "plain"]
NoRequest == [type |-> "stdio"]

-----------------------------------------------------------------------------
(* _TIERS                                                                   *)
Enabled(s) ==
  Reads \cup (IF s.mutations THEN Mutations ELSE {})
        \cup (IF s.mutations /\ s.dangerous THEN Dangerous ELSE {})
        \cup (IF s.raw THEN Raw ELSE {})

(* register_all, _apply_allow_list                                          *)
Published(s) == IF s.list = NoFilter THEN Enabled(s) ELSE Enabled(s) \cap s.list

(* A name that is in no tier is an UnraidConfigError.                       *)
Starts(s) == Loads(s) /\ ~Refuses(s) /\ (s.list # NoFilter => s.list \subseteq Catalog)

NoSettings == [api |-> "valid", mutations |-> FALSE, dangerous |-> FALSE, raw |-> FALSE,
               list |-> NoFilter, http |-> FALSE, localhost |-> TRUE, hosts |-> FALSE,
               bearer |-> "unset"]

(* main, _serve_http: settings are completed before secrets are scrubbed    *)
(* and tools registered, and once more before the gate is built.            *)
Start ==
  /\ ~up
  /\ \E s \in Environments :
       /\ Starts(s)
       /\ Generates(s) => drawn + 1 < Len(Generated)   \* bound
       /\ LET main == WithBearerToken(s, drawn)
              serve == WithBearerToken(main, drawn + Drawn(s))
          IN  /\ settings' = main
              /\ drawn' = drawn + Drawn(s) + Drawn(main)
              /\ gate' = IF s.http THEN serve.bearer ELSE "none"
              /\ registered' = Published(main)
  /\ up' = TRUE
  /\ UNCHANGED <<pc, call, request, answer, effect>>

End ==
  /\ pc' = "idle" /\ call' = NoCall /\ request' = NoRequest
  /\ answer' = "none" /\ effect' = "none"

(* What the process was at is lost; a modern client that was asked waits    *)
(* for nothing from it.                                                     *)
Waiting == call.client = "modern" /\ (pc = "asking" \/ (pc = "calling" /\ answer # "none"))

Stop ==
  /\ up
  /\ up' = FALSE
  /\ settings' = NoSettings /\ gate' = "none" /\ registered' = {}
  /\ IF Waiting THEN UNCHANGED <<pc, call, request, answer, effect>> ELSE End
  /\ UNCHANGED drawn

Init ==
  /\ settings = NoSettings /\ gate = "none" /\ drawn = 0
  /\ up = FALSE /\ registered = {}
  /\ pc = "idle" /\ call = NoCall /\ request = NoRequest
  /\ answer = "none" /\ effect = "none"

-----------------------------------------------------------------------------
(* A client calls any tool, whether this process publishes it or not.       *)
Call ==
  /\ up /\ pc = "idle"
  /\ call' \in Calls
  /\ pc' = "calling"
  /\ UNCHANGED <<process, request, answer, effect>>

(* The call, or its repetition, is let through to the SDK.                  *)
Arrive ==
  /\ up /\ pc = "calling"
  /\ IF settings.http
     THEN \E r \in Requests : Answer(settings, gate, r) = "served" /\ request' = r
     ELSE request' = NoRequest
  /\ pc' = "arrived"
  /\ UNCHANGED <<process, call, answer, effect>>

(* It is not, and the client gives up.                                      *)
TurnedAway ==
  /\ up /\ pc = "calling" /\ settings.http
  /\ \E r \in Requests : Answer(settings, gate, r) # "served"
  /\ End /\ UNCHANGED process

(* Mutant: the repeated call is not looked up again.                        *)
Known_OnceAsked == answer # "none" \/ call.tool \in registered
Known == call.tool \in registered

Unknown ==
  /\ pc = "arrived" /\ ~Known
  /\ End /\ UNCHANGED process

(* _can_elicit                                                              *)
CanElicit == call.client = "modern" \/ (call.client = "legacy" /\ ~settings.http)

(* What the resolver checks before it asks: the batch update its ids, too.  *)
Askable ==
  /\ call.args # "undeclared" /\ call.confirm
  /\ call.tool = "update_docker_containers" => call.args = "fine"

(* require_confirmation                                                     *)
MustAsk == call.tool \in Asks /\ CanElicit /\ answer = "none"

Ask ==
  /\ pc = "arrived" /\ Known
  /\ Askable /\ MustAsk
  /\ pc' = "asking"
  /\ UNCHANGED <<process, call, request, answer, effect>>

(* The human answers; a modern client then repeats the call.                *)
Answered ==
  /\ pc = "asking"
  /\ answer' \in {"proceed", "refuse", "dismiss"}
  /\ IF call.client = "modern" THEN pc' = "calling" /\ request' = NoRequest
     ELSE pc' = "arrived" /\ UNCHANGED request
  /\ UNCHANGED <<process, call, effect>>

(* Mutant: only an explicit no counts.                                      *)
Declined_ExplicitOnly == answer = "refuse"
(* guarded: anything but an accepted proceed.                               *)
Declined == answer \notin {"none", "proceed"}

(* _ensure_read_only                                                        *)
ReadOnlyQuery == call.document = {"query"}

(* Checked arguments, the confirm flag of everything that mutates, and the  *)
(* operations of a raw document.                                            *)
Accepted ==
  /\ call.args = "fine" /\ ~Declined
  /\ call.tool \in Mutations \cup Dangerous => call.confirm
  /\ call.tool \in Raw => ReadOnlyQuery

Reject ==
  /\ pc = "arrived" /\ Known
  /\ MustAsk => ~Askable
  /\ ~Accepted
  /\ End /\ UNCHANGED process

(* The tool's request is sent.                                              *)
Perform ==
  /\ pc = "arrived" /\ Known
  /\ ~MustAsk /\ Accepted
  /\ pc' = "performing"
  /\ effect' = IF call.tool \in Mutations \cup Dangerous THEN Mutation(call.tool, call.action)
               ELSE IF "mutation" \in call.document THEN "any" ELSE "read"
  /\ UNCHANGED <<process, call, request, answer>>

(* The Unraid API answers, or its time is up.                               *)
Performed ==
  /\ pc = "performing"
  /\ End /\ UNCHANGED process

Next ==
  \/ Start \/ Stop \/ Call \/ Arrive \/ TurnedAway
  \/ Unknown \/ Ask \/ Answered \/ Reject \/ Perform \/ Performed

Spec == Init /\ [][Next]_vars

-----------------------------------------------------------------------------
Sent == effect' # effect /\ effect' # "none"

(* What the dangerous tier is for: docs/security.md:70-77.                  *)
HighBlastRadius == {"array.mountArrayDisk", "array.unmountArrayDisk",
  "array.clearArrayDiskStatistics", "array.addDiskToArray", "docker.removeContainer",
  "docker.updateAllContainers", "any"}

(* What interrupts what runs, or cannot be undone.                          *)
Disruptive == HighBlastRadius \cup
  {"array.setState(STOP)", "docker.stop", "docker.restart", "docker.updateContainer",
   "docker.updateContainers", "vm.stop", "vm.reboot", "vm.forceStop", "vm.reset",
   "archiveAll", "deleteNotification", "deleteArchivedNotifications"}

(* Nothing is sent that the settings of the running process withhold, be it *)
(* called from an old list, or approved by a human before a restart: no     *)
(* mutation without allow_mutations, none of a high blast radius without    *)
(* allow_dangerous as well (docs/security.md:39-49), whatever tool does it. *)
NothingBeyondSettings ==
  [][Sent =>
       /\ effect' # "read" => settings.mutations
       /\ effect' \in HighBlastRadius => settings.dangerous
       /\ call.tool \in Raw => settings.raw
       /\ settings.list # NoFilter => call.tool \in settings.list]_vars

(* Nothing disruptive is sent without the confirm flag and, where the       *)
(* client can be asked, without a human who agreed to it: a prompt          *)
(* dismissed, or lost with its process, is no agreement.                    *)
DestructiveIsAgreed ==
  [][Sent /\ effect' \in Disruptive =>
       /\ call.confirm
       /\ call.client = "modern" \/ (call.client = "legacy" /\ ~settings.http)
            => answer = "proceed"]_vars

(* Over HTTP nothing is sent for a request but one whose only Authorization *)
(* header is the token of the process that sends it, which no page of a     *)
(* foreign origin made: not for a token of an earlier run, not for the      *)
(* repetition of a call whose first request was let through.  And it is the *)
(* token that is scrubbed from logs and results (settings.bearer), one the  *)
(* operator knows: configured, or generated, on localhost only, and logged. *)
OnlyBearersAct ==
  [][Sent /\ settings.http =>
       /\ request.type = "http"
       /\ request.authorization = <<settings.bearer>>
       /\ \A i \in DOMAIN request.origin : request.origin[i] # "foreign"
       /\ settings.localhost => request.host = "known"
       /\ settings.bearer # "configured" =>
            settings.localhost /\ settings.bearer = Generated[drawn]]_vars
=============================================================================
