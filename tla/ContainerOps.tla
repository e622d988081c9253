----------------------------- MODULE ContainerOps -----------------------------
(***************************************************************************)
(* Concurrent calls of the tools that change one container: start, pause,  *)
(* unpause, stop, restart, update and remove (tools/docker.py), with the   *)
(* confirmation gates of tools/_base.py and the resolution of short ids.   *)
(*                                                                         *)
(* A call is confirmed, for some tools also by a human, finds out which    *)
(* container it is about, and sends its mutation.  Every request is        *)
(* awaited; a request whose caller gave up may still be carried out.       *)
(* Updating recreates a container under a new id.                          *)
(***************************************************************************)
EXTENDS Sequences

CONSTANTS
  Calls,          \* the tool calls
  Ids,            \* the full ids of containers, those of the future included
  Nothing,        \* no container
  Refs,           \* the ids callers pass: full or short
  FullRefs,       \* those that are full ids
  Denotes,        \* the full ids each begins (one for a full id)
  Requests        \* the arguments of the calls

ASSUME NothingType == Nothing \notin Ids
ASSUME RefsType == FullRefs \subseteq Refs
ASSUME DenotesType ==
  /\ Denotes \in [Refs -> SUBSET Ids]
  /\ \A r \in FullRefs : \E k \in Ids : Denotes[r] = {k}

Tools == {"start", "pause", "unpause", "stop", "restart", "update", "remove"}

(* Tools whose resolver asks the human of a client that can be asked.       *)
Asking == {"stop", "restart", "update", "remove"}

(* human: what the human answers, or "nobody" if the client cannot ask.     *)
RequestType ==
  [tool: Tools, ref: Refs, confirm: BOOLEAN, human: {"accept", "refuse", "nobody"}]
ASSUME RequestsType == Requests \subseteq RequestType

VARIABLES
  native,    \* the server: its API build has docker.restart
  state,     \* the server: the state of every container
  pc,        \* where each call is
  req,       \* each call's arguments
  seen,      \* the containers in the listing a call looked its id up in
  target,    \* the container a call resolved its id to
  op,        \* the mutation a call has sent last
  flight,    \* the server: what became of it
  applied    \* history: the mutations carried out for each call

vars == <<native, state, pc, req, seen, target, op, flight, applied>>
server == <<native, state>>
sent == <<op, flight, applied>>

Alive == {"running", "paused", "exited"}
Existing == {k \in Ids : state[k] \in Alive}
Ended == {"ok", "rejected", "failed"}

Init ==
  /\ native \in BOOLEAN
  /\ state \in [Ids -> {"unused", "running", "exited"}]
  /\ pc = [c \in Calls |-> "idle"]
  /\ req \in [Calls -> Requests]
  /\ seen = [c \in Calls |-> {}]
  /\ target = [c \in Calls |-> Nothing]
  /\ op = [c \in Calls |-> "none"]
  /\ flight = [c \in Calls |-> "none"]
  /\ applied = [c \in Calls |-> << >>]

Goto(c, p) == pc' = [pc EXCEPT ![c] = p]

-----------------------------------------------------------------------------
(* The gates *)

MustAsk(r) == r.tool \in Asking /\ r.human # "nobody"

(* require_confirm: before any request, of the resolver and of the body.    *)
Unconfirmed(c) ==
  /\ pc[c] = "idle"
  /\ ~req[c].confirm
  /\ Goto(c, "rejected")
  /\ UNCHANGED <<server, req, seen, target, sent>>

Ask(c) ==
  /\ pc[c] = "idle"
  /\ req[c].confirm /\ MustAsk(req[c])
  /\ Goto(c, "asking")
  /\ UNCHANGED <<server, req, seen, target, sent>>

Approved(r) == r.human = "accept"

Refused(c) ==
  /\ pc[c] = "asking"
  /\ ~Approved(req[c])
  /\ Goto(c, "rejected")
  /\ UNCHANGED <<server, req, seen, target, sent>>

Cleared(c) ==
  \/ pc[c] = "idle" /\ req[c].confirm /\ ~MustAsk(req[c])
  \/ pc[c] = "asking" /\ Approved(req[c])

-----------------------------------------------------------------------------
(* resolve_container_id *)

PassThrough(c) ==
  /\ Cleared(c)
  /\ req[c].ref \in FullRefs
  /\ target' = [target EXCEPT ![c] = CHOOSE k \in Denotes[req[c].ref] : TRUE]
  /\ Goto(c, "resolved")
  /\ UNCHANGED <<server, req, seen, sent>>

LookUp(c) ==
  /\ Cleared(c)
  /\ req[c].ref \notin FullRefs
  /\ Goto(c, "looking")
  /\ UNCHANGED <<server, req, seen, target, sent>>

(* The rows of the listing: rows that came back empty are passed over.      *)
Listed(c) ==
  /\ pc[c] = "looking"
  /\ \E rows \in SUBSET Existing : seen' = [seen EXCEPT ![c] = rows]
  /\ Goto(c, "listed")
  /\ UNCHANGED <<server, req, target, sent>>

Found(c) == Denotes[req[c].ref] \cap seen[c]

(* _pick_container: exactly one match, or an error.                         *)
Picks(c) == \E k \in seen[c] : Found(c) = {k}

PickContainer(c) ==
  /\ pc[c] = "listed"
  /\ Picks(c)
  /\ \E k \in Found(c) : target' = [target EXCEPT ![c] = k]
  /\ Goto(c, "resolved")
  /\ UNCHANGED <<server, req, seen, sent>>

(* No match in the listing, or several.                                     *)
NotResolved(c) ==
  /\ pc[c] = "listed"
  /\ ~Picks(c)
  /\ Goto(c, "rejected")
  /\ UNCHANGED <<server, req, seen, target, sent>>

ListingFails(c) ==
  /\ pc[c] = "looking"
  /\ Goto(c, "failed")
  /\ UNCHANGED <<server, req, seen, target, sent>>

-----------------------------------------------------------------------------
(* The mutation *)

Send(c, o) ==
  /\ op' = [op EXCEPT ![c] = o]
  /\ flight' = [flight EXCEPT ![c] = "inflight"]
  /\ Goto(c, "waiting")
  /\ UNCHANGED <<server, req, seen, target, applied>>

SendFirst(c) ==
  /\ pc[c] = "resolved"
  /\ Send(c, req[c].tool)

(* What the server does with a mutation it accepts.                         *)
Effect(k, o) ==
  CASE o \in {"start", "unpause", "restart"} -> state' = [state EXCEPT ![k] = "running"]
    [] o = "pause" -> state' = [state EXCEPT ![k] = "paused"]
    [] o = "stop" -> state' = [state EXCEPT ![k] = "exited"]
    [] o = "remove" -> state' = [state EXCEPT ![k] = "removed"]
    [] o = "update" ->
         \E new \in {j \in Ids : state[j] = "unused"} :
           state' = [state EXCEPT ![k] = "removed", ![new] = state[k]]

Supported(o) == o = "restart" => native

ServerApply(c) ==
  /\ flight[c] = "inflight"
  /\ Supported(op[c])
  /\ target[c] \in Existing
  /\ Effect(target[c], op[c])
  /\ flight' = [flight EXCEPT ![c] = "applied"]
  /\ applied' = [applied EXCEPT ![c] = Append(@, op[c])]
  /\ UNCHANGED <<native, pc, req, seen, target, op>>

(* An error, a container that is gone, or a result that says no.            *)
ServerDecline(c) ==
  /\ flight[c] = "inflight"
  /\ flight' = [flight EXCEPT ![c] = IF Supported(op[c]) THEN "declined" ELSE "unsupported"]
  /\ UNCHANGED <<server, pc, req, seen, target, op, applied>>

Succeeds(c) ==
  /\ pc[c] = "waiting" /\ flight[c] = "applied"
  /\ op[c] = req[c].tool \/ op[c] = "start"
  /\ Goto(c, "ok")
  /\ UNCHANGED <<server, req, seen, target, sent>>

(* Mutant: any error of the restart is met with a stop and a start.         *)
FallBack_OnAnyError(c) ==
  /\ pc[c] = "waiting" /\ flight[c] \in {"unsupported", "declined"}
  /\ req[c].tool = "restart" /\ op[c] = "restart"
  /\ Send(c, "stop")

(* An older build without docker.restart: stop, then start.                 *)
FallBack(c) ==
  /\ pc[c] = "waiting" /\ flight[c] = "unsupported"
  /\ Send(c, "stop")

(* Mutant: the container is started whatever became of the stop.            *)
StartAgain_Anyway(c) ==
  /\ pc[c] = "waiting" /\ flight[c] \in {"applied", "declined"}
  /\ req[c].tool = "restart" /\ op[c] = "stop"
  /\ Send(c, "start")

StartAgain(c) ==
  /\ pc[c] = "waiting" /\ flight[c] = "applied"
  /\ req[c].tool = "restart" /\ op[c] = "stop"
  /\ Send(c, "start")

Declined(c) ==
  /\ pc[c] = "waiting" /\ flight[c] = "declined"
  /\ Goto(c, "failed")
  /\ UNCHANGED <<server, req, seen, target, sent>>

(* Mutant: a timeout is reported as if nothing had been sent.               *)
GiveUp_AsRejection(c) ==
  /\ pc[c] = "waiting"
  /\ Goto(c, "rejected")
  /\ UNCHANGED <<server, req, seen, target, sent>>

(* A timeout or a lost connection: the request may be lost, or carried out  *)
(* now or later.                                                            *)
GiveUp(c) ==
  /\ pc[c] = "waiting"
  /\ Goto(c, "failed")
  /\ UNCHANGED <<server, req, seen, target, sent>>

Cancel(c) ==
  /\ pc[c] \in {"asking", "listed", "resolved"}
  /\ Goto(c, "failed")
  /\ UNCHANGED <<server, req, seen, target, sent>>

Next ==
  \E c \in Calls :
    \/ Unconfirmed(c) \/ Ask(c) \/ Refused(c)
    \/ PassThrough(c) \/ LookUp(c) \/ Listed(c) \/ PickContainer(c)
    \/ NotResolved(c) \/ ListingFails(c)
    \/ SendFirst(c) \/ ServerApply(c) \/ ServerDecline(c)
    \/ Succeeds(c) \/ FallBack(c) \/ StartAgain(c) \/ Declined(c)
    \/ GiveUp(c) \/ Cancel(c)

Spec == Init /\ [][Next]_vars

-----------------------------------------------------------------------------
PlanOf(r) == {<<r.tool>>} \cup (IF r.tool = "restart" THEN {<<"stop", "start">>} ELSE {})

(* What each container the call's id may mean it to be about: for a short   *)
(* id those of the listing it was looked up in.                             *)
Meant(c) ==
  IF req[c].ref \in FullRefs THEN Denotes[req[c].ref] ELSE Denotes[req[c].ref] \cap seen[c]

(* A reported success is one: everything the call had to do was done, a     *)
(* restart's stop and start both; and whatever a call sends is about the    *)
(* only container its id can mean, whatever was created, removed or         *)
(* recreated since.                                                         *)
SuccessMeansDone ==
  \A c \in Calls :
    /\ pc[c] = "ok" => applied[c] \in PlanOf(req[c])
    /\ op[c] # "none" => Meant(c) = {target[c]}

(* "Nothing was changed": a call that reports a rejection sent no mutation, *)
(* neither then nor later.                                                  *)
RejectedChangedNothing ==
  \A c \in Calls : pc[c] = "rejected" => op[c] = "none" /\ applied[c] = << >>

(* A restart that failed has left no container stopped, where the API has   *)
(* docker.restart: only a build without it may (do_restart_container).      *)
RestartLeavesNothingStopped ==
  native =>
    \A c \in Calls : req[c].tool = "restart" => applied[c] # <<"stop">>
=============================================================================
