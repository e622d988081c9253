--------------------------- MODULE AtomicAutostart ---------------------------
(***************************************************************************)
(* What set_docker_autostart promises: each call changes the autostart     *)
(* list at most once, in one step, by merging its own changes into the     *)
(* list as it then is, while the call is open; a call that reports success *)
(* did so and a call that reports a rejection did not.                     *)
(***************************************************************************)
EXTENDS AutostartMerge

CONSTANTS Calls, Requests

VARIABLES
  boot,    \* the autostart list
  asked,   \* each call's arguments
  stage,   \* "new", "open", or how the call ended
  merged   \* the calls whose changes are in

avars == <<boot, asked, stage, merged>>

Init ==
  /\ boot \in {b \in BootLists : WellOrdered(b)}
  /\ asked \in [Calls -> Requests]
  /\ stage = [c \in Calls |-> "new"]
  /\ merged = {}

Open(c) ==
  /\ stage[c] = "new"
  /\ ValidateArguments(asked[c])
  /\ stage' = [stage EXCEPT ![c] = "open"]
  /\ UNCHANGED <<boot, asked, merged>>

Merge(c) ==
  /\ stage[c] = "open"
  /\ c \notin merged
  /\ Accepts(boot, asked[c], Containers)
  /\ boot' = MergeAutostart(boot, asked[c], Containers)
  /\ merged' = merged \cup {c}
  /\ UNCHANGED <<asked, stage>>

Succeed(c) ==
  /\ stage[c] = "open"
  /\ c \in merged
  /\ stage' = [stage EXCEPT ![c] = "ok"]
  /\ UNCHANGED <<boot, asked, merged>>

Reject(c) ==
  /\ stage[c] \in {"new", "open"}
  /\ c \notin merged
  /\ stage' = [stage EXCEPT ![c] = "rejected"]
  /\ UNCHANGED <<boot, asked, merged>>

(* A failure says nothing of whether the changes are in. *)
Fail(c) ==
  /\ stage[c] = "open"
  /\ stage' = [stage EXCEPT ![c] = "failed"]
  /\ UNCHANGED <<boot, asked, merged>>

Next ==
  \E c \in Calls : Open(c) \/ Merge(c) \/ Succeed(c) \/ Reject(c) \/ Fail(c)

Spec == Init /\ [][Next]_avars
=============================================================================
