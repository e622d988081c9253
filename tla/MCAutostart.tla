----------------------------- MODULE MCAutostart -----------------------------
(***************************************************************************)
(* Small instances of Autostart for TLC.                                   *)
(***************************************************************************)
EXTENDS Autostart

CONSTANTS plex, sonarr, radarr, c1, c2

TwoCalls == {c1, c2}
TwoContainers == {plex, sonarr}
ThreeContainers == {plex, sonarr, radarr}

(* Texts: a full id of each container, a short id of plex, a short id two    *)
(* containers share, and an id nobody has.                                  *)
ExampleRefs == {"plex", "sonarr", "radarr", "plex_short", "shared_short", "gone"}
ExampleDenotes ==
  [r \in ExampleRefs |->
     CASE r \in {"plex", "plex_short"} -> {plex}
       [] r = "sonarr" -> {sonarr}
       [] r = "radarr" -> {radarr} \cap Containers
       [] r = "shared_short" -> {plex, sonarr}
       [] r = "gone" -> {}]
ExampleWaits == {5}
NoWaitKey == 0

Enable(ref, wait) == [ref |-> ref, auto |-> TRUE, wait |-> wait]
Disable(ref) == [ref |-> ref, auto |-> FALSE, wait |-> NoWaitKey]
Request(changes, order) ==
  [confirm |-> TRUE, changes |-> changes, ordered |-> order # << >>, order |-> order]

(* Requests that conflict with each other on both containers. *)
Conflicting ==
  {Request(<<Enable("plex_short", 5)>>, << >>),
   Request(<<Disable("plex")>>, << >>),
   Request(<<Enable("sonarr", NoWaitKey)>>, <<"sonarr">>),
   Request(<<Enable("sonarr", 5), Disable("plex")>>, << >>)}

(* Requests the code must turn down, each for another reason. *)
Unacceptable ==
  {[Request(<<Disable("plex")>>, << >>) EXCEPT !.confirm = FALSE],
   [Request(<<Disable("plex")>>, << >>) EXCEPT !.ordered = TRUE],
   Request(<<Disable("plex"), Enable("plex", 5)>>, << >>),
   Request(<<Disable("plex"), Enable("plex_short", 5)>>, << >>),
   Request(<<Disable("gone")>>, << >>),
   Request(<<Disable("shared_short")>>, << >>),
   Request(<<Enable("sonarr", 5)>>, <<"sonarr", "plex", "plex_short">>),
   Request(<<Disable("sonarr")>>, <<"sonarr">>)}

AllRequests == Conflicting \cup Unacceptable
FewRequests ==
  {Request(<<Enable("plex_short", 5)>>, << >>),
   Request(<<Disable("plex")>>, << >>),
   Request(<<Enable("sonarr", NoWaitKey)>>, <<"sonarr">>)}

(* Two that name two containers and differ about one, and one that moves a   *)
(* container to the front of two it says nothing about.                     *)
ReorderingRequests ==
  {Request(<<Disable("plex"), Enable("sonarr", NoWaitKey)>>, << >>),
   Request(<<Enable("radarr", NoWaitKey), Enable("plex", 5)>>, <<"radarr", "plex">>),
   Request(<<Enable("radarr", 5)>>, <<"radarr">>)}

NoLists == {}
SomeLists == {EmptyList}
=============================================================================
