--------------------------- MODULE MCAutostartList ---------------------------
(***************************************************************************)
(* Every listing of three containers and every request of at most two      *)
(* changes and two order entries, over four texts.                         *)
(***************************************************************************)
EXTENDS AutostartList

CONSTANTS plex, sonarr, radarr

MCContainers == {plex, sonarr, radarr}
MCRefs == {"plex", "sonarr", "radarr", "plex_short", "gone"}
MCDenotes ==
  [r \in MCRefs |->
     CASE r \in {"plex", "plex_short"} -> {plex}
       [] r = "sonarr" -> {sonarr}
       [] r = "radarr" -> {radarr}
       [] r = "gone" -> {}]
MCWaits == {5, 7}
MCNoWait == 0

Row(id, wait) ==
  {[id |-> id, auto |-> FALSE, order |-> NoOrder, wait |-> MCNoWait]}
  \cup {[id |-> id, auto |-> TRUE, order |-> n, wait |-> wait] : n \in {1, 2, NoOrder}}
MCRowLists ==
  {<<x, y, z>> : x \in Row(plex, 5), y \in Row(sonarr, MCNoWait), z \in Row(radarr, 7)}

SomeChanges ==
  {[ref |-> r, auto |-> FALSE, wait |-> MCNoWait] :
     r \in {"plex", "plex_short", "radarr"}}
  \cup {[ref |-> r, auto |-> TRUE, wait |-> w] :
          r \in {"plex", "sonarr", "radarr"}, w \in {MCNoWait, 7}}
  \cup {[ref |-> "gone", auto |-> TRUE, wait |-> MCNoWait]}
ChangeLists == {<<x>> : x \in SomeChanges} \cup (SomeChanges \X SomeChanges)
OrderRefs == {"plex", "plex_short", "sonarr", "radarr"}
Orders == {<< >>} \cup {<<x>> : x \in OrderRefs} \cup (OrderRefs \X OrderRefs)
MCRequests ==
  {[confirm |-> TRUE, changes |-> c, ordered |-> o # << >>, order |-> o] :
     c \in ChangeLists, o \in Orders}
=============================================================================
