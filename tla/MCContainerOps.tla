---------------------------- MODULE MCContainerOps ----------------------------
(***************************************************************************)
(* Small instances of ContainerOps for TLC.                                *)
(***************************************************************************)
EXTENDS ContainerOps, TLC

CONSTANTS plex, sonarr, spare, c1, c2

TwoCalls == {c1, c2}
ThreeIds == {plex, sonarr, spare}

(* Full ids, a short id of plex alone, and one all three begin with.        *)
ExampleRefs == {"plex", "plex_short", "shared_short"}
ExampleFull == {"plex"}
ExampleDenotes ==
  [r \in ExampleRefs |-> IF r = "shared_short" THEN ThreeIds ELSE {plex}]

Request(tool, ref, confirm, human) ==
  [tool |-> tool, ref |-> ref, confirm |-> confirm, human |-> human]

ExampleRequests ==
  {Request(t, "shared_short", TRUE, "nobody") : t \in {"restart", "update", "remove"}}
  \cup {Request(t, "plex_short", TRUE, "accept") : t \in {"stop", "restart", "update"}}
  \cup {Request("remove", "plex", TRUE, "accept"), Request("restart", "plex", TRUE, "refuse"),
        Request("pause", "plex", TRUE, "refuse"), Request("start", "plex", FALSE, "nobody"),
        Request("start", "plex", TRUE, "nobody"), Request("unpause", "plex_short", TRUE, "nobody")}

CallSymmetry == Permutations(Calls)
=============================================================================
