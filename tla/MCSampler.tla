------------------------------- MODULE MCSampler -------------------------------
(***************************************************************************)
(* Three containers.                                                       *)
(***************************************************************************)
EXTENDS Sampler

CONSTANTS plex, sonarr, radarr

ThreeContainers == {plex, sonarr, radarr}
=============================================================================
