---------------------------- MODULE MCCubeEpisode ----------------------------
(* CubeEpisode with two environments, and joints of delays 2 and 1. *)
EXTENDS CubeEpisode

CONSTANTS thumb, little

MCActions == {-2, 1}
MCDelay(j) == IF j = thumb THEN 2 ELSE 1
=============================================================================
