-------------------------- MODULE MCLayerPlacement --------------------------
(* Two workers and a contributor, of a model of four layers.               *)
EXTENDS LayerPlacement

CONSTANTS a, b, c
=============================================================================
