---------------------------- MODULE MCVisualizer ----------------------------
(* Model-checking instances of Visualizer. *)
EXTENDS Visualizer
=============================================================================
