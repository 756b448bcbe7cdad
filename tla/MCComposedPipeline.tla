------------------------- MODULE MCComposedPipeline -------------------------
(* Two routes and two processes: one dispatches while the other stops,      *)
(* updates or reopens.  Where both do everything they are interchangeable.  *)
EXTENDS ComposedPipeline, TLC

RouteSymmetry == Permutations(Routes)
Symmetry == Permutations(Processes) \cup RouteSymmetry
=============================================================================
