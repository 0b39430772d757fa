------------------------------- MODULE MCOverlay -------------------------------
(* Overlay with three modules: a switch has a module to skip, and the vector *)
(* an end to wrap at.  All subsets of them are tried as those with overlays. *)
EXTENDS Overlay
=============================================================================
