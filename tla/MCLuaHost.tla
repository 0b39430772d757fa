------------------------------ MODULE MCLuaHost ------------------------------
(* LuaHost with one event besides the overlay's.  It stands for the events    *)
(* whose wrappers leave errors on the stack (goal_scored) and for that whose  *)
(* wrapper pops twice (set_stadium), so that each module can have handlers    *)
(* of both kinds in few states.                                               *)
EXTENDS LuaHost

CONSTANT match_event

MCEvents == {OverlayOn, match_event}
MCFaulty == {match_event}
=============================================================================
