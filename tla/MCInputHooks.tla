------------------------------ MODULE MCInputHooks ------------------------------
(* InputHooks with devices of every kind on a shared vtable, and of both      *)
(* hooked kinds on another.                                                   *)
EXTENDS InputHooks

CONSTANTS v1, v2, k1, p1, m1, k2, p2

MCVtable == [d \in {k1, p1, m1, k2, p2} |-> IF d \in {k2, p2} THEN v2 ELSE v1]
MCKind == [d \in {k1, p1, m1, k2, p2} |->
             CASE d \in {k1, k2} -> "keyboard" [] d \in {p1, p2} -> "gamepad"
               [] d = m1 -> NoHook]
=============================================================================
