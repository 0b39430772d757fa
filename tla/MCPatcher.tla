------------------------------ MODULE MCPatcher ------------------------------
(* Two releases that have a patch and one, shorter, that has none.  The      *)
(* patches agree with the other release in their first byte.                 *)
EXTENDS Patcher, TLC

CONSTANTS r1, r2, r3

MCOriginal == r1 :> <<0, 1, 2>> @@ r2 :> <<0, 2, 1>> @@ r3 :> <<0, 1>>

MCChange(o, b, n) == [offset |-> o, old_val |-> b, new_val |-> n]

MCPatches ==
  << <<MCChange(1, 0, 3), MCChange(2, 1, 3), MCChange(3, 2, 0)>>,
     <<MCChange(1, 0, 3), MCChange(2, 2, 0), MCChange(3, 1, 3)>> >>

MCPatchOf == r1 :> 1 @@ r2 :> 2 @@ r3 :> 0
=============================================================================
