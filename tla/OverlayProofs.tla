----------------------------- MODULE OverlayProofs -----------------------------
(***************************************************************************)
(* The overlay, for any number of modules: where the pointer can point,    *)
(* and what is shown and blocked as long as the two devices and the        *)
(* reloads keep out of one another's way.                                  *)
(***************************************************************************)
EXTENDS Overlay, WellFoundedInduction, TLAPS

(* A set of modules has an earliest one.                                   *)
LEMMA MinIsThere ==
  ASSUME NEW S \in SUBSET Modules, S # {}
  PROVE  Min(S) \in S
<1>1. S \subseteq Nat
  BY OverlayAssumption DEF Modules
<1>2. \E x \in S : \A y \in S : ~(<<y, x>> \in OpToRel(<, Nat))
  BY <1>1, NatLessThanWellFounded, WFMin, Zenon
<1>3. \E x \in S : \A y \in S : ~(y < x)
  BY <1>1, <1>2 DEF OpToRel
<1>4. \A x, y \in S : ~(y < x) => x <= y
  BY <1>1
<1>5. \E x \in S : \A y \in S : x <= y
  BY <1>3, <1>4, Zenon
<1> QED BY <1>5, Zenon DEF Min

(* end() is not a module.                                                  *)
LEMMA EndIsNoModule == End \notin Modules
BY OverlayAssumption DEF End, Modules

(* Where the pointer starts.                                               *)
LEMMA EarliestIsThere ==
  ASSUME NEW S \in SUBSET Modules
  PROVE  Earliest(S) \in S \cup {End}
BY MinIsThere DEF Earliest

(* A scan stays within the vector.                                         *)
LEMMA AfterIsThere ==
  ASSUME NEW way, NEW j \in Modules
  PROVE  After(way, j) \in Modules
BY OverlayAssumption DEF After, Modules

(* A reload leaves a pointer to a module at a module.                      *)
LEMMA AdvancedIsThere ==
  ASSUME curr \in Modules \cup {End}, NEW m \in Modules, NEW S \in SUBSET Modules
  PROVE  /\ Advanced(m, S) \in Modules \cup {End}
         /\ curr # End => Advanced(m, S) # End
<1> DEFINE L == {k \in S : k > m}
<1>1. \/ (\E k \in S : k > m) /\ Advanced(m, S) = Min(L)
      \/ S # {} /\ Advanced(m, S) = Min(S)
      \/ curr = End /\ Advanced(m, S) = Earliest(S)
      \/ Advanced(m, S) = curr
  <2>1. m \in Nat /\ S \subseteq Nat
    BY OverlayAssumption DEF Modules
  <2>2. (\E k \in S : k > m) => ~\A k \in S : k < m
    BY <2>1
  <2> QED BY <2>2 DEF Advanced
<1>2. CASE (\E k \in S : k > m) /\ Advanced(m, S) = Min(L)
  <2>1. Min(L) \in L
    BY <1>2, MinIsThere
  <2> QED BY <1>2, <2>1, EndIsNoModule
<1>3. CASE S # {} /\ Advanced(m, S) = Min(S)
  BY <1>3, MinIsThere, EndIsNoModule
<1>4. CASE curr = End /\ Advanced(m, S) = Earliest(S)
  BY <1>4, EarliestIsThere
<1>5. CASE Advanced(m, S) = curr
  BY <1>5
<1> QED BY <1>1, <1>2, <1>3, <1>4, <1>5

-----------------------------------------------------------------------------
(* Types.  A thread that has found the pointer not to be end() dereferences *)
(* it later, so that what it reads is a module needs that it stays one.     *)

Pointing ==
  \A d \in Devices :
    pc[d] \notin {"idle", "flip", "dispatch", "read"} => curr # End

TypeInv == TypeOK /\ Pointing

LEMMA InitTypeInv == Init => TypeInv
<1> SUFFICES ASSUME Init PROVE TypeInv
  OBVIOUS
<1>1. Earliest(has) \in Modules \cup {End}
  BY EarliestIsThere DEF Init
<1> QED BY <1>1 DEF Init, TypeInv, TypeOK, Labels, Aimed, Pointing

(* Every step of a device keeps the types.                                 *)
LEMMA StepTypeOK ==
  ASSUME TypeInv, NEW d \in Devices, Step(d)
  PROVE  TypeOK'
<1> USE DEF TypeInv, TypeOK, Labels, Aimed, input, Goto
<1>1. CASE Toggle(d)
  BY <1>1 DEF Toggle, Begin
<1>2. CASE Flip(d)
  BY <1>2 DEF Flip
<1>3. CASE Dispatch(d)
  BY <1>3 DEF Dispatch
<1>4. ASSUME NEW way \in {"next", "prev"}, Switch(d, way) PROVE TypeOK'
  BY <1>4 DEF Switch, Begin
<1>5. CASE Read(d)
  BY <1>5 DEF Read, Return
<1>6. CASE Dereference(d)
  <2>1. curr \in Modules
    BY <1>6 DEF Dereference, Pointing
  <2> QED BY <1>6, <2>1 DEF Dereference
<1>7. CASE Show(d)
  BY <1>7 DEF Show, Return
<1>8. CASE Hide(d)
  BY <1>8 DEF Hide, Released, Return
<1>9. CASE Scan(d)
  <2>1. curr \in Modules
    BY <1>9 DEF Scan, Pointing
  <2> QED BY <1>9, <2>1 DEF Scan
<1>10. CASE ScanStep(d)
  <2>1. After(dir[d], target[d]) \in Modules
    BY <1>10, AfterIsThere DEF ScanStep
  <2> QED BY <1>10, <2>1 DEF ScanStep
<1>11. CASE ScanAgain(d)
  BY <1>11 DEF ScanAgain, Return
<1>12. CASE Move(d)
  BY <1>12 DEF Move
<1> QED BY <1>1, <1>2, <1>3, <1>4, <1>5, <1>6, <1>7, <1>8, <1>9, <1>10, <1>11, <1>12 DEF Step

(* No step makes a pointer to a module end().                              *)
LEMMA PointerKept ==
  ASSUME TypeInv, [Next]_vars, curr # End
  PROVE  curr' # End
<1> USE DEF TypeInv
<1>1. ASSUME NEW d \in Devices, Step(d) PROVE curr' # End
  <2>1. CASE Move(d)
    BY <2>1, EndIsNoModule DEF Move, TypeOK, Aimed
  <2>2. CASE ~Move(d)
    BY <1>1, <2>2 DEF Step, Toggle, Flip, Dispatch, Switch, Read, Dereference, Show, Hide,
                      Scan, ScanStep, ScanAgain
  <2> QED BY <2>1, <2>2
<1>2. ASSUME NEW m \in Modules, NEW val \in BOOLEAN, NEW arguments \in 1..2,
             SetBlocked(m, val, arguments)
      PROVE  curr' # End
  BY <1>2 DEF SetBlocked
<1>3. ASSUME NEW m \in Modules, Reload(m) PROVE curr' # End
  <2>1. has' \in SUBSET Modules
    BY <1>3 DEF Reload, TypeOK
  <2> QED BY <1>3, <2>1, AdvancedIsThere DEF Reload, TypeOK
<1>4. CASE UNCHANGED vars
  BY <1>4 DEF vars
<1> QED BY <1>1, <1>2, <1>3, <1>4 DEF Next

(* A thread goes on only where it has seen that the pointer is not end(),  *)
(* or from where it had.                                                   *)
LEMMA PointingKept == TypeInv /\ [Next]_vars => Pointing'
<1> SUFFICES ASSUME TypeInv, [Next]_vars PROVE Pointing'
  OBVIOUS
<1>1. curr # End => curr' # End
  BY PointerKept
<1>2. ASSUME NEW d \in Devices, Step(d)
      PROVE  /\ \A e \in Devices \ {d} : pc'[e] = pc[e]
             /\ \/ pc'[d] \in {"idle", "flip", "dispatch", "read"}
                \/ pc[d] = "read" /\ curr # End
                \/ pc[d] \notin {"idle", "flip", "dispatch", "read"}
  BY <1>2 DEF TypeInv, TypeOK, Labels, Goto, Step, Toggle, Flip, Dispatch, Switch, Begin,
              Read, Return, Dereference, Show, Hide, Scan, ScanStep, ScanAgain, Move
<1>3. ASSUME UNCHANGED pc PROVE Pointing'
  BY <1>1, <1>3 DEF TypeInv, Pointing
<1>4. ASSUME NEW d \in Devices, Step(d) PROVE Pointing'
  BY <1>1, <1>2, <1>4 DEF TypeInv, Pointing
<1>5. \/ \E d \in Devices : Step(d)
      \/ UNCHANGED pc
  BY DEF Next, vars, threads, SetBlocked, Reload
<1> QED BY <1>3, <1>4, <1>5

(* So do the modules and the reloads.                                      *)
LEMMA NextTypeInv == TypeInv /\ [Next]_vars => TypeInv'
<1> SUFFICES ASSUME TypeInv, [Next]_vars PROVE TypeOK'
  BY PointingKept DEF TypeInv
<1> USE DEF TypeInv
<1>1. ASSUME NEW m \in Modules, NEW val \in BOOLEAN, NEW arguments \in 1..2,
             SetBlocked(m, val, arguments)
      PROVE  TypeOK'
  BY <1>1 DEF SetBlocked, TypeOK, threads
<1>2. ASSUME NEW m \in Modules, Reload(m)
      PROVE  TypeOK'
  <2>1. has' \in SUBSET Modules
    BY <1>2 DEF Reload, TypeOK
  <2>2. curr' \in Modules \cup {End}
    BY <1>2, <2>1, AdvancedIsThere DEF Reload, TypeOK
  <2> QED BY <1>2, <2>1, <2>2 DEF Reload, TypeOK, threads, input
<1>3. CASE UNCHANGED vars
  BY <1>3 DEF vars, threads, input, TypeOK
<1> QED BY <1>1, <1>2, <1>3, StepTypeOK DEF Next

LEMMA TypeInvariance == Spec => []TypeInv
BY InitTypeInv, NextTypeInv, PTL DEF Spec

(* Every state is typed: what is shown, hidden or pointed to is a module.  *)
THEOREM OverlayTypeCorrect == Spec => []TypeOK
<1>1. TypeInv => TypeOK
  BY DEF TypeInv
<1> QED BY <1>1, TypeInvariance, PTL

(* The pointer is never end() again: what the unlocked readers rely on.    *)
THEOREM PointerNeverEnds == Spec => PointerStays
<1>1. TypeInv /\ [Next]_vars => [curr # End => curr' # End]_vars
  BY PointerKept
<1> QED BY <1>1, TypeInvariance, PTL DEF Spec, PointerStays

-----------------------------------------------------------------------------
(* What is shown and blocked, as long as nothing has come between the      *)
(* steps of a device.  One device is at work at most, and where its thread *)
(* is tells what is shown: nothing from hide to show, and else the module  *)
(* on an overlay that was on before the flip.                              *)

ShownIf(b) == shown = IF b /\ curr # End THEN {curr} ELSE {}

Controlled == on /\ curr # End

Scanning == {"scan", "step", "again", "move"}

Working(d) ==
  /\ pc[d] \in {"idle", "flip", "dispatch"} => dir[d] = "none"
  /\ pc[d] = "flip" => seen[d] = on /\ ShownIf(on)
  /\ pc[d] = "dispatch" => ShownIf(~on)
  /\ pc[d] \in {"read", "deref"} /\ dir[d] = "none" =>
       ShownIf(~on) /\ (event[d] = "show" <=> on)
  /\ pc[d] \in {"read", "deref"} /\ dir[d] # "none" =>
       Controlled /\ shown = IF event[d] = "hide" THEN {curr} ELSE {}
  /\ pc[d] = "hide" =>
       /\ target[d] = curr /\ curr # End /\ shown = {curr}
       /\ IF dir[d] = "none" THEN ~on ELSE on
  /\ pc[d] \in Scanning =>
       dir[d] # "none" /\ ~block /\ Controlled /\ shown = {}
  /\ pc[d] = "again" => target[d] \notin has
  /\ pc[d] = "move" => target[d] \in has
  /\ pc[d] = "show" => target[d] = curr /\ Controlled /\ shown = {}

Undisturbed ==
  /\ \A d, e \in Devices : d = e \/ Idle(d) \/ Idle(e)
  /\ curr # End => curr \in has
  /\ Quiet => ShownIf(on)
  /\ block => blocker = curr
  /\ \A d \in Devices : Working(d)

IInv == TypeInv /\ (~disturbed => Undisturbed)

LEMMA InitUndisturbed == Init /\ ~disturbed => Undisturbed
<1> SUFFICES ASSUME Init, ~disturbed PROVE Undisturbed
  OBVIOUS
<1>1. curr # End => curr \in has
  BY MinIsThere DEF Init, Earliest
<1> QED BY <1>1 DEF Init, Undisturbed, Working, Scanning, Controlled, Idle, Quiet, ShownIf

(* A step of a device, when the other is idle.                             *)
LEMMA StepUndisturbed ==
  ASSUME IInv, NEW d \in Devices, Step(d), ~disturbed'
  PROVE  Undisturbed'
<1> DEFINE Alone == \A e \in Devices \ {d} : Idle(e)
<1>1. ~disturbed
  BY DEF Step, Toggle, Flip, Dispatch, Switch, Begin, Read, Dereference, Show,
         Hide, Scan, ScanStep, ScanAgain, Move
<1>2. Undisturbed /\ TypeOK /\ Pointing
  BY <1>1 DEF IInv, TypeInv
<1>3. Alone
  <2>1. ASSUME Idle(d) PROVE Quiet
    BY <2>1 DEF Step, Toggle, Flip, Dispatch, Switch, Begin, Read, Dereference,
                Show, Hide, Scan, ScanStep, ScanAgain, Move, Idle
  <2> QED BY <1>2, <2>1 DEF Undisturbed, Quiet
<1>4. SUFFICES /\ curr' # End => curr' \in has'
               /\ pc'[d] = "idle" => ShownIf(on)'
               /\ block' => blocker' = curr'
               /\ Working(d)'
               /\ \A e \in Devices \ {d} : pc'[e] = pc[e] /\ dir'[e] = dir[e]
  <2>1. \A e \in Devices \ {d} : pc'[e] = "idle" /\ dir'[e] = "none"
    BY <1>2, <1>3, <1>4 DEF Undisturbed, Working, Idle
  <2>2. \A e \in Devices : Working(e)'
    BY <1>4, <2>1 DEF Working, Scanning
  <2> QED BY <1>4, <2>1, <2>2 DEF Undisturbed, Idle, Quiet
<1> USE <1>1, <1>2 DEF TypeOK, Undisturbed, Working, ShownIf, Controlled, Goto,
                       input, Labels, Aimed, Scanning
<1>5. CASE Toggle(d)
  <2>1. Quiet
    BY <1>3, <1>5 DEF Toggle, Begin, Idle, Quiet
  <2> QED BY <1>5, <2>1 DEF Toggle, Begin, Idle
<1>6. CASE Flip(d)
  BY <1>6 DEF Flip
<1>7. CASE Dispatch(d)
  BY <1>7 DEF Dispatch
<1>8. ASSUME NEW way \in {"next", "prev"}, Switch(d, way)
      PROVE  <1>4!1
  <2>1. Quiet
    BY <1>3, <1>8 DEF Switch, Begin, Idle, Quiet
  <2> QED BY <1>8, <2>1 DEF Switch, Begin, Idle
<1>9. CASE Read(d)
  BY <1>9 DEF Read, Return
<1>10. CASE Dereference(d)
  <2>1. curr # End
    BY <1>2, <1>10 DEF Dereference, Pointing
  <2> QED BY <1>10, <2>1 DEF Dereference
<1>11. CASE Show(d)
  BY <1>11 DEF Show, Return
<1>12. CASE Hide(d)
  BY <1>12 DEF Hide, Released, Return
<1>13. CASE Scan(d)
  BY <1>13 DEF Scan
<1>14. CASE ScanStep(d)
  BY <1>14 DEF ScanStep
<1>15. CASE ScanAgain(d)
  <2>1. ~Round(target[d])
    BY <1>15 DEF ScanAgain, Round
  <2> QED BY <1>15, <2>1 DEF ScanAgain
<1>16. CASE Move(d)
  BY <1>16, EndIsNoModule DEF Move
<1> QED BY <1>5, <1>6, <1>7, <1>8, <1>9, <1>10, <1>11, <1>12, <1>13, <1>14, <1>15, <1>16 DEF Step

LEMMA NextIInv == IInv /\ [Next]_vars => IInv'
<1> SUFFICES ASSUME IInv, [Next]_vars, ~disturbed' PROVE Undisturbed'
  BY NextTypeInv DEF IInv
<1> USE DEF IInv, TypeInv, TypeOK, threads, input
<1>1. ASSUME NEW m \in Modules, NEW val \in BOOLEAN, NEW arguments \in 1..2,
             SetBlocked(m, val, arguments)
      PROVE  Undisturbed'
  BY <1>1 DEF SetBlocked, Undisturbed, Working, Scanning, ShownIf, Controlled, Idle, Quiet
<1>2. ASSUME NEW m \in Modules, Reload(m)
      PROVE  Undisturbed'
  <2>1. /\ ~disturbed /\ Quiet
        /\ curr' = curr \/ (~on /\ ~block)
        /\ curr' # End => curr' \in has'
    BY <1>2 DEF Reload
  <2>2. UNCHANGED <<on, block, blocker, pc, dir, shown>>
    BY <1>2 DEF Reload
  <2>3. ShownIf(on)'
    BY <2>1, <2>2 DEF Undisturbed, ShownIf
  <2>4. \A d \in Devices : pc[d] = "idle" /\ dir[d] = "none"
    BY <2>1 DEF Undisturbed, Working, Quiet, Idle
  <2>5. \A d \in Devices : Working(d)'
    BY <2>2, <2>4 DEF Working, Scanning
  <2> QED BY <2>1, <2>2, <2>3, <2>4, <2>5 DEF Undisturbed, Idle, Quiet
<1>3. CASE UNCHANGED vars
  BY <1>3 DEF vars, Undisturbed, Working, ShownIf, Controlled, Idle, Quiet
<1> QED BY <1>1, <1>2, <1>3, StepUndisturbed DEF Next

(* Everywhere, then.                                                       *)
LEMMA Invariance == Spec => []IInv
<1>1. Init => IInv
  BY InitTypeInv, InitUndisturbed DEF IInv
<1> QED BY <1>1, NextIInv, PTL DEF Spec

(* Show and hide come in pairs: the module shown is the one in control.    *)
THEOREM ShownInTurn == Spec => []OneShown
<1>1. IInv => OneShown
  BY DEF IInv, Undisturbed, OneShown, ShownIf
<1> QED BY <1>1, Invariance, PTL

(* The input is blocked for the module in control.                         *)
THEOREM BlockedInTurn == Spec => []BlockIsOwned
<1>1. IInv => BlockIsOwned
  BY DEF IInv, Undisturbed, BlockIsOwned
<1> QED BY <1>1, Invariance, PTL
=============================================================================
