-------------------------------- MODULE Overlay --------------------------------
(***************************************************************************)
(* The module that controls the overlay, the show and hide events that     *)
(* tell modules so, and the blocking of the game's input (sider.cpp).  Two *)
(* threads work on them: the keyboard hook, which is on Present's thread,  *)
(* and the thread that polls the controller.  _cs covers the handlers they *)
(* call, and nothing else: every read and write of the flags and of the    *)
(* pointer is a step of its own here.                                      *)
(***************************************************************************)
EXTENDS Naturals, FiniteSetsExt

CONSTANTS
  NumModules,          \* _modules.size()
  Keyboard, Controller

Modules == 1..NumModules
End == NumModules + 1  \* _modules.end()
Devices == {Keyboard, Controller}

ASSUME OverlayAssumption == NumModules \in Nat /\ Keyboard # Controller

VARIABLES
  has,         \* the modules with an overlay_on handler
  on,          \* _overlay_on
  curr,        \* _curr_overlay_m
  block, hard, \* _block_input, _hard_block
  pc,          \* each device: where its thread is
  dir,         \* where it switches to: "next", "prev", or "none" in a toggle
  event,       \* the event it is about to deliver
  target,      \* the module it has read from the pointer, or found
  seen,        \* the value of _overlay_on it has read
  shown,       \* history: the modules shown and not hidden
  blocker,     \* history: the module that blocks the input, or End
  disturbed    \* history: something came between the steps of a device

threads == <<pc, dir, event, target, seen>>
input == <<block, hard, blocker>>
vars == <<has, on, curr, input, threads, shown, disturbed>>

Idle(d) == pc[d] = "idle"
Quiet == \A d \in Devices : Idle(d)

Earliest(S) == IF S = {} THEN End ELSE Min(S)

Init ==
  /\ has \in SUBSET Modules
  /\ curr = Earliest(has)
  /\ on \in BOOLEAN              \* overlay.on-from-start: no show event
  /\ block = FALSE /\ hard = FALSE
  /\ pc = [d \in Devices |-> "idle"]
  /\ dir = [d \in Devices |-> "none"]
  /\ event = [d \in Devices |-> "show"]
  /\ target = [d \in Devices |-> End]
  /\ seen = [d \in Devices |-> FALSE]
  /\ shown = {} /\ blocker = End
  /\ disturbed = on

Goto(d, l) == pc' = [pc EXCEPT ![d] = l]

\* The thread returns, and its variables are gone.
Return(d) ==
  /\ Goto(d, "idle")
  /\ dir' = [dir EXCEPT ![d] = "none"]
  /\ event' = [event EXCEPT ![d] = "show"]
  /\ target' = [target EXCEPT ![d] = End]
  /\ seen' = [seen EXCEPT ![d] = FALSE]

\* Only the keyboard hook looks at the hard block.
Obeys(d) == d = Controller \/ ~(block /\ hard)
-----------------------------------------------------------------------------
(* The scan for the module a switch goes to.                               *)

\* Mutant of After: backwards, the scan steps in front of the first.
AfterUnwrapped(way, j) ==
  IF way = "next" THEN IF j = NumModules THEN 1 ELSE j + 1 ELSE j - 1

\* The element that comes after j round the vector.
After(way, j) ==
  IF way = "next" THEN IF j = NumModules THEN 1 ELSE j + 1
  ELSE IF j = 1 THEN NumModules ELSE j - 1

\* Mutant of Round: the scan stops at the end of the vector.
RoundAtEnd(j) == j = NumModules

\* The scan is back where the pointer is.
Round(j) == j = curr
-----------------------------------------------------------------------------
(* A thread that toggles or switches.                                      *)

\* A device leaves idle while the other is at work.
Begin(d, l) ==
  /\ Idle(d)
  /\ Obeys(d)
  /\ Goto(d, l)
  /\ disturbed' = (disturbed \/ ~Quiet)

\* _overlay_on = !_overlay_on reads ...
Toggle(d) ==
  /\ Begin(d, "flip")
  /\ seen' = [seen EXCEPT ![d] = on]
  /\ UNCHANGED <<has, on, curr, input, dir, event, target, shown>>

\* ... and writes.
Flip(d) ==
  /\ pc[d] = "flip"
  /\ on' = ~seen[d]
  /\ seen' = [seen EXCEPT ![d] = FALSE]
  /\ Goto(d, "dispatch")
  /\ UNCHANGED <<has, curr, input, dir, event, target, shown, disturbed>>

\* sider_dispatch_show_hide_events(_overlay_on)
Dispatch(d) ==
  /\ pc[d] = "dispatch"
  /\ event' = [event EXCEPT ![d] = IF on THEN "show" ELSE "hide"]
  /\ Goto(d, "read")
  /\ UNCHANGED <<has, on, curr, input, dir, target, seen, shown, disturbed>>

\* The overlay is on and some module controls it; what comes first is hide.
Switch(d, way) ==
  /\ on /\ curr # End
  /\ Begin(d, "read")
  /\ dir' = [dir EXCEPT ![d] = way]
  /\ event' = [event EXCEPT ![d] = "hide"]
  /\ UNCHANGED <<has, on, curr, input, target, seen, shown>>

\* _curr_overlay_m != _modules.end()
Read(d) ==
  /\ pc[d] = "read"
  /\ IF curr = End
     THEN Return(d)
     ELSE Goto(d, "deref") /\ UNCHANGED <<dir, event, target, seen>>
  /\ UNCHANGED <<has, on, curr, input, shown, disturbed>>

\* *_curr_overlay_m
Dereference(d) ==
  /\ pc[d] = "deref"
  /\ target' = [target EXCEPT ![d] = curr]
  /\ Goto(d, event[d])
  /\ UNCHANGED <<has, on, curr, input, dir, event, seen, shown, disturbed>>

\* module_show, under _cs
Show(d) ==
  /\ pc[d] = "show"
  /\ shown' = shown \cup {target[d]}
  /\ Return(d)
  /\ UNCHANGED <<has, on, curr, input, disturbed>>

\* Mutant of Released: the module that is hidden keeps the input blocked.
ReleasedLater == UNCHANGED input

\* _block_input = false; _hard_block = false
Released == block' = FALSE /\ hard' = FALSE /\ blocker' = End

\* module_hide, under _cs
Hide(d) ==
  /\ pc[d] = "hide"
  /\ shown' = shown \ {target[d]}
  /\ Released
  /\ IF dir[d] = "none"
     THEN Return(d)
     ELSE Goto(d, "scan") /\ UNCHANGED <<dir, event, target, seen>>
  /\ UNCHANGED <<has, on, curr, disturbed>>

\* j = _curr_overlay_m
Scan(d) ==
  /\ pc[d] = "scan"
  /\ target' = [target EXCEPT ![d] = curr]
  /\ Goto(d, "step")
  /\ UNCHANGED <<has, on, curr, input, dir, event, seen, shown, disturbed>>

\* j++ or j--, and whether that module has an overlay.
ScanStep(d) ==
  /\ pc[d] = "step"
  /\ target' = [target EXCEPT ![d] = After(dir[d], target[d])]
  /\ Goto(d, IF target'[d] \in has THEN "move" ELSE "again")
  /\ UNCHANGED <<has, on, curr, input, dir, event, seen, shown, disturbed>>

\* j != _curr_overlay_m; a scan that finds nothing moves nothing.
ScanAgain(d) ==
  /\ pc[d] = "again"
  /\ IF Round(target[d])
     THEN Return(d)
     ELSE Goto(d, "step") /\ UNCHANGED <<dir, event, target, seen>>
  /\ UNCHANGED <<has, on, curr, input, shown, disturbed>>

\* _curr_overlay_m = j; module_show(*_curr_overlay_m)
Move(d) ==
  /\ pc[d] = "move"
  /\ curr' = target[d]
  /\ event' = [event EXCEPT ![d] = "show"]
  /\ Goto(d, "deref")
  /\ UNCHANGED <<has, on, input, dir, target, seen, shown, disturbed>>
-----------------------------------------------------------------------------
(* The modules.                                                            *)

\* input.set_blocked, in any handler of m, which holds _cs: arguments is how
\* many m gives.  Between reading the first and the second, lua_pop takes the
\* last off the stack and not the first: what is read as the second is the
\* first once more, and the second has no say.
SetBlocked(m, val, arguments) ==
  /\ m = curr
  /\ block' = val
  /\ hard' = (arguments = 2 /\ val)
  /\ blocker' = IF val THEN m ELSE End
  /\ disturbed' = (disturbed \/ ~Quiet)
  /\ UNCHANGED <<has, on, curr, threads, shown>>

\* Mutant of Advanced: a pointer to a module that gives up its overlay, with
\* no other to go to, becomes end().
AdvancedToEnd(m, S) ==
  CASE m = curr /\ m \notin S /\ \E k \in S : k > m -> Min({k \in S : k > m})
    [] m = curr /\ m \notin S /\ \A k \in S : k < m -> Earliest(S)
    [] m # curr /\ curr = End -> Earliest(S)
    [] OTHER -> curr

\* Where a reload of m leaves the pointer when S are the modules with an
\* overlay: without show or hide, and the input blocked as it was.
Advanced(m, S) ==
  CASE m = curr /\ m \notin S /\ \E k \in S : k > m -> Min({k \in S : k > m})
    [] m = curr /\ m \notin S /\ S # {} /\ \A k \in S : k < m -> Min(S)
    [] m # curr /\ curr = End -> Earliest(S)
    [] OTHER -> curr

\* On Present's thread, so never while the keyboard hook runs.
Reload(m) ==
  /\ Idle(Keyboard)
  /\ has' \in {has \cup {m}, has \ {m}}
  /\ curr' = Advanced(m, has')
  /\ disturbed' = \/ disturbed \/ ~Quiet
                  \/ curr' # curr /\ (on \/ block)
                  \/ curr' # End /\ curr' \notin has'
  /\ UNCHANGED <<on, input, threads, shown>>
-----------------------------------------------------------------------------
Step(d) ==
  \/ Toggle(d) \/ Flip(d) \/ Dispatch(d)
  \/ \E way \in {"next", "prev"} : Switch(d, way)
  \/ Read(d) \/ Dereference(d) \/ Show(d) \/ Hide(d)
  \/ Scan(d) \/ ScanStep(d) \/ ScanAgain(d) \/ Move(d)

Next ==
  \/ \E d \in Devices : Step(d)
  \/ \E m \in Modules :
       \/ \E val \in BOOLEAN, arguments \in 1..2 : SetBlocked(m, val, arguments)
       \/ Reload(m)

Spec == Init /\ [][Next]_vars
-----------------------------------------------------------------------------
Labels == {"idle", "flip", "dispatch", "read", "deref", "show", "hide", "scan",
           "step", "again", "move"}

\* Where a thread uses the module it has read or found.
Aimed == {"show", "hide", "step", "again", "move"}

(* Types: above all, what a thread calls show or hide of, and what it      *)
(* moves the pointer to, is a module and never *_modules.end().            *)
TypeOK ==
  /\ has \subseteq Modules
  /\ on \in BOOLEAN /\ curr \in Modules \cup {End}
  /\ block \in BOOLEAN /\ hard \in BOOLEAN
  /\ pc \in [Devices -> Labels]
  /\ dir \in [Devices -> {"none", "next", "prev"}]
  /\ event \in [Devices -> {"show", "hide"}]
  /\ target \in [Devices -> Modules \cup {End}]
  /\ \A d \in Devices : pc[d] \in Aimed => target[d] \in Modules
  /\ seen \in [Devices -> BOOLEAN]
  /\ shown \subseteq Modules /\ blocker \in Modules \cup {End}
  /\ disturbed \in BOOLEAN

(* Every reader tests the pointer against end() and reads it again to use  *)
(* it, without a lock (3657-3662, 3669-3686, 4418-4425, 8183-8203).  That  *)
(* is safe because the pointer never becomes end() once it is a module,    *)
(* whatever two devices and a reload do to it.                             *)
PointerStays == [][curr # End => curr' # End]_vars

(* scripting.html:772-786: show "fires right before the module takes       *)
(* control of the overlay, because the overlay was toggled on, or control  *)
(* switched from another module", and hide when it loses it.  So, as long  *)
(* as nothing comes between the steps of a device, the one module that is  *)
(* shown is that which controls an overlay that is on.                     *)
OneShown ==
  Quiet /\ ~disturbed => shown = IF on /\ curr # End THEN {curr} ELSE {}

(* Nor does a module's block outlive its turn: the game's input is blocked *)
(* for the module on the overlay or not at all (2706-2707, 6237).          *)
BlockIsOwned == block /\ ~disturbed => blocker = curr
=============================================================================
