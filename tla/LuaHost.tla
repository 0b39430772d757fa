-------------------------------- MODULE LuaHost --------------------------------
(***************************************************************************)
(* How sider hosts its Lua modules (sider.cpp): they are loaded one after  *)
(* the other into one Lua state, whose stack keeps each module's table     *)
(* alive; the game's threads call the handlers they registered; and a hot  *)
(* key reloads the modules whose files have changed.                       *)
(*                                                                         *)
(* A wrapper (module_goal_scored, module_set_stadium ...) tests whether    *)
(* its module has a handler before it takes _cs and calls the handler      *)
(* after: two steps.  A call runs under _cs from beginning to end and is   *)
(* one step; a reload holds _cs for the whole pass, so what can fall       *)
(* between the modules of a pass is only what takes no lock.               *)
(***************************************************************************)
EXTENDS Naturals, Sequences, FiniteSetsExt

CONSTANTS
  NumModules,   \* _config->_module_names.size(); modules in that order
  GameThreads,  \* the threads that fire events, the controller's included
  Events,       \* the events that handlers are registered for
  OverlayOn,    \* the event that puts a module on the overlay
  Leaky,        \* events whose wrapper leaves an error on the stack
  TwicePopped,  \* events whose wrapper pops twice what a handler returned
  Context, Library, Error,  \* what is on the stack besides modules' tables
  MaxEdits,     \* bound on the newer versions of each module's file
  MaxLeft,      \* bound on what calls and reloads leave on the stack
  MaxPops       \* bound on the calls that pop twice

Modules == 1..NumModules
End == NumModules + 1  \* _modules.end()

\* What becomes of a file that sider tries to load: it fails (there is no such
\* file, it yields no table, init() raises an error), it yields a table without
\* an init function, or init() registers handlers for some events.
Failures == {"fails", "no_init"}
Scripts == [outcome : Failures, events : {{}}] \cup [outcome : {"ok"}, events : SUBSET Events]

ASSUME LuaHostAssumption ==
  /\ NumModules \in Nat /\ MaxEdits \in Nat /\ MaxLeft \in Nat /\ MaxPops \in Nat
  /\ OverlayOn \in Events
  /\ Leaky \subseteq Events /\ TwicePopped \subseteq Events
  /\ \A x \in {Context, Library, Error} : x \notin Modules \X Nat

VARIABLES
  file, stamp,  \* each module's file on disk, and when it was written (0: long ago)
  stack,        \* the stack of L between calls
  version,      \* last_modified of the version in memory, 0 if not active
  handlers,     \* the events that version has handlers for
  position,     \* stack_position
  overlay,      \* _curr_overlay_m
  wanted,       \* _reload_modified
  phase, i,     \* what the Present thread does, and the module it is at
  pc, target,   \* each game thread: the handler it has found to be there
  popped        \* history: how often a wrapper popped what was not its own

disk == <<file, stamp>>
memory == <<version, handlers, position>>
present == <<wanted, phase, i>>
threads == <<pc, target>>
vars == <<disk, stack, memory, overlay, present, threads, popped>>

Table(m, v) == <<m, v>>
Item == {Context, Library, Error} \cup {Table(m, v) : m \in Modules, v \in 1..(MaxEdits + 1)}

\* ctx, then the memory, fs, audio, stats and match tables.
Base == <<Context, Library, Library, Library, Library, Library>>

Init ==
  /\ file \in [Modules -> Scripts] /\ stamp = [m \in Modules |-> 1]
  /\ stack = Base
  /\ version = [m \in Modules |-> 0] /\ position = version
  /\ handlers = [m \in Modules |-> {}]
  /\ overlay = End
  /\ wanted = FALSE /\ phase = "loading" /\ i = 1
  /\ pc = [t \in GameThreads |-> "idle"]
  /\ target = [t \in GameThreads |-> <<0, OverlayOn>>]
  /\ popped = 0

Active(m) == version[m] # 0

RoomOnStack == Len(stack) < Len(Base) + NumModules + MaxLeft
-----------------------------------------------------------------------------
(* The stack.                                                              *)

\* Mutant of Top: the position is taken before the table is on the stack, and
\* counted as if from 0.
TopTooFar(s) == Len(s) + 1

\* lua_gettop()
Top(s) == Len(s)

\* lua_replace(position): what is on top moves there and leaves the top; a
\* position at or above the top only loses it.
Replaced(s, p, x) == IF p \in DOMAIN s THEN [s EXCEPT ![p] = x] ELSE s

\* Mutant of InPlace: the new table stays on top, where it was left.
OnTop(s, p, x) == Append(s, x)

\* Where a reload puts the new version's table.
InPlace(s, p, x) == Replaced(s, p, x)
-----------------------------------------------------------------------------
(* The module that controls the overlay.                                   *)

Earliest(S) == IF S = {} THEN End ELSE Min(S)

\* The modules that have an overlay, by the handlers h.
Showing(v, h) == {m \in Modules : v[m] # 0 /\ OverlayOn \in h[m]}

\* Mutant of Advanced: without the case of a pointer that points nowhere.
AdvancedIfCurrent(m, S) ==
  CASE m = overlay /\ m \notin S /\ \E k \in S : k > m -> Min({k \in S : k > m})
    [] m = overlay /\ m \notin S /\ S # {} /\ \A k \in S : k < m -> Min(S)
    [] OTHER -> overlay

\* Where the pointer goes once m is reloaded and S are the modules that have
\* an overlay: on from a module that gave it up, or to the first there is.
Advanced(m, S) ==
  CASE m = overlay /\ m \notin S /\ \E k \in S : k > m -> Min({k \in S : k > m})
    [] m = overlay /\ m \notin S /\ S # {} /\ \A k \in S : k < m -> Min(S)
    [] m # overlay /\ overlay = End -> Earliest(S)
    [] OTHER -> overlay
-----------------------------------------------------------------------------
(* init_lua_support(), before the game is under way.                       *)

\* A table without an init function stays on the stack, although its module
\* is skipped: only the missing function is popped.
Load ==
  /\ phase = "loading" /\ i \in Modules
  /\ i' = i + 1
  /\ IF file[i].outcome \in {"ok", "no_init"}
     THEN stack' = Append(stack, Table(i, stamp[i]))
     ELSE UNCHANGED stack
  /\ IF file[i].outcome = "ok"
     THEN /\ version' = [version EXCEPT ![i] = stamp[i]]
          /\ handlers' = [handlers EXCEPT ![i] = file[i].events]
          /\ position' = [position EXCEPT ![i] = Top(stack')]
     ELSE UNCHANGED memory
  /\ UNCHANGED <<disk, overlay, wanted, phase, threads, popped>>

Loaded ==
  /\ phase = "loading" /\ i = End
  /\ overlay' = Earliest(Showing(version, handlers))
  /\ phase' = "running"
  /\ UNCHANGED <<disk, stack, memory, wanted, i, threads, popped>>
-----------------------------------------------------------------------------
(* The hot key, and lua_reload_modified_modules() in the next Present.     *)

\* The keyboard hook runs on Present's thread, so never during a reload.
RequestReload ==
  /\ phase = "running" /\ RoomOnStack
  /\ wanted' = TRUE
  /\ UNCHANGED <<disk, stack, memory, overlay, phase, i, threads, popped>>

\* Takes _cs.
BeginReload ==
  /\ phase = "running" /\ wanted
  /\ phase' = "reloading" /\ i' = 1
  /\ UNCHANGED <<disk, stack, memory, overlay, wanted, threads, popped>>

\* Mutant of AfterFailure: a reload that is cancelled ends the pass.
EndOfPass == End

\* A reload that is cancelled goes on with the next module.
AfterFailure == i + 1

Modified(m) == Active(m) /\ stamp[m] > version[m]

\* The old version stays.
KeepOld ==
  /\ phase = "reloading" /\ i \in Modules
  /\ Modified(i) => file[i].outcome # "ok"
  /\ i' = IF Modified(i) THEN AfterFailure ELSE i + 1
  /\ stack' = IF Modified(i) /\ file[i].outcome = "no_init"
              THEN Append(stack, Table(i, stamp[i]))
              ELSE stack
  /\ UNCHANGED <<disk, memory, overlay, wanted, phase, threads, popped>>

\* The new version takes over.
TakeNew ==
  /\ phase = "reloading" /\ i \in Modules
  /\ Modified(i) /\ file[i].outcome = "ok"
  /\ i' = i + 1
  /\ version' = [version EXCEPT ![i] = stamp[i]]
  /\ handlers' = [handlers EXCEPT ![i] = file[i].events]
  /\ stack' = InPlace(stack, position[i], Table(i, stamp[i]))
  /\ overlay' = Advanced(i, Showing(version', handlers'))
  /\ UNCHANGED <<disk, position, wanted, phase, threads, popped>>

\* Releases _cs.
EndReload ==
  /\ phase = "reloading" /\ i = End
  /\ phase' = "running" /\ wanted' = FALSE
  /\ UNCHANGED <<disk, stack, memory, overlay, i, threads, popped>>
-----------------------------------------------------------------------------
(* The wrappers of the events.                                             *)

\* m->evt_... != 0, outside _cs.  Only Present calls the overlay's handler, on
\* the thread that reloads.
FindHandler(t, m, e) ==
  /\ phase # "loading" /\ pc[t] = "idle"
  /\ Active(m) /\ e \in handlers[m]
  /\ pc' = [pc EXCEPT ![t] = "found"]
  /\ target' = [target EXCEPT ![t] = <<m, e>>]
  /\ UNCHANGED <<disk, stack, memory, overlay, present, popped>>

Return(t) ==
  /\ phase # "reloading" /\ pc[t] = "found"
  /\ pc' = [pc EXCEPT ![t] = "idle"]
  /\ target' = [target EXCEPT ![t] = <<0, OverlayOn>>]
  /\ UNCHANGED <<disk, memory, overlay, present>>

\* The call leaves the stack as it was.
CallHandler(t) == Return(t) /\ UNCHANGED <<stack, popped>>

\* The handler raises an error, and the wrapper does not pop the message.
CallFails(t) ==
  /\ Return(t) /\ target[t][2] \in Leaky
  /\ RoomOnStack
  /\ stack' = Append(stack, Error)
  /\ UNCHANGED popped

\* The handler returns a number, and the wrapper pops it, and once more.
CallPopsTwice(t) ==
  /\ Return(t) /\ target[t][2] \in TwicePopped
  /\ stack # <<>> /\ popped < MaxPops
  /\ stack' = SubSeq(stack, 1, Len(stack) - 1)
  /\ popped' = popped + 1
-----------------------------------------------------------------------------
\* The author of a module saves it, or removes it.
Edit(m) ==
  /\ stamp[m] \in 1..MaxEdits
  /\ file' \in {[file EXCEPT ![m] = s] : s \in Scripts}
  /\ stamp' = [stamp EXCEPT ![m] = @ + 1]
  /\ UNCHANGED <<stack, memory, overlay, present, threads, popped>>

\* Puts a file there that is older than what is in memory, which is never
\* read; a bound: it stays.
PutBack(m) ==
  /\ Active(m) /\ stamp[m] # 0
  /\ stamp' = [stamp EXCEPT ![m] = 0]
  /\ UNCHANGED <<file, stack, memory, overlay, present, threads, popped>>

Reload == BeginReload \/ KeepOld \/ TakeNew \/ EndReload

Call(t) == CallHandler(t) \/ CallFails(t) \/ CallPopsTwice(t)

Next ==
  \/ Load \/ Loaded
  \/ RequestReload \/ Reload
  \/ \E t \in GameThreads :
       \/ \E m \in Modules, e \in Events \ {OverlayOn} : FindHandler(t, m, e)
       \/ Call(t)
  \/ \E m \in Modules : Edit(m) \/ PutBack(m)

Spec == Init /\ [][Next]_vars

(***************************************************************************)
(* Scheduling: the Present thread keeps running.  No thread keeps _cs for  *)
(* ever, and the operating system lets Present have it in the end.         *)
(***************************************************************************)
FairSpec == Spec /\ WF_vars(Load \/ Loaded) /\ SF_vars(Reload)
-----------------------------------------------------------------------------
(* Types: above all, a module's position is inside the stack or 0, unless  *)
(* a wrapper popped what was not its own, and the pointer to the module on *)
(* the overlay is an element or end().                                     *)
TypeOK ==
  /\ file \in [Modules -> Scripts] /\ stamp \in [Modules -> 0..(MaxEdits + 1)]
  /\ stack \in Seq(Item)
  /\ version \in [Modules -> 0..(MaxEdits + 1)] /\ handlers \in [Modules -> SUBSET Events]
  /\ position \in [Modules -> Nat]
  /\ popped = 0 => \A m \in Modules : position[m] <= Len(stack)
  /\ overlay \in 1..End
  /\ wanted \in BOOLEAN /\ phase \in {"loading", "running", "reloading"}
  /\ i \in 1..End
  /\ pc \in [GameThreads -> {"idle", "found"}]
  /\ target \in [GameThreads -> (0..NumModules) \X Events]
  /\ popped \in 0..MaxPops

(* What keeps the handlers alive: every active module's table, that of the *)
(* version in memory, is on the stack at the module's position ("move to   *)
(* original module position on the stack", sider.cpp:7052), whatever was   *)
(* loaded, skipped, reloaded or cancelled and whatever handlers failed;    *)
(* and the context table, which every call passes on, is at the bottom.    *)
(* This lasts until the first call of set_stadium whose result is a number *)
(* pops twice (2275, 2278).                                                *)
Anchored ==
  popped = 0 =>
    /\ stack # <<>> /\ stack[1] = Context
    /\ \A m \in Modules : Active(m) =>
         /\ position[m] \in DOMAIN stack
         /\ stack[position[m]] = Table(m, version[m])

(* The pointer is end() only if no module has an overlay: so an overlay    *)
(* that a reload brings can be reached.                                    *)
EndOnlyIfNone ==
  phase # "loading" /\ overlay = End => Showing(version, handlers) = {}

(* readme.html:417, the hot key reloads "all modules that were modified    *)
(* since the last time they were loaded": a version that can be loaded is  *)
(* in memory at the end, whatever became of the modules before it, unless  *)
(* its file changes again first.  "Modified" is written later: an older    *)
(* file that is put back is not loaded (6949).                             *)
EditedIsLoaded ==
  \A m \in Modules, v \in 1..(MaxEdits + 1) :
    (wanted /\ phase = "running" /\ Modified(m) /\ stamp[m] = v /\ file[m].outcome = "ok")
      ~> (version[m] = v \/ stamp[m] # v)
=============================================================================
