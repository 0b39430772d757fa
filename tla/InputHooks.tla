------------------------------- MODULE InputHooks -------------------------------
(***************************************************************************)
(* The hooks on GetDeviceState of the DirectInput devices.  One function   *)
(* for keyboards and one for controllers, each with one remembered         *)
(* original, are written into the devices' vtables, which devices of both  *)
(* kinds may share.  The lock _cs covers the hooking (HookVtblMethod2) but *)
(* not the calls, which other threads make all the time.                   *)
(***************************************************************************)
EXTENDS Integers, FiniteSets

CONSTANTS
  Vtables,    \* each stands for its original GetDeviceState too
  Devices,
  Vtable,     \* the vtable of a device
  Kind,       \* the hook a device gets, or NoHook (a mouse)
  Threads,    \* of the game and of sider, that read devices
  NoHook, NoFunction, NoDevice

Hooks == {"keyboard", "gamepad"}

ASSUME HooksAssumption ==
  /\ Vtable \in [Devices -> Vtables]
  /\ Kind \in [Devices -> Hooks \cup {NoHook}]
  /\ Vtables \cap Hooks = {} /\ NoHook \notin Hooks
  /\ NoFunction \notin Vtables \cup Hooks /\ NoDevice \notin Devices

VARIABLES
  slot,        \* the vtables' entry: the original or a hook
  original,    \* _org_GetDeviceStateKeyboard and _org_GetDeviceStateGamepad
  ready,       \* the devices CreateDevice has returned
  hooking,     \* the device whose creator holds _cs, between its two writes
  call,        \* the function each thread is in; NoFunction: none
  caller,      \* the device it reads
  remembered   \* history: the vtables each hook was meant for

hooks == <<slot, original, ready, hooking, remembered>>
calls == <<call, caller>>
hookVars == <<hooks, calls>>

Other(h) == IF h = "keyboard" THEN "gamepad" ELSE "keyboard"

HooksInit ==
  /\ slot = [v \in Vtables |-> v]
  /\ original = [h \in Hooks |-> NoFunction]
  /\ ready = {} /\ hooking = NoDevice
  /\ call = [t \in Threads |-> NoFunction]
  /\ caller = [t \in Threads |-> NoDevice]
  /\ remembered = [h \in Hooks |-> {}]
-----------------------------------------------------------------------------
(* Creating a device.                                                      *)

Create(d) ==
  /\ hooking = NoDevice /\ d \notin ready
  /\ Kind[d] = NoHook \/ slot[Vtable[d]] = Kind[d]
  /\ ready' = ready \cup {d}
  /\ UNCHANGED <<slot, original, hooking, remembered, calls>>

\* Mutant of OriginalBehind: the other hook is taken for an original.
WhatIsThere(d) == slot[Vtable[d]]

\* Mutant of OriginalBehind: the other hook's original, whatever is there.
OriginalOfOther(d) ==
  IF original[Other(Kind[d])] # NoFunction
  THEN original[Other(Kind[d])] ELSE slot[Vtable[d]]

(* What stands in the vtable, or what the other hook found there.          *)
OriginalBehind(d) ==
  IF slot[Vtable[d]] = Other(Kind[d])
  THEN original[Other(Kind[d])] ELSE slot[Vtable[d]]

\* Mutant of Remember: the entry is written before the original.
WriteEntryFirst(d) ==
  /\ hooking = NoDevice /\ d \notin ready /\ Kind[d] # NoHook
  /\ slot[Vtable[d]] # Kind[d]
  /\ hooking' = d
  /\ slot' = [slot EXCEPT ![Vtable[d]] = Kind[d]]
  /\ remembered' = [remembered EXCEPT ![Kind[d]] = @ \cup {Vtable[d]}]
  /\ UNCHANGED <<original, ready, calls>>

Remember(d) ==
  /\ hooking = NoDevice /\ d \notin ready /\ Kind[d] # NoHook
  /\ slot[Vtable[d]] # Kind[d]
  /\ hooking' = d
  /\ original' = [original EXCEPT ![Kind[d]] = OriginalBehind(d)]
  /\ remembered' = [remembered EXCEPT ![Kind[d]] = @ \cup {Vtable[d]}]
  /\ UNCHANGED <<slot, ready, calls>>

Install(d) ==
  /\ hooking = d
  /\ slot' = [slot EXCEPT ![Vtable[d]] = Kind[d]]
  /\ hooking' = NoDevice /\ ready' = ready \cup {d}
  /\ UNCHANGED <<original, remembered, calls>>

(* VirtualProtect fails: the entry stays, the remembered original is new.  *)
CannotInstall(d) ==
  /\ hooking = d
  /\ hooking' = NoDevice /\ ready' = ready \cup {d}
  /\ UNCHANGED <<slot, original, remembered, calls>>
-----------------------------------------------------------------------------
(* A thread reads a device, with no lock.                                  *)

Read(t, d) ==
  /\ call[t] = NoFunction /\ d \in ready
  /\ call' = [call EXCEPT ![t] = slot[Vtable[d]]]
  /\ caller' = [caller EXCEPT ![t] = d]
  /\ UNCHANGED hooks

CallOriginal(t) ==
  /\ call[t] \in Hooks
  /\ call' = [call EXCEPT ![t] = original[call[t]]]
  /\ UNCHANGED <<hooks, caller>>

Return(t) ==
  /\ call[t] \in Vtables
  /\ call' = [call EXCEPT ![t] = NoFunction]
  /\ caller' = [caller EXCEPT ![t] = NoDevice]
  /\ UNCHANGED hooks

HooksNext ==
  \/ \E d \in Devices : Create(d) \/ Remember(d) \/ Install(d) \/ CannotInstall(d)
  \/ \E t \in Threads :
       \/ \E d \in Devices : Read(t, d)
       \/ CallOriginal(t) \/ Return(t)

HooksSpec == HooksInit /\ [][HooksNext]_hookVars
-----------------------------------------------------------------------------
(* The state has the shape of the program's; in particular a remembered    *)
(* original is never one of the hooks, which would call each other for     *)
(* ever.                                                                   *)
HooksTypeOK ==
  /\ slot \in [Vtables -> Vtables \cup Hooks]
  /\ original \in [Hooks -> Vtables \cup {NoFunction}]
  /\ ready \subseteq Devices
  /\ hooking \in Devices \cup {NoDevice}
  /\ call \in [Threads -> Vtables \cup Hooks \cup {NoFunction}]
  /\ caller \in [Threads -> Devices \cup {NoDevice}]
  /\ remembered \in [Hooks -> SUBSET Vtables]

(* A thread that has begun a call is always in some function: however the  *)
(* hooking and the calls interleave, whichever of its two writes the       *)
(* hooking has done, and whether or not it succeeds, a hook never calls a  *)
(* null original.                                                          *)
NeverNull == \A t \in Threads : caller[t] # NoDevice => call[t] # NoFunction

(* As long as each hook was meant for one vtable only, a call that leaves  *)
(* the hook is in the original of the vtable it came through, also when    *)
(* keyboards and controllers share the vtable and are hooked in turn.      *)
RightOriginal ==
  (\A h \in Hooks : Cardinality(remembered[h]) <= 1) =>
    \A t \in Threads : call[t] \in Vtables => call[t] = Vtable[caller[t]]
=============================================================================
