------------------------------ MODULE InputProofs ------------------------------
(***************************************************************************)
(* The controllers: their thread, for any controllers, buttons and limits, *)
(* and the hooks on their devices, for any devices, vtables and threads.   *)
(***************************************************************************)
EXTENDS ControllerPoll, InputHooks, WellFoundedInduction, FiniteSetTheorems, TLAPS

(* While a button of a chord is held, the sequence goes on.                *)
Releasing == chord # {} => sequence

IInv == TypeOK /\ Releasing

LEMMA InitIInv == Init => IInv
<1> SUFFICES ASSUME Init PROVE IInv
  OBVIOUS
<1>1. 0 \in 0..(Slots - 1) /\ 0 \in 0..(MaxFails - 1) /\ 0 \in 0..Skips
  BY PollAssumption
<1>2. [x \in Kinds |-> {}] \in [Kinds -> SUBSET Buttons] /\ {} \subseteq Chord
  OBVIOUS
<1>3. /\ [x \in Kinds |-> 0] \in [Kinds -> 0..(MaxFails - 1)]
      /\ [x \in Kinds |-> 0] \in [Kinds -> 0..Skips]
  BY <1>1
<1>4. skips = [x \in Kinds |-> 0]
  BY DEF Init
<1>5. \A kind \in Kinds : skips[kind] > 0 => fails[kind] = MaxFails - 1
  BY <1>4
<1>6. TypeOK
  BY <1>1, <1>2, <1>3, <1>5 DEF Init, TypeOK, Kinds, Commands
<1> QED BY <1>6 DEF Init, IInv, Releasing

(* There is a first turn at which a user answers.                          *)
LEMMA FirstTurn ==
  ASSUME TypeOK, Turns # {}
  PROVE  Min(Turns) \in 0..(Slots - 1) /\ Tried(Min(Turns)) \in connected
<1>1. Turns \subseteq Nat
  BY PollAssumption DEF Turns
<1>2. \E x \in Turns : \A y \in Turns : ~(<<y, x>> \in OpToRel(<, Nat))
  BY <1>1, NatLessThanWellFounded, WFMin, Zenon
<1>3. \E x \in Turns : \A y \in Turns : ~(y < x)
  BY <1>1, <1>2 DEF OpToRel
<1>4. \A x, y \in Turns : ~(y < x) => x <= y
  BY <1>1
<1>5. \E x \in Turns : \A y \in Turns : x <= y
  BY <1>3, <1>4, Zenon
<1>6. Min(Turns) \in Turns
  BY <1>5, Zenon DEF Min
<1> QED BY <1>6 DEF Turns

(* The counters stay below their limits, and those that rest have failed.  *)
CountersOK ==
  /\ fails \in [Kinds -> 0..(MaxFails - 1)]
  /\ skips \in [Kinds -> 0..Skips]
  /\ \A kind \in Kinds : skips[kind] > 0 => fails[kind] = MaxFails - 1

LEMMA RestedCounters ==
  ASSUME TypeOK, NEW kind \in Kinds, NEW f \in 0..MaxFails, Rested(kind, f),
         skips[kind] = 0 \/ f = fails[kind]
  PROVE  CountersOK'
<1> USE PollAssumption DEF TypeOK, Rested, OneLess
<1>1. fails' \in [Kinds -> 0..(MaxFails - 1)]
  OBVIOUS
<1>2. skips' \in [Kinds -> 0..Skips]
  OBVIOUS
<1>3. ASSUME NEW x \in Kinds, skips'[x] > 0 PROVE fails'[x] = MaxFails - 1
  <2>1. CASE x # kind
    BY <1>3, <2>1
  <2>2. CASE x = kind /\ f >= MaxFails
    BY <2>2
  <2>3. CASE x = kind /\ f < MaxFails
    <3>1. skips[kind] > 0
      BY <1>3, <2>3
    <3> QED BY <2>3, <3>1
  <2> QED BY <2>1, <2>2, <2>3
<1> QED BY <1>1, <1>2, <1>3 DEF CountersOK

(* Only while no chord is being released does a release switch.            *)
LEMMA SwitchedMeans ==
  ASSUME NEW was, NEW now
  PROVE  /\ Meaning(was, now) \in Commands
         /\ Meaning(was, now) \in {"next", "prev"} => ~sequence
<1>1. /\ Switched(was, now) \in {"none", "next", "prev"}
      /\ Switched(was, now) # "none" => ~sequence
  BY DEF Switched
<1> QED BY <1>1 DEF Meaning, Commands

(* What is read of a source keeps the types and the invariant.             *)
ButtonsOK ==
  /\ on \in BOOLEAN
  /\ prev \in [Kinds -> SUBSET Buttons] /\ sequence \in BOOLEAN
  /\ command \in Commands /\ reader \in Sources \cup {NoSource}
  /\ chord \subseteq Chord /\ owner \in Sources \cup {NoSource}
  /\ Releasing

LEMMA UnderstandKeeps ==
  ASSUME IInv, NEW s \in Sources, NEW kind \in Kinds, NEW now \in SUBSET Buttons,
         Understand(s, kind, now)
  PROVE  ButtonsOK'
<1> DEFINE c == Meaning(prev[kind], now)
<1>1. c \in Commands
  BY SwitchedMeans
<1> HIDE DEF c
<1>2. /\ command' = c /\ reader' = s
      /\ prev' = [prev EXCEPT ![kind] = now]
      /\ on' = IF c = "toggle" THEN ~on ELSE on
      /\ sequence' = (c = "toggle" \/ (sequence /\ Chord \cap now # {}))
      /\ chord' = IF c = "toggle" THEN Chord ELSE StillOf(s) \cap now
      /\ owner' \in {NoSource, s}
  BY DEF Understand, RememberChord, StillReleasing, c
<1>3. StillOf(s) \subseteq chord
  BY DEF StillOf
<1>4. chord' \subseteq Chord
  BY <1>2, <1>3 DEF IInv, TypeOK
<1>5. sequence' \in BOOLEAN
  BY <1>2
<1>6. Releasing'
  <2>1. CASE c = "toggle"
    BY <1>2, <2>1 DEF Releasing
  <2>2. CASE c # "toggle"
    BY <1>2, <1>3, <2>2 DEF IInv, TypeOK, Releasing
  <2> QED BY <2>1, <2>2
<1> QED BY <1>1, <1>2, <1>4, <1>5, <1>6 DEF ButtonsOK, IInv, TypeOK

LEMMA NothingNewKeeps ==
  ASSUME IInv, NEW s \in Sources, NothingNew(s)
  PROVE  ButtonsOK'
BY DEF IInv, TypeOK, Releasing, NothingNew, RememberChord, StillOf, ButtonsOK, Commands

LEMMA NoButtonsKeeps ==
  ASSUME IInv, NoButtons
  PROVE  ButtonsOK'
BY DEF IInv, TypeOK, Releasing, NoButtons, buttons, ButtonsOK, Commands

LEMMA NextIInv == IInv /\ [Next]_vars => IInv'
<1> SUFFICES ASSUME IInv, [Next]_vars PROVE IInv'
  OBVIOUS
<1>0. SUFFICES /\ CountersOK' /\ ButtonsOK'
               /\ connected' \subseteq Sources /\ phase' \in Kinds
               /\ lastGood' \in 0..(Slots - 1)
  BY DEF IInv, TypeOK, CountersOK, ButtonsOK
<1> USE PollAssumption
<1>t. TypeOK /\ "xinput" \in Kinds /\ "dinput" \in Kinds
  BY DEF IInv, Kinds
<1>1. ASSUME NEW now \in SUBSET Buttons, XInput(now) PROVE <1>0!1
  <2> DEFINE k == Min(Turns)
  <2>1. k \in 0..(Slots - 1) /\ Tried(k) \in connected
    BY <1>1, <1>t, FirstTurn DEF XInput
  <2> HIDE DEF k
  <2>2. /\ lastGood' = k /\ UNCHANGED <<connected, phase>>
        /\ Understand(Tried(k), "xinput", now) \/ NothingNew(Tried(k))
        /\ Rested("xinput", 0) /\ skips["xinput"] = 0
    BY <1>1 DEF XInput, Good, k
  <2>3. Tried(k) \in Sources
    BY <1>t, <2>1 DEF TypeOK
  <2>4. ButtonsOK'
    BY <1>t, <2>2, <2>3, UnderstandKeeps, NothingNewKeeps
  <2>5. CountersOK'
    BY <1>t, <2>2, RestedCounters
  <2> QED BY <1>t, <2>1, <2>2, <2>4, <2>5 DEF TypeOK
<1>2. CASE XInputFails
  <2>1. fails["xinput"] + 1 \in 0..MaxFails
    BY <1>t DEF TypeOK
  <2>2. CountersOK'
    BY <1>2, <1>t, <2>1, RestedCounters DEF XInputFails
  <2> QED BY <1>2, <1>t, <2>2, NoButtonsKeeps DEF XInputFails, TypeOK
<1>3. ASSUME NEW now \in SUBSET Buttons, DirectInput(now) PROVE <1>0!1
  <2>1. ButtonsOK'
    BY <1>3, <1>t, UnderstandKeeps DEF DirectInput, Sources
  <2>2. CountersOK'
    BY <1>3, <1>t, RestedCounters DEF DirectInput
  <2> QED BY <1>3, <1>t, <2>1, <2>2 DEF DirectInput, TypeOK
<1>4. CASE DirectInputFails
  <2>1. fails["dinput"] + 1 \in 0..MaxFails
    BY <1>t DEF TypeOK
  <2>2. CountersOK'
    BY <1>4, <1>t, <2>1, RestedCounters DEF DirectInputFails
  <2> QED BY <1>4, <1>t, <2>2, NoButtonsKeeps DEF DirectInputFails, TypeOK
<1>5. ASSUME NEW kind \in Kinds, Skip(kind) PROVE <1>0!1
  <2>1. fails[kind] \in 0..MaxFails
    BY <1>t DEF TypeOK
  <2>2. CountersOK'
    BY <1>5, <1>t, <2>1, RestedCounters DEF Skip
  <2> QED BY <1>5, <1>t, <2>2, NoButtonsKeeps DEF Skip, TypeOK
<1>6. CASE KeyboardToggles \/ UNCHANGED vars \/ \E s \in Sources : Plug(s)
  BY <1>6, <1>t DEF KeyboardToggles, Plug, vars, counters, buttons, IInv, TypeOK,
                    Releasing, CountersOK, ButtonsOK, Commands
<1> QED BY <1>1, <1>2, <1>3, <1>4, <1>5, <1>6 DEF Next, Poll

LEMMA Invariance == Spec => []IInv
<1> QED BY InitIInv, NextIInv, PTL DEF Spec

(* Typed, and the counters inside their limits.                            *)
THEOREM PollTypeCorrect == Spec => []TypeOK
<1>1. IInv => TypeOK
  BY DEF IInv
<1> QED BY <1>1, Invariance, PTL

(* However a chord is let go, it switches nothing.                         *)
THEOREM ChordIsOneCommand == Spec => ChordNeverSwitches
<1> DEFINE Harmless ==
      /\ command' = "next" => NextModule \notin StillOf(reader')
      /\ command' = "prev" => PrevModule \notin StillOf(reader')
    Understood == \E s, kind, now : Understand(s, kind, now)
<1>1. IInv /\ [Next]_vars => [Harmless]_vars
  <2> SUFFICES ASSUME IInv, Next, command' \in {"next", "prev"}
               PROVE  Harmless
    OBVIOUS
  <2>1. Understood
    <3>1. ASSUME NEW now, XInput(now) PROVE Understood
      BY <3>1 DEF XInput, NothingNew, Kinds
    <3>2. ASSUME NEW now, DirectInput(now) PROVE Understood
      BY <3>2 DEF DirectInput, Kinds
    <3>3. ~NoButtons /\ ~KeyboardToggles /\ \A s \in Sources : ~Plug(s)
      BY DEF NoButtons, KeyboardToggles, Plug
    <3> QED BY <3>1, <3>2, <3>3 DEF Next, Poll, XInputFails, DirectInputFails, Skip
  <2>2. ~sequence
    BY <2>1, SwitchedMeans DEF Understand
  <2> QED BY <2>2 DEF IInv, Releasing, StillOf
<1> QED BY <1>1, Invariance, PTL DEF Spec, ChordNeverSwitches
-----------------------------------------------------------------------------
(* The hooks on the devices (InputHooks).                                  *)

(* What stands in a vtable is its original, or a hook that was meant for   *)
(* it and can go on to an original.                                        *)
Entries ==
  \A v \in Vtables :
    /\ slot[v] \in Vtables => slot[v] = v
    /\ slot[v] \in Hooks =>
         original[slot[v]] # NoFunction /\ v \in remembered[slot[v]]

(* Between the two writes, the first one is done.                          *)
HalfHooked ==
  hooking # NoDevice =>
    /\ Kind[hooking] \in Hooks
    /\ original[Kind[hooking]] # NoFunction
    /\ Vtable[hooking] \in remembered[Kind[hooking]]

Calling ==
  \A t \in Threads :
    /\ caller[t] = NoDevice <=> call[t] = NoFunction
    /\ call[t] \in Hooks =>
         /\ original[call[t]] # NoFunction
         /\ Vtable[caller[t]] \in remembered[call[t]]

(* The vtables a hook was meant for are finitely many: each hooking adds   *)
(* one.                                                                    *)
Counted == \A h \in Hooks : IsFiniteSet(remembered[h])

OneEach == \A h \in Hooks : \A u, w \in remembered[h] : u = w

(* With one vtable for each hook, the originals are those vtables'.        *)
Rightly ==
  OneEach =>
    /\ \A h \in Hooks : original[h] # NoFunction => original[h] \in remembered[h]
    /\ \A t \in Threads : call[t] \in Vtables => call[t] = Vtable[caller[t]]

HooksInv == HooksTypeOK /\ Entries /\ HalfHooked /\ Calling /\ Counted /\ Rightly

LEMMA HooksInitially == HooksInit => HooksInv
<1> SUFFICES ASSUME HooksInit PROVE HooksInv
  OBVIOUS
<1> USE HooksAssumption DEF HooksInit
<1>1. \A v \in Vtables : slot[v] = v
  OBVIOUS
<1>2. \A h \in Hooks : original[h] = NoFunction /\ remembered[h] = {}
  OBVIOUS
<1>3. \A t \in Threads : call[t] = NoFunction /\ caller[t] = NoDevice
  OBVIOUS
<1>4. HooksTypeOK
  BY DEF HooksTypeOK
<1>5. Entries
  BY <1>1 DEF Entries
<1>6. Calling /\ Rightly
  BY <1>2, <1>3 DEF Calling, Rightly
<1>7. Counted
  BY <1>2, FS_EmptySet DEF Counted
<1> QED
  BY <1>4, <1>5, <1>6, <1>7 DEF HooksInv, HalfHooked

(* What the hooking remembers is an original, and, when each hook is meant *)
(* for one vtable, that vtable's own.                                      *)
LEMMA OriginalIsBehind ==
  ASSUME HooksInv, NEW d \in Devices, Kind[d] \in Hooks, slot[Vtable[d]] # Kind[d]
  PROVE  /\ OriginalBehind(d) \in Vtables
         /\ OneEach => OriginalBehind(d) = Vtable[d]
<1> USE HooksAssumption
<1> DEFINE v == Vtable[d]
           h == Other(Kind[d])
<1>1. v \in Vtables /\ h \in Hooks /\ Hooks = {h, Kind[d]}
  BY DEF Other, Hooks
<1>2. CASE slot[v] = h
  <2>1. original[h] # NoFunction /\ v \in remembered[h]
    BY <1>1, <1>2 DEF HooksInv, Entries
  <2>2. original[h] \in Vtables
    BY <1>1, <2>1 DEF HooksInv, HooksTypeOK
  <2>3. OneEach => original[h] = v
    BY <1>1, <2>1 DEF HooksInv, Rightly, OneEach
  <2> QED
    BY <1>2, <2>2, <2>3 DEF OriginalBehind
<1>3. CASE slot[v] # h
  <2>1. slot[v] \in Vtables
    BY <1>1, <1>3 DEF HooksInv, HooksTypeOK
  <2>2. slot[v] = v
    BY <1>1, <2>1 DEF HooksInv, Entries
  <2> QED
    BY <1>1, <1>3, <2>2 DEF OriginalBehind
<1> QED
  BY <1>2, <1>3

LEMMA RememberKeeps ==
  ASSUME HooksInv, NEW d \in Devices, Remember(d)
  PROVE  HooksInv'
<1> USE HooksAssumption
<1> DEFINE k == Kind[d]
           v == Vtable[d]
<1>1. k \in Hooks /\ v \in Vtables
  BY DEF Remember
<1>2. OriginalBehind(d) \in Vtables /\ (OneEach => OriginalBehind(d) = v)
  BY <1>1, OriginalIsBehind DEF Remember
<1>3. \A h \in Hooks : original'[h] = IF h = k THEN OriginalBehind(d) ELSE original[h]
  BY <1>1 DEF Remember, HooksInv, HooksTypeOK
<1>4. \A h \in Hooks :
        remembered'[h] = IF h = k THEN remembered[h] \cup {v} ELSE remembered[h]
  BY <1>1 DEF Remember, HooksInv, HooksTypeOK
<1>5. UNCHANGED <<slot, ready, call, caller>> /\ hooking' = d
  BY DEF Remember, calls
<1>6. HooksTypeOK'
  <2>1. original' \in [Hooks -> Vtables \cup {NoFunction}]
    BY <1>2 DEF Remember, HooksInv, HooksTypeOK
  <2>2. remembered' \in [Hooks -> SUBSET Vtables]
    BY <1>1 DEF Remember, HooksInv, HooksTypeOK
  <2> QED
    BY <1>5, <2>1, <2>2 DEF HooksInv, HooksTypeOK
<1>7. \A h \in Hooks : /\ original[h] # NoFunction => original'[h] # NoFunction
                       /\ remembered[h] \subseteq remembered'[h]
  BY <1>2, <1>3, <1>4
<1>8. Entries'
  BY <1>5, <1>7 DEF HooksInv, Entries
<1>9. HalfHooked'
  BY <1>1, <1>2, <1>3, <1>4, <1>5 DEF HalfHooked
<1>10. Calling'
  BY <1>5, <1>7 DEF HooksInv, Calling
<1>11. Counted'
  <2>1. ASSUME NEW h \in Hooks PROVE IsFiniteSet(remembered'[h])
    <3>1. IsFiniteSet(remembered[h])
      BY DEF HooksInv, Counted
    <3>2. IsFiniteSet(remembered[h] \cup {v})
      BY <3>1, FS_AddElement
    <3> QED
      BY <1>4, <3>1, <3>2
  <2> QED
    BY <2>1 DEF Counted
<1>12. Rightly'
  <2> SUFFICES ASSUME OneEach'
               PROVE  /\ \A h \in Hooks : original'[h] # NoFunction =>
                                            original'[h] \in remembered'[h]
                      /\ \A t \in Threads : call'[t] \in Vtables =>
                                            call'[t] = Vtable[caller'[t]]
    BY DEF Rightly
  <2>1. OneEach
    BY <1>7 DEF OneEach
  <2>2. original'[k] \in remembered'[k]
    BY <1>1, <1>2, <1>3, <1>4, <2>1
  <2> QED
    BY <1>3, <1>5, <1>7, <2>1, <2>2 DEF HooksInv, Rightly
<1> QED
  BY <1>6, <1>8, <1>9, <1>10, <1>11, <1>12 DEF HooksInv

(* The entry is written, or it is not.                                     *)
LEMMA InstallKeeps ==
  ASSUME HooksInv, NEW d \in Devices, Install(d) \/ CannotInstall(d)
  PROVE  HooksInv'
<1> USE HooksAssumption
<1>1. d # NoDevice /\ hooking = d /\ hooking' = NoDevice
  BY DEF Install, CannotInstall
<1>2. UNCHANGED <<original, remembered, call, caller>> /\ ready' = ready \cup {d}
  BY DEF Install, CannotInstall, calls
<1>3. /\ Kind[d] \in Hooks /\ original[Kind[d]] # NoFunction
      /\ Vtable[d] \in remembered[Kind[d]]
  BY <1>1 DEF HooksInv, HalfHooked
<1>4. \/ slot' = [slot EXCEPT ![Vtable[d]] = Kind[d]]
      \/ slot' = slot
  BY DEF Install, CannotInstall
<1>5. HooksTypeOK'
  BY <1>1, <1>2, <1>3, <1>4 DEF HooksInv, HooksTypeOK
<1>6. Entries'
  <2>1. \A v \in Vtables :
          slot'[v] = slot[v] \/ (v = Vtable[d] /\ slot'[v] = Kind[d])
    BY <1>4 DEF HooksInv, HooksTypeOK
  <2>2. Kind[d] \notin Vtables
    BY <1>3
  <2> QED
    BY <1>2, <1>3, <2>1, <2>2 DEF HooksInv, Entries
<1> QED
  BY <1>1, <1>2, <1>5, <1>6
  DEF HooksInv, HalfHooked, Calling, Counted, Rightly, OneEach

(* A thread enters a function, goes on to the original, or returns.        *)
LEMMA CallKeeps ==
  ASSUME HooksInv, NEW t \in Threads,
         NEW f \in Vtables \cup Hooks \cup {NoFunction},
         NEW d \in Devices \cup {NoDevice},
         d = NoDevice <=> f = NoFunction,
         f \in Hooks => original[f] # NoFunction /\ Vtable[d] \in remembered[f],
         OneEach /\ f \in Vtables => f = Vtable[d],
         call' = [call EXCEPT ![t] = f], caller' = [caller EXCEPT ![t] = d],
         UNCHANGED hooks
  PROVE  HooksInv'
<1>1. \A u \in Threads : /\ call'[u] = IF u = t THEN f ELSE call[u]
                         /\ caller'[u] = IF u = t THEN d ELSE caller[u]
  BY DEF HooksInv, HooksTypeOK
<1>2. HooksTypeOK'
  BY DEF HooksInv, HooksTypeOK, hooks
<1>3. Calling'
  BY <1>1 DEF HooksInv, Calling, hooks
<1>4. Rightly'
  BY <1>1 DEF HooksInv, Rightly, OneEach, hooks
<1> QED
  BY <1>2, <1>3, <1>4 DEF HooksInv, Entries, HalfHooked, Counted, hooks

LEMMA HooksKeep == HooksInv /\ [HooksNext]_hookVars => HooksInv'
<1> SUFFICES ASSUME HooksInv, [HooksNext]_hookVars PROVE HooksInv'
  OBVIOUS
<1> USE HooksAssumption
<1>1. ASSUME NEW d \in Devices, Create(d) PROVE HooksInv'
  BY <1>1
  DEF Create, calls, HooksInv, HooksTypeOK, Entries, HalfHooked, Calling, Counted,
      Rightly, OneEach
<1>2. ASSUME NEW d \in Devices, Remember(d) PROVE HooksInv'
  BY <1>2, RememberKeeps
<1>3. ASSUME NEW d \in Devices, Install(d) \/ CannotInstall(d) PROVE HooksInv'
  BY <1>3, InstallKeeps
<1>4. ASSUME NEW t \in Threads, NEW d \in Devices, Read(t, d) PROVE HooksInv'
  <2> DEFINE f == slot[Vtable[d]]
  <2>1. f \in Vtables \cup Hooks /\ (f \in Vtables => f = Vtable[d])
    BY DEF HooksInv, HooksTypeOK, Entries
  <2>2. f \in Hooks => original[f] # NoFunction /\ Vtable[d] \in remembered[f]
    BY DEF HooksInv, Entries
  <2> QED
    BY <1>4, <2>1, <2>2, CallKeeps DEF Read
<1>5. ASSUME NEW t \in Threads, CallOriginal(t) PROVE HooksInv'
  <2> DEFINE h == call[t]
             f == original[h]
             d == caller[t]
  <2>1. h \in Hooks /\ f # NoFunction /\ Vtable[d] \in remembered[h] /\ d # NoDevice
    BY <1>5 DEF CallOriginal, HooksInv, Calling
  <2>2. f \in Vtables /\ d \in Devices
    BY <2>1 DEF HooksInv, HooksTypeOK
  <2>3. OneEach => f = Vtable[d]
    BY <2>1 DEF HooksInv, Rightly, OneEach
  <2>4. caller' = [caller EXCEPT ![t] = d]
    BY <1>5 DEF CallOriginal, HooksInv, HooksTypeOK
  <2> QED
    BY <1>5, <2>1, <2>2, <2>3, <2>4, CallKeeps DEF CallOriginal
<1>6. ASSUME NEW t \in Threads, Return(t) PROVE HooksInv'
  BY <1>6, CallKeeps DEF Return
<1>7. CASE UNCHANGED hookVars
  BY <1>7
  DEF hookVars, hooks, calls, HooksInv, HooksTypeOK, Entries, HalfHooked, Calling,
      Counted, Rightly, OneEach
<1> QED
  BY <1>1, <1>2, <1>3, <1>4, <1>5, <1>6, <1>7 DEF HooksNext

LEMMA HooksAlways == HooksSpec => []HooksInv
BY HooksInitially, HooksKeep, PTL DEF HooksSpec

(* Typed: no hook ever remembers a hook as its original, so no two of them *)
(* call each other.                                                        *)
THEOREM HooksTypeCorrect == HooksSpec => []HooksTypeOK
<1>1. HooksInv => HooksTypeOK
  BY DEF HooksInv
<1> QED
  BY <1>1, HooksAlways, PTL

(* A read that comes between the two writes of a hooking, or after one of  *)
(* them has failed, still finds an original to call.                       *)
THEOREM ReadsFindAFunction == HooksSpec => []NeverNull
<1>1. HooksInv => NeverNull
  BY DEF HooksInv, Calling, NeverNull
<1> QED
  BY <1>1, HooksAlways, PTL

(* With one vtable for each hook, shared or not, a read ends in the        *)
(* original of the vtable it came through.                                 *)
THEOREM ReadsFindTheirOriginal == HooksSpec => []RightOriginal
<1>1. ASSUME HooksInv, \A h \in Hooks : Cardinality(remembered[h]) <= 1
      PROVE  OneEach
  <2> SUFFICES ASSUME NEW h \in Hooks, NEW u \in remembered[h], NEW w \in remembered[h],
                      u # w
               PROVE  FALSE
    BY DEF OneEach
  <2>1. IsFiniteSet(remembered[h])
    BY <1>1 DEF HooksInv, Counted
  <2>2. IsFiniteSet(remembered[h] \ {u}) /\ w \in remembered[h] \ {u}
    BY <2>1, FS_RemoveElement
  <2>3. Cardinality(remembered[h] \ {u}) = Cardinality(remembered[h]) - 1
    BY <2>1, FS_RemoveElement
  <2>4. Cardinality(remembered[h] \ {u}) # 0
    BY <2>2, FS_EmptySet
  <2>5. /\ Cardinality(remembered[h]) \in Nat
        /\ Cardinality(remembered[h] \ {u}) \in Nat
    BY <2>1, <2>2, FS_CardinalityType
  <2> QED
    BY <1>1, <2>3, <2>4, <2>5
<1>2. HooksInv => RightOriginal
  BY <1>1 DEF HooksInv, Rightly, RightOriginal
<1> QED
  BY <1>2, HooksAlways, PTL

=============================================================================
