----------------------------- MODULE AudioProofs -----------------------------
(***************************************************************************)
(* Proofs about Audio, for any number of sounds of any length: the type    *)
(* invariant, the memory safety of sounds, the integrity of the tracker    *)
(* and the refinement of AudioLifecycle, all from one inductive invariant. *)
(***************************************************************************)
EXTENDS Audio, SequenceTheorems, TLAPS

(* The parts of the inductive invariant.                                   *)

\* Who holds _cs, and what a call is about.
LockInv ==
  /\ pc["lua"] # "idle" <=> cs = "lua"
  /\ mpc \notin {"sleep", "scan"} <=> cs = "mgr"
  /\ pc["mgr"] # "idle" => mpc = "callback"
  /\ pc["lua"] # "add" /\ pc["mgr"] # "add"
  /\ pc["ui"] \in {"idle", "add", "start", "play"}
  /\ \A t \in {"lua", "mgr"} : pc[t] # "idle" => arg[t] \in LuaSounds
  /\ pc["ui"] # "idle" => arg["ui"] \in UiSounds

\* The manager's iteration: the popped sound and the iterations left.
ManagerInv ==
  /\ IF mpc \in {"sleep", "scan"}
       THEN mcur = NoSound
       ELSE mcur \in Sounds /\ state[mcur] # "none"
  /\ mpc # "sleep" => mleft >= 1
  /\ mpc = "scan" => mleft <= Len(dq)
  /\ mpc \notin {"sleep", "scan"} => mleft <= Len(dq) + 1
  /\ mpc \in {"notify", "callback", "uninit", "pause", "stop"} => device[mcur] # "none"
  /\ mpc \in {"close", "drop"} => device[mcur] = "none"
  /\ mpc \in {"notify", "pause", "stop"} => doneCalls[mcur] = 0

\* The resources of a sound, in the order in which they come and go.
ResourceInv ==
  \A s \in Sounds :
    /\ state[s] = "none" => /\ device[s] = "none" /\ doneCalls[s] = 0
                            /\ s \notin objects \cup held \cup freed
    /\ cb[s] # "idle" => device[s] = "started"
    /\ device[s] # "none" => decoder[s] = "open"
    /\ device[s] # "none" /\ s \in LuaSounds => s \in objects
    /\ s \in freed => s \notin objects
    /\ doneCalls[s] > 0 /\ device[s] # "none" =>
         mcur = s /\ mpc \in {"callback", "uninit"}

\* The sounds in the deque.
Entries == {dq[i] : i \in DOMAIN dq}

\* The deque holds no sound twice.
DistinctInv == \A i, j \in DOMAIN dq : dq[i] = dq[j] => i = j

\* What the deque holds, and what check() has popped, is alive.
LiveInv ==
  /\ \A s \in Entries : s # mcur /\ device[s] # "none"
  /\ mcur \in LuaSounds => mcur \in objects

\* A sound enters the deque in the first play(), which is still running as
\* long as the sound is "created".
FirstPlayInv ==
  \A s \in Sounds : state[s] = "created" /\ (mcur = s \/ s \in Entries) =>
    \E t \in Threads : pc[t] \in {"start", "play"} /\ arg[t] = s

\* The toggle sound is alive and untracked until add() pushes it.
UiAddInv ==
  pc["ui"] = "add" => /\ arg["ui"] # mcur /\ arg["ui"] \notin Entries
                      /\ device[arg["ui"]] # "none"

QueueInv == DistinctInv /\ LiveInv /\ FirstPlayInv /\ UiAddInv

\* A call is about a sound that exists.
CallInv == \A t \in Threads : pc[t] # "idle" => state[arg[t]] # "none"

IInv == TypeOK /\ LockInv /\ ManagerInv /\ ResourceInv /\ QueueInv /\ CallInv

\* The values of a sound's state, so that State need not be expanded below.
LEMMA StateValues ==
  /\ "none" \in State /\ "created" \in State /\ "playing" \in State
  /\ "pausing" \in State /\ "paused" \in State /\ "finished" \in State
BY DEF State

\* The places an API call can be at.
LEMMA CallPcValues ==
  /\ "idle" \in CallPc /\ "add" \in CallPc /\ "start" \in CallPc
  /\ "play" \in CallPc /\ "flags" \in CallPc /\ "pstop" \in CallPc
  /\ "pset" \in CallPc /\ "fstop" \in CallPc /\ "fset" \in CallPc
  /\ "fade" \in CallPc /\ "pnote" \in CallPc /\ "fnote" \in CallPc
  /\ "nofinish" \in CallPc /\ "tofinish" \in CallPc
BY DEF CallPc

\* The places check() can be at.
LEMMA ManagerPcValues ==
  /\ "sleep" \in ManagerPc /\ "scan" \in ManagerPc /\ "notify" \in ManagerPc
  /\ "callback" \in ManagerPc /\ "uninit" \in ManagerPc /\ "close" \in ManagerPc
  /\ "drop" \in ManagerPc /\ "pause" \in ManagerPc /\ "stop" \in ManagerPc
BY DEF ManagerPc

\* Lua's sounds and the toggle sounds are apart, and NoSound is neither.
LEMMA SoundKinds ==
  /\ LuaSounds \subseteq Sounds /\ UiSounds \subseteq Sounds
  /\ NoSound \notin Sounds /\ LuaSounds \cap UiSounds = {}
  /\ \A s \in Sounds : s \in LuaSounds \/ s \in UiSounds
BY SoundsAssumption DEF Sounds

\* Every step keeps the types, the unsigned fade counter within its word.
LEMMA TypeStep == ASSUME IInv, [Next]_vars PROVE TypeOK'
<1> USE StateValues, CallPcValues, ManagerPcValues, SoundKinds
    DEF Enter, Goto, Return, SetState, NewSound, CanCall, CanCallOn, flags,
        memory, manager
<1>0. TypeOK /\ LockInv /\ ManagerInv
  BY DEF IInv
<1>1. ASSUME NEW t \in Threads, NEW s \in Sounds, New(t, s)
      PROVE  TypeOK'
  <2>1. SoundTypeOK'
    BY <1>0, <1>1 DEF TypeOK, SoundTypeOK, New, Anchor
  <2>2. MemoryTypeOK'
    BY <1>0, <1>1 DEF TypeOK, MemoryTypeOK, New, Anchor
  <2> QED
    BY <1>0, <1>1, <2>1, <2>2 DEF TypeOK, FadeTypeOK, TrackerTypeOK, CallTypeOK, ManagerTypeOK, New, Anchor
<1>2. ASSUME NEW t \in Threads, NEW s \in Sounds, Play(t, s)
      PROVE  TypeOK'
  <2>1. TrackerTypeOK'
    BY <1>0, <1>2 DEF TypeOK, TrackerTypeOK, MemoryTypeOK, Play, TrackOnPlay
  <2>2. CallTypeOK'
    BY <1>0, <1>2 DEF TypeOK, CallTypeOK, Play, TrackOnPlay
  <2> QED
    BY <1>0, <1>2, <2>1, <2>2 DEF TypeOK, SoundTypeOK, FadeTypeOK, MemoryTypeOK, ManagerTypeOK, Play, TrackOnPlay
<1>3. ASSUME NEW t \in Threads, NEW s \in Sounds, Pause(t, s)
      PROVE  TypeOK'
  <2>1. CallTypeOK'
    BY <1>0, <1>3 DEF TypeOK, CallTypeOK, Pause
  <2> QED
    BY <1>0, <1>3, <2>1 DEF TypeOK, SoundTypeOK, FadeTypeOK, TrackerTypeOK, MemoryTypeOK, ManagerTypeOK, Pause
<1>4. ASSUME NEW t \in Threads, NEW s \in Sounds, Finish(t, s)
      PROVE  TypeOK'
  <2>1. CallTypeOK'
    BY <1>0, <1>4 DEF TypeOK, CallTypeOK, Finish
  <2> QED
    BY <1>0, <1>4, <2>1 DEF TypeOK, SoundTypeOK, FadeTypeOK, TrackerTypeOK, MemoryTypeOK, ManagerTypeOK, Finish
<1>5. ASSUME NEW t \in Threads, NEW s \in Sounds, NEW b \in BOOLEAN, DuringFade(t, s, b)
      PROVE  TypeOK'
  <2>1. FadeTypeOK'
    BY <1>0, <1>5 DEF TypeOK, FadeTypeOK, DuringFade
  <2>2. CallTypeOK'
    BY <1>0, <1>5 DEF TypeOK, CallTypeOK, DuringFade
  <2> QED
    BY <1>0, <1>5, <2>1, <2>2 DEF TypeOK, SoundTypeOK, TrackerTypeOK, MemoryTypeOK, ManagerTypeOK, DuringFade
<1>6. ASSUME NEW t \in Threads, NEW s \in Sounds, FadeTo(t, s)
      PROVE  TypeOK'
  <2>1. FadeTypeOK'
    BY <1>0, <1>6 DEF TypeOK, FadeTypeOK, FadeTo
  <2>2. CallTypeOK'
    BY <1>0, <1>6 DEF TypeOK, CallTypeOK, FadeTo
  <2> QED
    BY <1>0, <1>6, <2>1, <2>2 DEF TypeOK, SoundTypeOK, TrackerTypeOK, MemoryTypeOK, ManagerTypeOK, FadeTo
<1>7. ASSUME NEW t \in Threads, NEW s \in Sounds, WhenDone(t, s)
      PROVE  TypeOK'
  <2>1. TrackerTypeOK'
    BY <1>0, <1>7 DEF TypeOK, TrackerTypeOK, MemoryTypeOK, WhenDone
  <2> QED
    BY <1>0, <1>7, <2>1 DEF TypeOK, SoundTypeOK, FadeTypeOK, MemoryTypeOK, CallTypeOK, ManagerTypeOK, WhenDone
<1>8. ASSUME NEW t \in Threads, PlayStart(t)
      PROVE  TypeOK'
  <2>1. SoundTypeOK'
    BY <1>0, <1>8 DEF TypeOK, SoundTypeOK, PlayStart, StartRefused
  <2>2. CallTypeOK'
    BY <1>0, <1>8 DEF TypeOK, CallTypeOK, PlayStart, StartRefused
  <2> QED
    BY <1>0, <1>8, <2>1, <2>2 DEF TypeOK, FadeTypeOK, TrackerTypeOK, MemoryTypeOK, ManagerTypeOK, PlayStart, StartRefused
<1>9. ASSUME NEW t \in Threads, PlaySet(t)
      PROVE  TypeOK'
  <2>1. SoundTypeOK'
    BY <1>0, <1>9 DEF TypeOK, SoundTypeOK, PlaySet
  <2>2. CallTypeOK'
    BY <1>0, <1>9 DEF TypeOK, CallTypeOK, PlaySet
  <2> QED
    BY <1>0, <1>9, <2>1, <2>2 DEF TypeOK, FadeTypeOK, TrackerTypeOK, MemoryTypeOK, ManagerTypeOK, PlaySet
<1>10. ASSUME NEW t \in Threads, NotePause(t)
      PROVE  TypeOK'
  <2>1. FadeTypeOK'
    BY <1>0, <1>10 DEF TypeOK, FadeTypeOK, NotePause
  <2>2. CallTypeOK'
    BY <1>0, <1>10 DEF TypeOK, CallTypeOK, NotePause
  <2> QED
    BY <1>0, <1>10, <2>1, <2>2 DEF TypeOK, SoundTypeOK, TrackerTypeOK, MemoryTypeOK, ManagerTypeOK, NotePause
<1>11. ASSUME NEW t \in Threads, NoteFinish(t)
      PROVE  TypeOK'
  <2>1. FadeTypeOK'
    BY <1>0, <1>11 DEF TypeOK, FadeTypeOK, NoteFinish
  <2>2. CallTypeOK'
    BY <1>0, <1>11 DEF TypeOK, CallTypeOK, NoteFinish
  <2> QED
    BY <1>0, <1>11, <2>1, <2>2 DEF TypeOK, SoundTypeOK, TrackerTypeOK, MemoryTypeOK, ManagerTypeOK, NoteFinish
<1>12. ASSUME NEW t \in Threads, PauseStop(t)
      PROVE  TypeOK'
  <2>1. SoundTypeOK'
    BY <1>0, <1>12 DEF TypeOK, SoundTypeOK, PauseStop, StopDevice
  <2>2. CallTypeOK'
    BY <1>0, <1>12 DEF TypeOK, CallTypeOK, PauseStop, StopDevice
  <2> QED
    BY <1>0, <1>12, <2>1, <2>2 DEF TypeOK, FadeTypeOK, TrackerTypeOK, MemoryTypeOK, ManagerTypeOK, PauseStop, StopDevice
<1>13. ASSUME NEW t \in Threads, PauseSet(t)
      PROVE  TypeOK'
  <2>1. SoundTypeOK'
    BY <1>0, <1>13 DEF TypeOK, SoundTypeOK, PauseSet
  <2>2. CallTypeOK'
    BY <1>0, <1>13 DEF TypeOK, CallTypeOK, PauseSet
  <2> QED
    BY <1>0, <1>13, <2>1, <2>2 DEF TypeOK, FadeTypeOK, TrackerTypeOK, MemoryTypeOK, ManagerTypeOK, PauseSet
<1>14. ASSUME NEW t \in Threads, FinishStop(t)
      PROVE  TypeOK'
  <2>1. SoundTypeOK'
    BY <1>0, <1>14 DEF TypeOK, SoundTypeOK, FinishStop, StopDevice
  <2>2. CallTypeOK'
    BY <1>0, <1>14 DEF TypeOK, CallTypeOK, FinishStop, StopDevice
  <2> QED
    BY <1>0, <1>14, <2>1, <2>2 DEF TypeOK, FadeTypeOK, TrackerTypeOK, MemoryTypeOK, ManagerTypeOK, FinishStop, StopDevice
<1>15. ASSUME NEW t \in Threads, FinishSet(t)
      PROVE  TypeOK'
  <2>1. SoundTypeOK'
    BY <1>0, <1>15 DEF TypeOK, SoundTypeOK, FinishSet
  <2>2. CallTypeOK'
    BY <1>0, <1>15 DEF TypeOK, CallTypeOK, FinishSet
  <2> QED
    BY <1>0, <1>15, <2>1, <2>2 DEF TypeOK, FadeTypeOK, TrackerTypeOK, MemoryTypeOK, ManagerTypeOK, FinishSet
<1>16. ASSUME NEW t \in Threads, FadeSet(t)
      PROVE  TypeOK'
  <2>1. PICK n \in 0..MaxFade : fadeLeft' = [fadeLeft EXCEPT ![arg[t]] = n]
    BY <1>16 DEF FadeSet
  <2>2. fadeLeft' \in [Sounds -> 0..MaxFade]
    BY <1>0, <2>1 DEF TypeOK, FadeTypeOK
  <2>3. FadeTypeOK'
    BY <1>0, <1>16, <2>2 DEF TypeOK, FadeTypeOK, FadeSet
  <2>4. CallTypeOK'
    BY <1>0, <1>16 DEF TypeOK, CallTypeOK, FadeSet
  <2> QED
    BY <1>0, <1>16, <2>3, <2>4 DEF TypeOK, SoundTypeOK, TrackerTypeOK, MemoryTypeOK, ManagerTypeOK, FadeSet
<1>17. ASSUME NEW s \in Sounds, CallbackRead(s)
      PROVE  TypeOK'
  <2>1. SoundTypeOK'
    BY <1>0, <1>17, BoundsAssumption DEF TypeOK, SoundTypeOK, CallbackRead
  <2> QED
    BY <1>0, <1>17, <2>1 DEF TypeOK, FadeTypeOK, TrackerTypeOK, MemoryTypeOK, CallTypeOK, ManagerTypeOK, CallbackRead
<1>18. ASSUME NEW s \in Sounds, CallbackEof(s)
      PROVE  TypeOK'
  <2>1. SoundTypeOK'
    BY <1>0, <1>18 DEF TypeOK, SoundTypeOK, CallbackEof, PlayedOut
  <2> QED
    BY <1>0, <1>18, <2>1 DEF TypeOK, FadeTypeOK, TrackerTypeOK, MemoryTypeOK, CallTypeOK, ManagerTypeOK, CallbackEof, PlayedOut
<1>19. ASSUME NEW s \in Sounds, CallbackFade(s)
      PROVE  TypeOK'
  <2>1. SoundTypeOK'
    BY <1>0, <1>19 DEF TypeOK, SoundTypeOK, CallbackFade
  <2>2. FadeTypeOK'
    BY <1>0, <1>19 DEF TypeOK, FadeTypeOK, CallbackFade
  <2> QED
    BY <1>0, <1>19, <2>1, <2>2 DEF TypeOK, TrackerTypeOK, MemoryTypeOK, CallTypeOK, ManagerTypeOK, CallbackFade
<1>20. ASSUME NEW s \in Sounds, CallbackOver(s)
      PROVE  TypeOK'
  <2>1. SoundTypeOK'
    BY <1>0, <1>20 DEF TypeOK, SoundTypeOK, CallbackOver
  <2>2. FadeTypeOK'
    BY <1>0, <1>20 DEF TypeOK, FadeTypeOK, CallbackOver
  <2> QED
    BY <1>0, <1>20, <2>1, <2>2 DEF TypeOK, TrackerTypeOK, MemoryTypeOK, CallTypeOK, ManagerTypeOK, CallbackOver
<1>21. ASSUME NEW s \in Sounds, CallbackZero(s)
      PROVE  TypeOK'
  <2>1. SoundTypeOK'
    BY <1>0, <1>21 DEF TypeOK, SoundTypeOK, CallbackZero
  <2>2. FadeTypeOK'
    BY <1>0, <1>21, BoundsAssumption DEF TypeOK, FadeTypeOK, CallbackZero
  <2> QED
    BY <1>0, <1>21, <2>1, <2>2 DEF TypeOK, TrackerTypeOK, MemoryTypeOK, CallTypeOK, ManagerTypeOK, CallbackZero
<1>22. ASSUME NEW s \in Sounds, CallbackDecrement(s)
      PROVE  TypeOK'
  <2>1. SoundTypeOK'
    BY <1>0, <1>22 DEF TypeOK, SoundTypeOK, CallbackDecrement, Less
  <2>2. FadeTypeOK'
    BY <1>0, <1>22, BoundsAssumption DEF TypeOK, FadeTypeOK, CallbackDecrement, Less
  <2> QED
    BY <1>0, <1>22, <2>1, <2>2 DEF TypeOK, TrackerTypeOK, MemoryTypeOK, CallTypeOK, ManagerTypeOK, CallbackDecrement, Less
<1>23. ASSUME NEW s \in Sounds, CallbackApply(s)
      PROVE  TypeOK'
  <2>1. SoundTypeOK'
    BY <1>0, <1>23 DEF TypeOK, SoundTypeOK, CallbackApply
  <2> QED
    BY <1>0, <1>23, <2>1 DEF TypeOK, FadeTypeOK, TrackerTypeOK, MemoryTypeOK, CallTypeOK, ManagerTypeOK, CallbackApply
<1>24. ASSUME NEW s \in Sounds, DeviceLost(s)
      PROVE  TypeOK'
  <2>1. SoundTypeOK'
    BY <1>0, <1>24 DEF TypeOK, SoundTypeOK, DeviceLost
  <2> QED
    BY <1>0, <1>24, <2>1 DEF TypeOK, FadeTypeOK, TrackerTypeOK, MemoryTypeOK, CallTypeOK, ManagerTypeOK, DeviceLost
<1>25. ASSUME NEW s \in Sounds, Forget(s)
      PROVE  TypeOK'
  <2>1. MemoryTypeOK'
    BY <1>0, <1>25 DEF TypeOK, MemoryTypeOK, Forget
  <2> QED
    BY <1>0, <1>25, <2>1 DEF TypeOK, SoundTypeOK, FadeTypeOK, TrackerTypeOK, CallTypeOK, ManagerTypeOK, Forget
<1>26. ASSUME NEW s \in Sounds, Collect(s)
      PROVE  TypeOK'
  <2>1. MemoryTypeOK'
    BY <1>0, <1>26 DEF TypeOK, MemoryTypeOK, Collect, InCall
  <2> QED
    BY <1>0, <1>26, <2>1 DEF TypeOK, SoundTypeOK, FadeTypeOK, TrackerTypeOK, CallTypeOK, ManagerTypeOK, Collect, InCall
<1>27. ASSUME NEW s \in Sounds, UiNew(s)
      PROVE  TypeOK'
  <2>1. SoundTypeOK'
    BY <1>0, <1>27 DEF TypeOK, SoundTypeOK, UiNew
  <2>2. CallTypeOK'
    BY <1>0, <1>27 DEF TypeOK, CallTypeOK, UiNew
  <2> QED
    BY <1>0, <1>27, <2>1, <2>2 DEF TypeOK, FadeTypeOK, TrackerTypeOK, MemoryTypeOK, ManagerTypeOK, UiNew
<1>28. ASSUME UiAdd
      PROVE  TypeOK'
  <2>1. TrackerTypeOK'
    BY <1>0, <1>28 DEF TypeOK, TrackerTypeOK, CallTypeOK, LockInv, UiAdd
  <2>2. CallTypeOK'
    BY <1>0, <1>28 DEF TypeOK, CallTypeOK, UiAdd
  <2> QED
    BY <1>0, <1>28, <2>1, <2>2 DEF TypeOK, SoundTypeOK, FadeTypeOK, MemoryTypeOK, ManagerTypeOK, UiAdd
<1>29. ASSUME CheckBegin
      PROVE  TypeOK'
  <2>1. ManagerTypeOK'
    BY <1>0, <1>29 DEF TypeOK, ManagerTypeOK, TrackerTypeOK, CheckBegin, Iterations
  <2> QED
    BY <1>0, <1>29, <2>1 DEF TypeOK, SoundTypeOK, FadeTypeOK, TrackerTypeOK, MemoryTypeOK, CallTypeOK, CheckBegin, Iterations
<1>30. ASSUME CheckTake
      PROVE  TypeOK'
  <2>1. TrackerTypeOK'
    <3>1. dq \in Seq(Sounds) /\ dq # <<>>
      BY <1>0, <1>30 DEF TypeOK, TrackerTypeOK, CheckTake
    <3>2. Head(dq) \in Sounds /\ Tail(dq) \in Seq(Sounds)
      BY <3>1, HeadTailProperties
    <3>3. Append(Tail(dq), Head(dq)) \in Seq(Sounds)
      BY <3>2, AppendProperties
    <3> QED
      BY <1>0, <1>30, <3>2, <3>3 DEF TypeOK, TrackerTypeOK, CheckTake
  <2>2. CallTypeOK'
    BY <1>0, <1>30 DEF TypeOK, CallTypeOK, CheckTake, IterationDone
  <2>3. ManagerTypeOK'
    BY <1>0, <1>30 DEF TypeOK, ManagerTypeOK, TrackerTypeOK, ManagerInv, CheckTake, IterationDone
  <2> QED
    BY <1>0, <1>30, <2>1, <2>2, <2>3 DEF TypeOK, SoundTypeOK, FadeTypeOK, MemoryTypeOK, CheckTake, IterationDone
<1>31. ASSUME CheckNotify
      PROVE  TypeOK'
  <2>1. TrackerTypeOK'
    BY <1>0, <1>31 DEF TypeOK, TrackerTypeOK, ManagerInv, CheckNotify
  <2>2. ManagerTypeOK'
    BY <1>0, <1>31 DEF TypeOK, ManagerTypeOK, CheckNotify
  <2> QED
    BY <1>0, <1>31, <2>1, <2>2 DEF TypeOK, SoundTypeOK, FadeTypeOK, MemoryTypeOK, CallTypeOK, CheckNotify
<1>32. ASSUME CallbackReturn
      PROVE  TypeOK'
  <2>1. ManagerTypeOK'
    BY <1>0, <1>32 DEF TypeOK, ManagerTypeOK, CallbackReturn
  <2> QED
    BY <1>0, <1>32, <2>1 DEF TypeOK, SoundTypeOK, FadeTypeOK, TrackerTypeOK, MemoryTypeOK, CallTypeOK, CallbackReturn
<1>33. ASSUME CheckUninit
      PROVE  TypeOK'
  <2>1. SoundTypeOK'
    BY <1>0, <1>33 DEF TypeOK, SoundTypeOK, CheckUninit
  <2>2. ManagerTypeOK'
    BY <1>0, <1>33 DEF TypeOK, ManagerTypeOK, CheckUninit
  <2> QED
    BY <1>0, <1>33, <2>1, <2>2 DEF TypeOK, FadeTypeOK, TrackerTypeOK, MemoryTypeOK, CallTypeOK, CheckUninit
<1>34. ASSUME CheckClose
      PROVE  TypeOK'
  <2>1. SoundTypeOK'
    BY <1>0, <1>34 DEF TypeOK, SoundTypeOK, CheckClose
  <2>2. ManagerTypeOK'
    BY <1>0, <1>34 DEF TypeOK, ManagerTypeOK, CheckClose
  <2> QED
    BY <1>0, <1>34, <2>1, <2>2 DEF TypeOK, FadeTypeOK, TrackerTypeOK, MemoryTypeOK, CallTypeOK, CheckClose
<1>35. ASSUME CheckDrop
      PROVE  TypeOK'
  <2>1. MemoryTypeOK'
    BY <1>0, <1>35 DEF TypeOK, MemoryTypeOK, CheckDrop, IterationDone
  <2>2. CallTypeOK'
    BY <1>0, <1>35 DEF TypeOK, CallTypeOK, CheckDrop, IterationDone
  <2>3. ManagerTypeOK'
    BY <1>0, <1>35 DEF TypeOK, ManagerTypeOK, TrackerTypeOK, ManagerInv, CheckDrop, IterationDone
  <2> QED
    BY <1>0, <1>35, <2>1, <2>2, <2>3 DEF TypeOK, SoundTypeOK, FadeTypeOK, TrackerTypeOK, CheckDrop, IterationDone
<1>36. ASSUME CheckPause
      PROVE  TypeOK'
  <2>1. SoundTypeOK'
    BY <1>0, <1>36 DEF TypeOK, SoundTypeOK, CheckPause
  <2>2. ManagerTypeOK'
    BY <1>0, <1>36 DEF TypeOK, ManagerTypeOK, CheckPause
  <2> QED
    BY <1>0, <1>36, <2>1, <2>2 DEF TypeOK, FadeTypeOK, TrackerTypeOK, MemoryTypeOK, CallTypeOK, CheckPause
<1>37. ASSUME CheckStop
      PROVE  TypeOK'
  <2>1. SoundTypeOK'
    BY <1>0, <1>37 DEF TypeOK, SoundTypeOK, CheckStop, Requeue, IterationDone
  <2>2. TrackerTypeOK'
    BY <1>0, <1>37 DEF TypeOK, TrackerTypeOK, ManagerInv, CheckStop, Requeue, IterationDone
  <2>3. CallTypeOK'
    BY <1>0, <1>37 DEF TypeOK, CallTypeOK, CheckStop, Requeue, IterationDone
  <2>4. ManagerTypeOK'
    BY <1>0, <1>37 DEF TypeOK, ManagerTypeOK, TrackerTypeOK, ManagerInv, CheckStop, Requeue, IterationDone
  <2> QED
    BY <1>0, <1>37, <2>1, <2>2, <2>3, <2>4 DEF TypeOK, FadeTypeOK, MemoryTypeOK, CheckStop, Requeue, IterationDone
<1>38. CASE UNCHANGED vars
  BY <1>0, <1>38 DEF TypeOK, vars, SoundTypeOK, FadeTypeOK, TrackerTypeOK, MemoryTypeOK, CallTypeOK, ManagerTypeOK
<1> QED
  BY <1>1, <1>2, <1>3, <1>4, <1>5, <1>6, <1>7, <1>8, <1>9, <1>10, <1>11, <1>12, <1>13, <1>14, <1>15, <1>16, <1>17, <1>18, <1>19, <1>20, <1>21, <1>22, <1>23, <1>24, <1>25, <1>26, <1>27, <1>28, <1>29, <1>30, <1>31, <1>32, <1>33, <1>34, <1>35, <1>36, <1>37, <1>38 DEF Next, Call, CallStep, Device, Check, CheckStep

\* Every step keeps _cs with the one thread that is inside it.
LEMMA LockStep == ASSUME IInv, TypeOK', [Next]_vars PROVE LockInv'
<1> USE SoundKinds DEF Enter, Goto, Return, SetState, NewSound, CanCall, CanCallOn, flags,
        memory, manager, MemoryTypeOK, Threads
<1>0. TypeOK /\ LockInv /\ ManagerInv /\ ResourceInv /\ QueueInv
  BY DEF IInv
<1>1. ASSUME NEW t \in Threads, NEW s \in Sounds, New(t, s)
      PROVE  LockInv'
  BY <1>0, <1>1 DEF LockInv, CallTypeOK, TypeOK, New, Anchor
<1>2. ASSUME NEW t \in Threads, NEW s \in Sounds, Play(t, s)
      PROVE  LockInv'
  BY <1>0, <1>2 DEF LockInv, CallTypeOK, TypeOK, Play, TrackOnPlay
<1>3. ASSUME NEW t \in Threads, NEW s \in Sounds, Pause(t, s)
      PROVE  LockInv'
  BY <1>0, <1>3 DEF LockInv, CallTypeOK, TypeOK, Pause
<1>4. ASSUME NEW t \in Threads, NEW s \in Sounds, Finish(t, s)
      PROVE  LockInv'
  BY <1>0, <1>4 DEF LockInv, CallTypeOK, TypeOK, Finish
<1>5. ASSUME NEW t \in Threads, NEW s \in Sounds, NEW b \in BOOLEAN, DuringFade(t, s, b)
      PROVE  LockInv'
  BY <1>0, <1>5 DEF LockInv, CallTypeOK, TypeOK, DuringFade
<1>6. ASSUME NEW t \in Threads, NEW s \in Sounds, FadeTo(t, s)
      PROVE  LockInv'
  BY <1>0, <1>6 DEF LockInv, CallTypeOK, TypeOK, FadeTo
<1>7. ASSUME NEW t \in Threads, NEW s \in Sounds, WhenDone(t, s)
      PROVE  LockInv'
  BY <1>0, <1>7 DEF LockInv, CallTypeOK, TypeOK, WhenDone
<1>8. ASSUME NEW t \in Threads, PlayStart(t)
      PROVE  LockInv'
  BY <1>0, <1>8 DEF LockInv, CallTypeOK, TypeOK, PlayStart, StartRefused
<1>9. ASSUME NEW t \in Threads, PlaySet(t)
      PROVE  LockInv'
  BY <1>0, <1>9 DEF LockInv, CallTypeOK, TypeOK, PlaySet
<1>10. ASSUME NEW t \in Threads, NotePause(t)
      PROVE  LockInv'
  BY <1>0, <1>10 DEF LockInv, CallTypeOK, TypeOK, NotePause
<1>11. ASSUME NEW t \in Threads, NoteFinish(t)
      PROVE  LockInv'
  BY <1>0, <1>11 DEF LockInv, CallTypeOK, TypeOK, NoteFinish
<1>12. ASSUME NEW t \in Threads, PauseStop(t)
      PROVE  LockInv'
  BY <1>0, <1>12 DEF LockInv, CallTypeOK, TypeOK, PauseStop, StopDevice
<1>13. ASSUME NEW t \in Threads, PauseSet(t)
      PROVE  LockInv'
  BY <1>0, <1>13 DEF LockInv, CallTypeOK, TypeOK, PauseSet
<1>14. ASSUME NEW t \in Threads, FinishStop(t)
      PROVE  LockInv'
  BY <1>0, <1>14 DEF LockInv, CallTypeOK, TypeOK, FinishStop, StopDevice
<1>15. ASSUME NEW t \in Threads, FinishSet(t)
      PROVE  LockInv'
  BY <1>0, <1>15 DEF LockInv, CallTypeOK, TypeOK, FinishSet
<1>16. ASSUME NEW t \in Threads, FadeSet(t)
      PROVE  LockInv'
  BY <1>0, <1>16 DEF LockInv, CallTypeOK, TypeOK, FadeSet
<1>17. ASSUME NEW s \in Sounds, CallbackRead(s)
      PROVE  LockInv'
  BY <1>0, <1>17 DEF LockInv, CallTypeOK, TypeOK, CallbackRead
<1>18. ASSUME NEW s \in Sounds, CallbackEof(s)
      PROVE  LockInv'
  BY <1>0, <1>18 DEF LockInv, CallTypeOK, TypeOK, CallbackEof, PlayedOut
<1>19. ASSUME NEW s \in Sounds, CallbackFade(s)
      PROVE  LockInv'
  BY <1>0, <1>19 DEF LockInv, CallTypeOK, TypeOK, CallbackFade
<1>20. ASSUME NEW s \in Sounds, CallbackOver(s)
      PROVE  LockInv'
  BY <1>0, <1>20 DEF LockInv, CallTypeOK, TypeOK, CallbackOver
<1>21. ASSUME NEW s \in Sounds, CallbackZero(s)
      PROVE  LockInv'
  BY <1>0, <1>21 DEF LockInv, CallTypeOK, TypeOK, CallbackZero
<1>22. ASSUME NEW s \in Sounds, CallbackDecrement(s)
      PROVE  LockInv'
  BY <1>0, <1>22 DEF LockInv, CallTypeOK, TypeOK, CallbackDecrement, Less
<1>23. ASSUME NEW s \in Sounds, CallbackApply(s)
      PROVE  LockInv'
  BY <1>0, <1>23 DEF LockInv, CallTypeOK, TypeOK, CallbackApply
<1>24. ASSUME NEW s \in Sounds, DeviceLost(s)
      PROVE  LockInv'
  BY <1>0, <1>24 DEF LockInv, CallTypeOK, TypeOK, DeviceLost
<1>25. ASSUME NEW s \in Sounds, Forget(s)
      PROVE  LockInv'
  BY <1>0, <1>25 DEF LockInv, CallTypeOK, TypeOK, Forget
<1>26. ASSUME NEW s \in Sounds, Collect(s)
      PROVE  LockInv'
  BY <1>0, <1>26 DEF LockInv, CallTypeOK, TypeOK, Collect, InCall
<1>27. ASSUME NEW s \in Sounds, UiNew(s)
      PROVE  LockInv'
  BY <1>0, <1>27 DEF LockInv, CallTypeOK, TypeOK, UiNew
<1>28. ASSUME UiAdd
      PROVE  LockInv'
  BY <1>0, <1>28 DEF LockInv, CallTypeOK, TypeOK, UiAdd
<1>29. ASSUME CheckBegin
      PROVE  LockInv'
  BY <1>0, <1>29 DEF LockInv, CallTypeOK, TypeOK, CheckBegin, Iterations
<1>30. ASSUME CheckTake
      PROVE  LockInv'
  BY <1>0, <1>30 DEF LockInv, CallTypeOK, TypeOK, CheckTake, IterationDone
<1>31. ASSUME CheckNotify
      PROVE  LockInv'
  BY <1>0, <1>31 DEF LockInv, CallTypeOK, TypeOK, CheckNotify
<1>32. ASSUME CallbackReturn
      PROVE  LockInv'
  BY <1>0, <1>32 DEF LockInv, CallTypeOK, TypeOK, CallbackReturn
<1>33. ASSUME CheckUninit
      PROVE  LockInv'
  BY <1>0, <1>33 DEF LockInv, CallTypeOK, TypeOK, CheckUninit
<1>34. ASSUME CheckClose
      PROVE  LockInv'
  BY <1>0, <1>34 DEF LockInv, CallTypeOK, TypeOK, CheckClose
<1>35. ASSUME CheckDrop
      PROVE  LockInv'
  BY <1>0, <1>35 DEF LockInv, CallTypeOK, TypeOK, CheckDrop, IterationDone
<1>36. ASSUME CheckPause
      PROVE  LockInv'
  BY <1>0, <1>36 DEF LockInv, CallTypeOK, TypeOK, CheckPause
<1>37. ASSUME CheckStop
      PROVE  LockInv'
  BY <1>0, <1>37 DEF LockInv, CallTypeOK, TypeOK, CheckStop, Requeue, IterationDone
<1>38. CASE UNCHANGED vars
  BY <1>0, <1>38 DEF vars, LockInv, CallTypeOK, TypeOK
<1> QED
  BY <1>1, <1>2, <1>3, <1>4, <1>5, <1>6, <1>7, <1>8, <1>9, <1>10, <1>11, <1>12, <1>13, <1>14, <1>15, <1>16, <1>17, <1>18, <1>19, <1>20, <1>21, <1>22, <1>23, <1>24, <1>25, <1>26, <1>27, <1>28, <1>29, <1>30, <1>31, <1>32, <1>33, <1>34, <1>35, <1>36, <1>37, <1>38 DEF Next, Call, CallStep, Device, Check, CheckStep

\* Every step keeps check() within its iterations, with its sound alive until
\* the device is torn down and not called back yet when it decides to.
LEMMA ManagerStep == ASSUME IInv, TypeOK', [Next]_vars PROVE ManagerInv'
<1> USE SoundKinds DEF Enter, Goto, Return, SetState, NewSound, CanCall, CanCallOn, flags,
        memory, manager
<1>0. TypeOK /\ LockInv /\ ManagerInv /\ ResourceInv /\ QueueInv
  BY DEF IInv
<1>1. ASSUME NEW t \in Threads, NEW s \in Sounds, New(t, s)
      PROVE  ManagerInv'
  BY <1>0, <1>1 DEF ManagerInv, LockInv, TypeOK, ManagerTypeOK, TrackerTypeOK, SoundTypeOK, New, Anchor
<1>2. ASSUME NEW t \in Threads, NEW s \in Sounds, Play(t, s)
      PROVE  ManagerInv'
  BY <1>0, <1>2 DEF ManagerInv, LockInv, TypeOK, ManagerTypeOK, TrackerTypeOK, SoundTypeOK, Play, TrackOnPlay
<1>3. ASSUME NEW t \in Threads, NEW s \in Sounds, Pause(t, s)
      PROVE  ManagerInv'
  BY <1>0, <1>3 DEF ManagerInv, LockInv, TypeOK, ManagerTypeOK, TrackerTypeOK, SoundTypeOK, Pause
<1>4. ASSUME NEW t \in Threads, NEW s \in Sounds, Finish(t, s)
      PROVE  ManagerInv'
  BY <1>0, <1>4 DEF ManagerInv, LockInv, TypeOK, ManagerTypeOK, TrackerTypeOK, SoundTypeOK, Finish
<1>5. ASSUME NEW t \in Threads, NEW s \in Sounds, NEW b \in BOOLEAN, DuringFade(t, s, b)
      PROVE  ManagerInv'
  BY <1>0, <1>5 DEF ManagerInv, LockInv, TypeOK, ManagerTypeOK, TrackerTypeOK, SoundTypeOK, DuringFade
<1>6. ASSUME NEW t \in Threads, NEW s \in Sounds, FadeTo(t, s)
      PROVE  ManagerInv'
  BY <1>0, <1>6 DEF ManagerInv, LockInv, TypeOK, ManagerTypeOK, TrackerTypeOK, SoundTypeOK, FadeTo
<1>7. ASSUME NEW t \in Threads, NEW s \in Sounds, WhenDone(t, s)
      PROVE  ManagerInv'
  BY <1>0, <1>7 DEF ManagerInv, LockInv, TypeOK, ManagerTypeOK, TrackerTypeOK, SoundTypeOK, WhenDone
<1>8. ASSUME NEW t \in Threads, PlayStart(t)
      PROVE  ManagerInv'
  BY <1>0, <1>8 DEF ManagerInv, LockInv, TypeOK, ManagerTypeOK, TrackerTypeOK, SoundTypeOK, PlayStart, StartRefused
<1>9. ASSUME NEW t \in Threads, PlaySet(t)
      PROVE  ManagerInv'
  BY <1>0, <1>9 DEF ManagerInv, LockInv, TypeOK, ManagerTypeOK, TrackerTypeOK, SoundTypeOK, PlaySet
<1>10. ASSUME NEW t \in Threads, NotePause(t)
      PROVE  ManagerInv'
  BY <1>0, <1>10 DEF ManagerInv, LockInv, TypeOK, ManagerTypeOK, TrackerTypeOK, SoundTypeOK, NotePause
<1>11. ASSUME NEW t \in Threads, NoteFinish(t)
      PROVE  ManagerInv'
  BY <1>0, <1>11 DEF ManagerInv, LockInv, TypeOK, ManagerTypeOK, TrackerTypeOK, SoundTypeOK, NoteFinish
<1>12. ASSUME NEW t \in Threads, PauseStop(t)
      PROVE  ManagerInv'
  BY <1>0, <1>12 DEF ManagerInv, LockInv, TypeOK, ManagerTypeOK, TrackerTypeOK, SoundTypeOK, PauseStop, StopDevice
<1>13. ASSUME NEW t \in Threads, PauseSet(t)
      PROVE  ManagerInv'
  BY <1>0, <1>13 DEF ManagerInv, LockInv, TypeOK, ManagerTypeOK, TrackerTypeOK, SoundTypeOK, PauseSet
<1>14. ASSUME NEW t \in Threads, FinishStop(t)
      PROVE  ManagerInv'
  BY <1>0, <1>14 DEF ManagerInv, LockInv, TypeOK, ManagerTypeOK, TrackerTypeOK, SoundTypeOK, FinishStop, StopDevice
<1>15. ASSUME NEW t \in Threads, FinishSet(t)
      PROVE  ManagerInv'
  BY <1>0, <1>15 DEF ManagerInv, LockInv, TypeOK, ManagerTypeOK, TrackerTypeOK, SoundTypeOK, FinishSet
<1>16. ASSUME NEW t \in Threads, FadeSet(t)
      PROVE  ManagerInv'
  BY <1>0, <1>16 DEF ManagerInv, LockInv, TypeOK, ManagerTypeOK, TrackerTypeOK, SoundTypeOK, FadeSet
<1>17. ASSUME NEW s \in Sounds, CallbackRead(s)
      PROVE  ManagerInv'
  BY <1>0, <1>17 DEF ManagerInv, LockInv, TypeOK, ManagerTypeOK, TrackerTypeOK, SoundTypeOK, CallbackRead
<1>18. ASSUME NEW s \in Sounds, CallbackEof(s)
      PROVE  ManagerInv'
  BY <1>0, <1>18 DEF ManagerInv, LockInv, TypeOK, ManagerTypeOK, TrackerTypeOK, SoundTypeOK, CallbackEof, PlayedOut
<1>19. ASSUME NEW s \in Sounds, CallbackFade(s)
      PROVE  ManagerInv'
  BY <1>0, <1>19 DEF ManagerInv, LockInv, TypeOK, ManagerTypeOK, TrackerTypeOK, SoundTypeOK, CallbackFade
<1>20. ASSUME NEW s \in Sounds, CallbackOver(s)
      PROVE  ManagerInv'
  BY <1>0, <1>20 DEF ManagerInv, LockInv, TypeOK, ManagerTypeOK, TrackerTypeOK, SoundTypeOK, CallbackOver
<1>21. ASSUME NEW s \in Sounds, CallbackZero(s)
      PROVE  ManagerInv'
  BY <1>0, <1>21 DEF ManagerInv, LockInv, TypeOK, ManagerTypeOK, TrackerTypeOK, SoundTypeOK, CallbackZero
<1>22. ASSUME NEW s \in Sounds, CallbackDecrement(s)
      PROVE  ManagerInv'
  BY <1>0, <1>22 DEF ManagerInv, LockInv, TypeOK, ManagerTypeOK, TrackerTypeOK, SoundTypeOK, CallbackDecrement, Less
<1>23. ASSUME NEW s \in Sounds, CallbackApply(s)
      PROVE  ManagerInv'
  BY <1>0, <1>23 DEF ManagerInv, LockInv, TypeOK, ManagerTypeOK, TrackerTypeOK, SoundTypeOK, CallbackApply
<1>24. ASSUME NEW s \in Sounds, DeviceLost(s)
      PROVE  ManagerInv'
  BY <1>0, <1>24 DEF ManagerInv, LockInv, TypeOK, ManagerTypeOK, TrackerTypeOK, SoundTypeOK, DeviceLost
<1>25. ASSUME NEW s \in Sounds, Forget(s)
      PROVE  ManagerInv'
  BY <1>0, <1>25 DEF ManagerInv, LockInv, TypeOK, ManagerTypeOK, TrackerTypeOK, SoundTypeOK, Forget
<1>26. ASSUME NEW s \in Sounds, Collect(s)
      PROVE  ManagerInv'
  BY <1>0, <1>26 DEF ManagerInv, LockInv, TypeOK, ManagerTypeOK, TrackerTypeOK, SoundTypeOK, Collect, InCall
<1>27. ASSUME NEW s \in Sounds, UiNew(s)
      PROVE  ManagerInv'
  BY <1>0, <1>27 DEF ManagerInv, LockInv, TypeOK, ManagerTypeOK, TrackerTypeOK, SoundTypeOK, UiNew
<1>28. ASSUME UiAdd
      PROVE  ManagerInv'
  BY <1>0, <1>28 DEF ManagerInv, LockInv, TypeOK, ManagerTypeOK, TrackerTypeOK, SoundTypeOK, UiAdd
<1>29. ASSUME CheckBegin
      PROVE  ManagerInv'
  BY <1>0, <1>29 DEF ManagerInv, LockInv, TypeOK, ManagerTypeOK, TrackerTypeOK, SoundTypeOK, CheckBegin, Iterations
<1>30. ASSUME CheckTake
      PROVE  ManagerInv'
  <2>1. dq \in Seq(Sounds) /\ dq # <<>> /\ mleft >= 1 /\ mleft <= Len(dq)
    BY <1>0, <1>30 DEF ManagerInv, TypeOK, TrackerTypeOK, CheckTake
  <2>2. Len(Tail(dq)) = Len(dq) - 1 /\ Tail(dq) \in Seq(Sounds) /\ Head(dq) \in Sounds
    BY <2>1, HeadTailProperties
  <2>3. Head(dq) = dq[1] /\ 1 \in DOMAIN dq
    BY <2>1
  <2>4. device[Head(dq)] # "none"
    BY <1>0, <2>3 DEF QueueInv, LiveInv, Entries
  <2>5. doneCalls[Head(dq)] = 0 /\ state[Head(dq)] # "none"
    BY <1>0, <1>30, <2>2, <2>4 DEF ResourceInv, ManagerInv, CheckTake, TypeOK, TrackerTypeOK
  <2>6. CASE state[Head(dq)] \notin {"finished", "pausing"}
    <3>1. Len(dq') = Len(dq)
      BY <1>30, <2>2, <2>6, AppendProperties DEF CheckTake
    <3> QED
      BY <1>0, <1>30, <2>1, <2>6, <3>1 DEF ManagerInv, CheckTake, IterationDone, TypeOK, ManagerTypeOK
  <2>7. CASE state[Head(dq)] \in {"finished", "pausing"}
    BY <1>0, <1>30, <2>1, <2>2, <2>4, <2>5, <2>7 DEF ManagerInv, CheckTake, TypeOK, ManagerTypeOK
  <2> QED
    BY <2>6, <2>7
<1>31. ASSUME CheckNotify
      PROVE  ManagerInv'
  BY <1>0, <1>31 DEF ManagerInv, LockInv, TypeOK, ManagerTypeOK, TrackerTypeOK, SoundTypeOK, CheckNotify
<1>32. ASSUME CallbackReturn
      PROVE  ManagerInv'
  BY <1>0, <1>32 DEF ManagerInv, LockInv, TypeOK, ManagerTypeOK, TrackerTypeOK, SoundTypeOK, CallbackReturn
<1>33. ASSUME CheckUninit
      PROVE  ManagerInv'
  BY <1>0, <1>33 DEF ManagerInv, LockInv, TypeOK, ManagerTypeOK, TrackerTypeOK, SoundTypeOK, CheckUninit
<1>34. ASSUME CheckClose
      PROVE  ManagerInv'
  BY <1>0, <1>34 DEF ManagerInv, LockInv, TypeOK, ManagerTypeOK, TrackerTypeOK, SoundTypeOK, CheckClose
<1>35. ASSUME CheckDrop
      PROVE  ManagerInv'
  BY <1>0, <1>35 DEF ManagerInv, LockInv, TypeOK, ManagerTypeOK, TrackerTypeOK, SoundTypeOK, CheckDrop, IterationDone
<1>36. ASSUME CheckPause
      PROVE  ManagerInv'
  BY <1>0, <1>36 DEF ManagerInv, LockInv, TypeOK, ManagerTypeOK, TrackerTypeOK, SoundTypeOK, CheckPause
<1>37. ASSUME CheckStop
      PROVE  ManagerInv'
  BY <1>0, <1>37 DEF ManagerInv, LockInv, TypeOK, ManagerTypeOK, TrackerTypeOK, SoundTypeOK, CheckStop, Requeue, IterationDone
<1>38. CASE UNCHANGED vars
  BY <1>0, <1>38 DEF vars, ManagerInv, LockInv, TypeOK, ManagerTypeOK, TrackerTypeOK, SoundTypeOK
<1> QED
  BY <1>1, <1>2, <1>3, <1>4, <1>5, <1>6, <1>7, <1>8, <1>9, <1>10, <1>11, <1>12, <1>13, <1>14, <1>15, <1>16, <1>17, <1>18, <1>19, <1>20, <1>21, <1>22, <1>23, <1>24, <1>25, <1>26, <1>27, <1>28, <1>29, <1>30, <1>31, <1>32, <1>33, <1>34, <1>35, <1>36, <1>37, <1>38 DEF Next, Call, CallStep, Device, Check, CheckStep

\* Every step keeps the order of resources: a device stands on an open decoder
\* and, for Lua's sounds, on an anchored userdata.
LEMMA ResourceStep == ASSUME IInv, TypeOK', [Next]_vars PROVE ResourceInv'
<1> USE SoundKinds DEF Enter, Goto, Return, SetState, NewSound, CanCall, CanCallOn, flags,
        memory, manager
<1>0. TypeOK /\ LockInv /\ ManagerInv /\ ResourceInv /\ QueueInv
  BY DEF IInv
<1>1. ASSUME NEW t \in Threads, NEW s \in Sounds, New(t, s)
      PROVE  ResourceInv'
  BY <1>0, <1>1 DEF ResourceInv, ManagerInv, LockInv, TypeOK, SoundTypeOK, TrackerTypeOK, MemoryTypeOK, New, Anchor
<1>2. ASSUME NEW t \in Threads, NEW s \in Sounds, Play(t, s)
      PROVE  ResourceInv'
  BY <1>0, <1>2 DEF ResourceInv, ManagerInv, LockInv, TypeOK, SoundTypeOK, TrackerTypeOK, MemoryTypeOK, Play, TrackOnPlay
<1>3. ASSUME NEW t \in Threads, NEW s \in Sounds, Pause(t, s)
      PROVE  ResourceInv'
  BY <1>0, <1>3 DEF ResourceInv, ManagerInv, LockInv, TypeOK, SoundTypeOK, TrackerTypeOK, MemoryTypeOK, Pause
<1>4. ASSUME NEW t \in Threads, NEW s \in Sounds, Finish(t, s)
      PROVE  ResourceInv'
  BY <1>0, <1>4 DEF ResourceInv, ManagerInv, LockInv, TypeOK, SoundTypeOK, TrackerTypeOK, MemoryTypeOK, Finish
<1>5. ASSUME NEW t \in Threads, NEW s \in Sounds, NEW b \in BOOLEAN, DuringFade(t, s, b)
      PROVE  ResourceInv'
  BY <1>0, <1>5 DEF ResourceInv, ManagerInv, LockInv, TypeOK, SoundTypeOK, TrackerTypeOK, MemoryTypeOK, DuringFade
<1>6. ASSUME NEW t \in Threads, NEW s \in Sounds, FadeTo(t, s)
      PROVE  ResourceInv'
  BY <1>0, <1>6 DEF ResourceInv, ManagerInv, LockInv, TypeOK, SoundTypeOK, TrackerTypeOK, MemoryTypeOK, FadeTo
<1>7. ASSUME NEW t \in Threads, NEW s \in Sounds, WhenDone(t, s)
      PROVE  ResourceInv'
  BY <1>0, <1>7 DEF ResourceInv, ManagerInv, LockInv, TypeOK, SoundTypeOK, TrackerTypeOK, MemoryTypeOK, WhenDone
<1>8. ASSUME NEW t \in Threads, PlayStart(t)
      PROVE  ResourceInv'
  BY <1>0, <1>8 DEF ResourceInv, ManagerInv, LockInv, TypeOK, SoundTypeOK, TrackerTypeOK, MemoryTypeOK, PlayStart, StartRefused
<1>9. ASSUME NEW t \in Threads, PlaySet(t)
      PROVE  ResourceInv'
  BY <1>0, <1>9 DEF ResourceInv, ManagerInv, LockInv, TypeOK, SoundTypeOK, TrackerTypeOK, MemoryTypeOK, PlaySet
<1>10. ASSUME NEW t \in Threads, NotePause(t)
      PROVE  ResourceInv'
  BY <1>0, <1>10 DEF ResourceInv, ManagerInv, LockInv, TypeOK, SoundTypeOK, TrackerTypeOK, MemoryTypeOK, NotePause
<1>11. ASSUME NEW t \in Threads, NoteFinish(t)
      PROVE  ResourceInv'
  BY <1>0, <1>11 DEF ResourceInv, ManagerInv, LockInv, TypeOK, SoundTypeOK, TrackerTypeOK, MemoryTypeOK, NoteFinish
<1>12. ASSUME NEW t \in Threads, PauseStop(t)
      PROVE  ResourceInv'
  BY <1>0, <1>12 DEF ResourceInv, ManagerInv, LockInv, TypeOK, SoundTypeOK, TrackerTypeOK, MemoryTypeOK, PauseStop, StopDevice
<1>13. ASSUME NEW t \in Threads, PauseSet(t)
      PROVE  ResourceInv'
  BY <1>0, <1>13 DEF ResourceInv, ManagerInv, LockInv, TypeOK, SoundTypeOK, TrackerTypeOK, MemoryTypeOK, PauseSet
<1>14. ASSUME NEW t \in Threads, FinishStop(t)
      PROVE  ResourceInv'
  BY <1>0, <1>14 DEF ResourceInv, ManagerInv, LockInv, TypeOK, SoundTypeOK, TrackerTypeOK, MemoryTypeOK, FinishStop, StopDevice
<1>15. ASSUME NEW t \in Threads, FinishSet(t)
      PROVE  ResourceInv'
  BY <1>0, <1>15 DEF ResourceInv, ManagerInv, LockInv, TypeOK, SoundTypeOK, TrackerTypeOK, MemoryTypeOK, FinishSet
<1>16. ASSUME NEW t \in Threads, FadeSet(t)
      PROVE  ResourceInv'
  BY <1>0, <1>16 DEF ResourceInv, ManagerInv, LockInv, TypeOK, SoundTypeOK, TrackerTypeOK, MemoryTypeOK, FadeSet
<1>17. ASSUME NEW s \in Sounds, CallbackRead(s)
      PROVE  ResourceInv'
  BY <1>0, <1>17 DEF ResourceInv, ManagerInv, LockInv, TypeOK, SoundTypeOK, TrackerTypeOK, MemoryTypeOK, CallbackRead
<1>18. ASSUME NEW s \in Sounds, CallbackEof(s)
      PROVE  ResourceInv'
  BY <1>0, <1>18 DEF ResourceInv, ManagerInv, LockInv, TypeOK, SoundTypeOK, TrackerTypeOK, MemoryTypeOK, CallbackEof, PlayedOut
<1>19. ASSUME NEW s \in Sounds, CallbackFade(s)
      PROVE  ResourceInv'
  BY <1>0, <1>19 DEF ResourceInv, ManagerInv, LockInv, TypeOK, SoundTypeOK, TrackerTypeOK, MemoryTypeOK, CallbackFade
<1>20. ASSUME NEW s \in Sounds, CallbackOver(s)
      PROVE  ResourceInv'
  BY <1>0, <1>20 DEF ResourceInv, ManagerInv, LockInv, TypeOK, SoundTypeOK, TrackerTypeOK, MemoryTypeOK, CallbackOver
<1>21. ASSUME NEW s \in Sounds, CallbackZero(s)
      PROVE  ResourceInv'
  BY <1>0, <1>21 DEF ResourceInv, ManagerInv, LockInv, TypeOK, SoundTypeOK, TrackerTypeOK, MemoryTypeOK, CallbackZero
<1>22. ASSUME NEW s \in Sounds, CallbackDecrement(s)
      PROVE  ResourceInv'
  BY <1>0, <1>22 DEF ResourceInv, ManagerInv, LockInv, TypeOK, SoundTypeOK, TrackerTypeOK, MemoryTypeOK, CallbackDecrement, Less
<1>23. ASSUME NEW s \in Sounds, CallbackApply(s)
      PROVE  ResourceInv'
  BY <1>0, <1>23 DEF ResourceInv, ManagerInv, LockInv, TypeOK, SoundTypeOK, TrackerTypeOK, MemoryTypeOK, CallbackApply
<1>24. ASSUME NEW s \in Sounds, DeviceLost(s)
      PROVE  ResourceInv'
  BY <1>0, <1>24 DEF ResourceInv, ManagerInv, LockInv, TypeOK, SoundTypeOK, TrackerTypeOK, MemoryTypeOK, DeviceLost
<1>25. ASSUME NEW s \in Sounds, Forget(s)
      PROVE  ResourceInv'
  BY <1>0, <1>25 DEF ResourceInv, ManagerInv, LockInv, TypeOK, SoundTypeOK, TrackerTypeOK, MemoryTypeOK, Forget
<1>26. ASSUME NEW s \in Sounds, Collect(s)
      PROVE  ResourceInv'
  BY <1>0, <1>26 DEF ResourceInv, ManagerInv, LockInv, TypeOK, SoundTypeOK, TrackerTypeOK, MemoryTypeOK, Collect, InCall
<1>27. ASSUME NEW s \in Sounds, UiNew(s)
      PROVE  ResourceInv'
  BY <1>0, <1>27 DEF ResourceInv, ManagerInv, LockInv, TypeOK, SoundTypeOK, TrackerTypeOK, MemoryTypeOK, UiNew
<1>28. ASSUME UiAdd
      PROVE  ResourceInv'
  BY <1>0, <1>28 DEF ResourceInv, ManagerInv, LockInv, TypeOK, SoundTypeOK, TrackerTypeOK, MemoryTypeOK, UiAdd
<1>29. ASSUME CheckBegin
      PROVE  ResourceInv'
  BY <1>0, <1>29 DEF ResourceInv, ManagerInv, LockInv, TypeOK, SoundTypeOK, TrackerTypeOK, MemoryTypeOK, CheckBegin, Iterations
<1>30. ASSUME CheckTake
      PROVE  ResourceInv'
  BY <1>0, <1>30 DEF ResourceInv, ManagerInv, LockInv, TypeOK, SoundTypeOK, TrackerTypeOK, MemoryTypeOK, CheckTake, IterationDone
<1>31. ASSUME CheckNotify
      PROVE  ResourceInv'
  BY <1>0, <1>31 DEF ResourceInv, ManagerInv, LockInv, TypeOK, SoundTypeOK, TrackerTypeOK, MemoryTypeOK, CheckNotify
<1>32. ASSUME CallbackReturn
      PROVE  ResourceInv'
  BY <1>0, <1>32 DEF ResourceInv, ManagerInv, LockInv, TypeOK, SoundTypeOK, TrackerTypeOK, MemoryTypeOK, CallbackReturn
<1>33. ASSUME CheckUninit
      PROVE  ResourceInv'
  BY <1>0, <1>33 DEF ResourceInv, ManagerInv, LockInv, TypeOK, SoundTypeOK, TrackerTypeOK, MemoryTypeOK, CheckUninit
<1>34. ASSUME CheckClose
      PROVE  ResourceInv'
  BY <1>0, <1>34 DEF ResourceInv, ManagerInv, LockInv, TypeOK, SoundTypeOK, TrackerTypeOK, MemoryTypeOK, CheckClose
<1>35. ASSUME CheckDrop
      PROVE  ResourceInv'
  BY <1>0, <1>35 DEF ResourceInv, ManagerInv, LockInv, TypeOK, SoundTypeOK, TrackerTypeOK, MemoryTypeOK, CheckDrop, IterationDone
<1>36. ASSUME CheckPause
      PROVE  ResourceInv'
  BY <1>0, <1>36 DEF ResourceInv, ManagerInv, LockInv, TypeOK, SoundTypeOK, TrackerTypeOK, MemoryTypeOK, CheckPause
<1>37. ASSUME CheckStop
      PROVE  ResourceInv'
  BY <1>0, <1>37 DEF ResourceInv, ManagerInv, LockInv, TypeOK, SoundTypeOK, TrackerTypeOK, MemoryTypeOK, CheckStop, Requeue, IterationDone
<1>38. CASE UNCHANGED vars
  BY <1>0, <1>38 DEF vars, ResourceInv, ManagerInv, LockInv, TypeOK, SoundTypeOK, TrackerTypeOK, MemoryTypeOK
<1> QED
  BY <1>1, <1>2, <1>3, <1>4, <1>5, <1>6, <1>7, <1>8, <1>9, <1>10, <1>11, <1>12, <1>13, <1>14, <1>15, <1>16, <1>17, <1>18, <1>19, <1>20, <1>21, <1>22, <1>23, <1>24, <1>25, <1>26, <1>27, <1>28, <1>29, <1>30, <1>31, <1>32, <1>33, <1>34, <1>35, <1>36, <1>37, <1>38 DEF Next, Call, CallStep, Device, Check, CheckStep

\* A thread inside a call is about some sound.
LEMMA CallIsAboutASound ==
  ASSUME LockInv, NEW t \in Threads, pc[t] # "idle"
  PROVE  arg[t] \in Sounds
BY SoundKinds DEF LockInv, Threads

\* Every step keeps calls about sounds that have been created.
LEMMA CallInvStep == ASSUME IInv, TypeOK', [Next]_vars PROVE CallInv'
<1> USE SoundKinds DEF Enter, Goto, Return, SetState, NewSound, CanCall, CanCallOn, flags,
        memory, manager
<1>0. TypeOK /\ LockInv /\ ManagerInv /\ ResourceInv /\ CallInv
  BY DEF IInv
<1>1. ASSUME NEW t \in Threads, NEW s \in Sounds, New(t, s)
      PROVE  CallInv'
  BY <1>0, CallIsAboutASound, <1>1 DEF CallInv, ResourceInv, TypeOK, SoundTypeOK, CallTypeOK, New, Anchor
<1>2. ASSUME NEW t \in Threads, NEW s \in Sounds, Play(t, s)
      PROVE  CallInv'
  BY <1>0, CallIsAboutASound, <1>2 DEF CallInv, ResourceInv, TypeOK, SoundTypeOK, CallTypeOK, Play, TrackOnPlay
<1>3. ASSUME NEW t \in Threads, NEW s \in Sounds, Pause(t, s)
      PROVE  CallInv'
  BY <1>0, CallIsAboutASound, <1>3 DEF CallInv, ResourceInv, TypeOK, SoundTypeOK, CallTypeOK, Pause
<1>4. ASSUME NEW t \in Threads, NEW s \in Sounds, Finish(t, s)
      PROVE  CallInv'
  BY <1>0, CallIsAboutASound, <1>4 DEF CallInv, ResourceInv, TypeOK, SoundTypeOK, CallTypeOK, Finish
<1>5. ASSUME NEW t \in Threads, NEW s \in Sounds, NEW b \in BOOLEAN, DuringFade(t, s, b)
      PROVE  CallInv'
  BY <1>0, CallIsAboutASound, <1>5 DEF CallInv, ResourceInv, TypeOK, SoundTypeOK, CallTypeOK, DuringFade
<1>6. ASSUME NEW t \in Threads, NEW s \in Sounds, FadeTo(t, s)
      PROVE  CallInv'
  BY <1>0, CallIsAboutASound, <1>6 DEF CallInv, ResourceInv, TypeOK, SoundTypeOK, CallTypeOK, FadeTo
<1>7. ASSUME NEW t \in Threads, NEW s \in Sounds, WhenDone(t, s)
      PROVE  CallInv'
  BY <1>0, CallIsAboutASound, <1>7 DEF CallInv, ResourceInv, TypeOK, SoundTypeOK, CallTypeOK, WhenDone
<1>8. ASSUME NEW t \in Threads, PlayStart(t)
      PROVE  CallInv'
  BY <1>0, CallIsAboutASound, <1>8 DEF CallInv, ResourceInv, TypeOK, SoundTypeOK, CallTypeOK, PlayStart, StartRefused
<1>9. ASSUME NEW t \in Threads, PlaySet(t)
      PROVE  CallInv'
  BY <1>0, CallIsAboutASound, <1>9 DEF CallInv, ResourceInv, TypeOK, SoundTypeOK, CallTypeOK, PlaySet
<1>10. ASSUME NEW t \in Threads, NotePause(t)
      PROVE  CallInv'
  BY <1>0, CallIsAboutASound, <1>10 DEF CallInv, ResourceInv, TypeOK, SoundTypeOK, CallTypeOK, NotePause
<1>11. ASSUME NEW t \in Threads, NoteFinish(t)
      PROVE  CallInv'
  BY <1>0, CallIsAboutASound, <1>11 DEF CallInv, ResourceInv, TypeOK, SoundTypeOK, CallTypeOK, NoteFinish
<1>12. ASSUME NEW t \in Threads, PauseStop(t)
      PROVE  CallInv'
  BY <1>0, CallIsAboutASound, <1>12 DEF CallInv, ResourceInv, TypeOK, SoundTypeOK, CallTypeOK, PauseStop, StopDevice
<1>13. ASSUME NEW t \in Threads, PauseSet(t)
      PROVE  CallInv'
  BY <1>0, CallIsAboutASound, <1>13 DEF CallInv, ResourceInv, TypeOK, SoundTypeOK, CallTypeOK, PauseSet
<1>14. ASSUME NEW t \in Threads, FinishStop(t)
      PROVE  CallInv'
  BY <1>0, CallIsAboutASound, <1>14 DEF CallInv, ResourceInv, TypeOK, SoundTypeOK, CallTypeOK, FinishStop, StopDevice
<1>15. ASSUME NEW t \in Threads, FinishSet(t)
      PROVE  CallInv'
  BY <1>0, CallIsAboutASound, <1>15 DEF CallInv, ResourceInv, TypeOK, SoundTypeOK, CallTypeOK, FinishSet
<1>16. ASSUME NEW t \in Threads, FadeSet(t)
      PROVE  CallInv'
  BY <1>0, CallIsAboutASound, <1>16 DEF CallInv, ResourceInv, TypeOK, SoundTypeOK, CallTypeOK, FadeSet
<1>17. ASSUME NEW s \in Sounds, CallbackRead(s)
      PROVE  CallInv'
  BY <1>0, CallIsAboutASound, <1>17 DEF CallInv, ResourceInv, TypeOK, SoundTypeOK, CallTypeOK, CallbackRead
<1>18. ASSUME NEW s \in Sounds, CallbackEof(s)
      PROVE  CallInv'
  BY <1>0, CallIsAboutASound, <1>18 DEF CallInv, ResourceInv, TypeOK, SoundTypeOK, CallTypeOK, CallbackEof, PlayedOut
<1>19. ASSUME NEW s \in Sounds, CallbackFade(s)
      PROVE  CallInv'
  BY <1>0, CallIsAboutASound, <1>19 DEF CallInv, ResourceInv, TypeOK, SoundTypeOK, CallTypeOK, CallbackFade
<1>20. ASSUME NEW s \in Sounds, CallbackOver(s)
      PROVE  CallInv'
  BY <1>0, CallIsAboutASound, <1>20 DEF CallInv, ResourceInv, TypeOK, SoundTypeOK, CallTypeOK, CallbackOver
<1>21. ASSUME NEW s \in Sounds, CallbackZero(s)
      PROVE  CallInv'
  BY <1>0, CallIsAboutASound, <1>21 DEF CallInv, ResourceInv, TypeOK, SoundTypeOK, CallTypeOK, CallbackZero
<1>22. ASSUME NEW s \in Sounds, CallbackDecrement(s)
      PROVE  CallInv'
  BY <1>0, CallIsAboutASound, <1>22 DEF CallInv, ResourceInv, TypeOK, SoundTypeOK, CallTypeOK, CallbackDecrement, Less
<1>23. ASSUME NEW s \in Sounds, CallbackApply(s)
      PROVE  CallInv'
  BY <1>0, CallIsAboutASound, <1>23 DEF CallInv, ResourceInv, TypeOK, SoundTypeOK, CallTypeOK, CallbackApply
<1>24. ASSUME NEW s \in Sounds, DeviceLost(s)
      PROVE  CallInv'
  BY <1>0, CallIsAboutASound, <1>24 DEF CallInv, ResourceInv, TypeOK, SoundTypeOK, CallTypeOK, DeviceLost
<1>25. ASSUME NEW s \in Sounds, Forget(s)
      PROVE  CallInv'
  BY <1>0, CallIsAboutASound, <1>25 DEF CallInv, ResourceInv, TypeOK, SoundTypeOK, CallTypeOK, Forget
<1>26. ASSUME NEW s \in Sounds, Collect(s)
      PROVE  CallInv'
  BY <1>0, CallIsAboutASound, <1>26 DEF CallInv, ResourceInv, TypeOK, SoundTypeOK, CallTypeOK, Collect, InCall
<1>27. ASSUME NEW s \in Sounds, UiNew(s)
      PROVE  CallInv'
  BY <1>0, CallIsAboutASound, <1>27 DEF CallInv, ResourceInv, TypeOK, SoundTypeOK, CallTypeOK, UiNew
<1>28. ASSUME UiAdd
      PROVE  CallInv'
  BY <1>0, CallIsAboutASound, <1>28 DEF CallInv, ResourceInv, TypeOK, SoundTypeOK, CallTypeOK, UiAdd
<1>29. ASSUME CheckBegin
      PROVE  CallInv'
  BY <1>0, CallIsAboutASound, <1>29 DEF CallInv, ResourceInv, TypeOK, SoundTypeOK, CallTypeOK, CheckBegin, Iterations
<1>30. ASSUME CheckTake
      PROVE  CallInv'
  BY <1>0, CallIsAboutASound, <1>30 DEF CallInv, ResourceInv, TypeOK, SoundTypeOK, CallTypeOK, CheckTake, IterationDone
<1>31. ASSUME CheckNotify
      PROVE  CallInv'
  BY <1>0, CallIsAboutASound, <1>31 DEF CallInv, ResourceInv, TypeOK, SoundTypeOK, CallTypeOK, CheckNotify
<1>32. ASSUME CallbackReturn
      PROVE  CallInv'
  BY <1>0, CallIsAboutASound, <1>32 DEF CallInv, ResourceInv, TypeOK, SoundTypeOK, CallTypeOK, CallbackReturn
<1>33. ASSUME CheckUninit
      PROVE  CallInv'
  BY <1>0, CallIsAboutASound, <1>33 DEF CallInv, ResourceInv, TypeOK, SoundTypeOK, CallTypeOK, CheckUninit
<1>34. ASSUME CheckClose
      PROVE  CallInv'
  BY <1>0, CallIsAboutASound, <1>34 DEF CallInv, ResourceInv, TypeOK, SoundTypeOK, CallTypeOK, CheckClose
<1>35. ASSUME CheckDrop
      PROVE  CallInv'
  BY <1>0, CallIsAboutASound, <1>35 DEF CallInv, ResourceInv, TypeOK, SoundTypeOK, CallTypeOK, CheckDrop, IterationDone
<1>36. ASSUME CheckPause
      PROVE  CallInv'
  BY <1>0, CallIsAboutASound, <1>36 DEF CallInv, ResourceInv, TypeOK, SoundTypeOK, CallTypeOK, CheckPause
<1>37. ASSUME CheckStop
      PROVE  CallInv'
  BY <1>0, CallIsAboutASound, <1>37 DEF CallInv, ResourceInv, TypeOK, SoundTypeOK, CallTypeOK, CheckStop, Requeue, IterationDone
<1>38. CASE UNCHANGED vars
  BY <1>0, CallIsAboutASound, <1>38 DEF vars, CallInv
<1> QED
  BY <1>1, <1>2, <1>3, <1>4, <1>5, <1>6, <1>7, <1>8, <1>9, <1>10, <1>11, <1>12, <1>13, <1>14, <1>15, <1>16, <1>17, <1>18, <1>19, <1>20, <1>21, <1>22, <1>23, <1>24, <1>25, <1>26, <1>27, <1>28, <1>29, <1>30, <1>31, <1>32, <1>33, <1>34, <1>35, <1>36, <1>37, <1>38 DEF Next, Call, CallStep, Device, Check, CheckStep

\* push_back of a sound that is not in the deque.
LEMMA AppendEntries ==
  ASSUME TrackerTypeOK, NEW x \in Sounds, dq' = Append(dq, x)
  PROVE  /\ Entries' = Entries \cup {x}
         /\ DistinctInv /\ x \notin Entries => DistinctInv'
<1>1. dq \in Seq(Sounds)
  BY DEF TrackerTypeOK
<1>2. /\ Len(dq') = Len(dq) + 1 /\ Len(dq) \in Nat
      /\ DOMAIN dq = 1..Len(dq) /\ DOMAIN dq' = 1..(Len(dq) + 1)
      /\ \A i \in 1..Len(dq) : dq'[i] = dq[i]
      /\ dq'[Len(dq) + 1] = x
  BY <1>1
<1> QED
  BY <1>2 DEF Entries, DistinctInv

\* pop_front of a deque without duplicates takes its head out.
LEMMA TailEntries ==
  ASSUME TrackerTypeOK, DistinctInv, dq # <<>>, dq' = Tail(dq)
  PROVE  DistinctInv' /\ Entries' = Entries \ {Head(dq)} /\ Head(dq) \in Entries
<1>1. dq \in Seq(Sounds)
  BY DEF TrackerTypeOK
<1>2. /\ Len(dq) \in Nat \ {0} /\ Head(dq) = dq[1]
      /\ DOMAIN dq = 1..Len(dq) /\ DOMAIN dq' = 1..(Len(dq) - 1)
      /\ \A i \in 1..(Len(dq) - 1) : dq'[i] = dq[i + 1]
  BY <1>1
<1>3. ASSUME NEW i \in 2..Len(dq)
      PROVE  i - 1 \in DOMAIN dq' /\ dq'[i - 1] = dq[i] /\ i # 1
  BY <1>2
<1>4. ASSUME NEW i \in DOMAIN dq' PROVE i + 1 \in 2..Len(dq) /\ dq'[i] = dq[i + 1]
  BY <1>2
<1>5. DOMAIN dq = {1} \cup 2..Len(dq) /\ 1 \in DOMAIN dq
  BY <1>2
<1>6. DistinctInv'
  BY <1>2, <1>4, <1>5 DEF DistinctInv
<1>7. ASSUME NEW x \in Entries' PROVE x \in Entries /\ x # Head(dq)
  BY <1>2, <1>4, <1>5 DEF Entries, DistinctInv
<1>8. ASSUME NEW x \in Entries, x # Head(dq) PROVE x \in Entries'
  <2>1. PICK i \in DOMAIN dq : dq[i] = x
    BY DEF Entries
  <2>2. i \in 2..Len(dq)
    BY <1>2, <1>5, <1>8, <2>1
  <2> QED
    BY <1>3, <2>1, <2>2 DEF Entries
<1>9. Head(dq) \in Entries
  BY <1>2, <1>5 DEF Entries
<1> QED
  BY <1>6, <1>7, <1>8, <1>9

\* pop_front and push_back of the same sound loses and doubles nothing.
LEMMA RotateEntries ==
  ASSUME TrackerTypeOK, DistinctInv, dq # <<>>, dq' = Append(Tail(dq), Head(dq))
  PROVE  DistinctInv' /\ Entries' = Entries
<1>1. dq \in Seq(Sounds)
  BY DEF TrackerTypeOK
<1>2. /\ Len(dq) \in Nat \ {0} /\ Head(dq) = dq[1]
      /\ DOMAIN dq = 1..Len(dq) /\ DOMAIN dq' = 1..Len(dq)
      /\ \A i \in 1..(Len(dq) - 1) : dq'[i] = dq[i + 1]
      /\ dq'[Len(dq)] = dq[1]
  BY <1>1
<1>3. ASSUME NEW i \in 2..Len(dq)
      PROVE  i - 1 \in DOMAIN dq' /\ dq'[i - 1] = dq[i]
  BY <1>2
<1>4. ASSUME NEW i \in 1..(Len(dq) - 1)
      PROVE  i + 1 \in DOMAIN dq /\ i + 1 # 1 /\ dq'[i] = dq[i + 1]
  BY <1>2
<1>5. /\ DOMAIN dq = {1} \cup 2..Len(dq)
      /\ DOMAIN dq' = 1..(Len(dq) - 1) \cup {Len(dq)}
  BY <1>2
<1>6. DistinctInv'
  BY <1>2, <1>4, <1>5 DEF DistinctInv
<1>7. ASSUME NEW x \in Entries' PROVE x \in Entries
  BY <1>2, <1>4, <1>5 DEF Entries
<1>8. ASSUME NEW x \in Entries PROVE x \in Entries'
  <2>1. PICK i \in DOMAIN dq : dq[i] = x
    BY DEF Entries
  <2>2. CASE i = 1
    BY <1>2, <1>5, <2>1, <2>2 DEF Entries
  <2>3. CASE i # 1
    <3>1. i \in 2..Len(dq)
      BY <1>5, <2>3
    <3> QED
      BY <1>3, <2>1, <3>1 DEF Entries
  <2> QED
    BY <2>2, <2>3
<1> QED
  BY <1>6, <1>7, <1>8

\* A thread outside its first play() does not matter to FirstPlayInv, and one
\* inside it may go as long as it leaves its sound in another state.
LEMMA FirstPlayKept ==
  ASSUME FirstPlayInv, NEW t \in Threads,
         \/ pc[t] \notin {"start", "play"}
         \/ state'[arg[t]] # "created"
         \/ pc'[t] \in {"start", "play"} /\ arg'[t] = arg[t],
         \A u \in Threads \ {t} : pc'[u] = pc[u] /\ arg'[u] = arg[u],
         \A x \in Sounds :
           state'[x] = "created" /\ (mcur' = x \/ x \in Entries') =>
             state[x] = "created" /\ (mcur = x \/ x \in Entries)
  PROVE  FirstPlayInv'
<1> SUFFICES ASSUME NEW x \in Sounds, state'[x] = "created", mcur' = x \/ x \in Entries'
             PROVE  \E u \in Threads : pc'[u] \in {"start", "play"} /\ arg'[u] = x
  BY DEF FirstPlayInv
<1>1. PICK u \in Threads : pc[u] \in {"start", "play"} /\ arg[u] = x
  BY DEF FirstPlayInv
<1>2. CASE u = t
  BY <1>1, <1>2
<1>3. CASE u # t
  BY <1>1, <1>3
<1> QED
  BY <1>2, <1>3

\* A step of a call of thread t that leaves the tracker alone.
LEMMA CallStepKept ==
  ASSUME TypeOK, LockInv, QueueInv, NEW t \in Threads,
         UNCHANGED <<dq, mcur, objects>>,
         \A x \in Sounds : device[x] # "none" => device'[x] # "none",
         \A x \in Sounds : state'[x] = "created" => state[x] = "created",
         pc'[t] # "add",
         \A u \in Threads \ {t} : pc'[u] = pc[u] /\ arg'[u] = arg[u],
         \/ pc[t] \notin {"start", "play"}
         \/ state'[arg[t]] # "created"
         \/ pc'[t] \in {"start", "play"} /\ arg'[t] = arg[t]
  PROVE  QueueInv'
<1>1. Entries' = Entries /\ Entries \subseteq Sounds
  BY DEF Entries, TypeOK, TrackerTypeOK
<1>2. DistinctInv'
  BY DEF QueueInv, DistinctInv
<1>3. LiveInv'
  BY <1>1 DEF QueueInv, LiveInv
<1>4. FirstPlayInv'
  BY <1>1, FirstPlayKept DEF QueueInv
<1>5. UiAddInv'
  BY <1>1, SoundKinds DEF QueueInv, UiAddInv, LockInv, Threads
<1> QED
  BY <1>2, <1>3, <1>4, <1>5 DEF QueueInv

\* The first play() of a sound finds it outside the tracker.
LEMMA FirstPlay ==
  ASSUME TypeOK, LockInv, QueueInv, NEW t \in Threads, NEW s \in Sounds,
         CanCallOn(t, s), state[s] = "created"
  PROVE  s \notin Entries /\ s # mcur
<1>1. t \in {"lua", "mgr"} /\ s \in LuaSounds
  BY DEF CanCallOn, CanCall, TypeOK, MemoryTypeOK
<1>2. \A u \in {"lua", "mgr"} : pc[u] = "idle"
  BY DEF CanCallOn, CanCall, LockInv
<1>3. ~ \E u \in Threads : pc[u] \in {"start", "play"} /\ arg[u] = s
  BY <1>1, <1>2, SoundKinds DEF LockInv, Threads
<1> QED
  BY <1>3 DEF QueueInv, FirstPlayInv

\* Every step keeps the deque free of duplicates and of dead sounds.
LEMMA QueueStep == ASSUME IInv, TypeOK', [Next]_vars PROVE QueueInv'
<1> USE SoundKinds DEF Enter, Goto, Return, SetState, NewSound, CanCall, CanCallOn, flags,
        memory, manager
<1>0. TypeOK /\ LockInv /\ ManagerInv /\ ResourceInv /\ QueueInv
  BY DEF IInv
<1>1. ASSUME NEW t \in Threads, NEW s \in Sounds, New(t, s)
      PROVE  QueueInv'
  <2>0. Entries' = Entries
    BY <1>1 DEF Entries, New, Anchor
  <2>1. DistinctInv'
    BY <1>0, <1>1 DEF QueueInv, DistinctInv, New, Anchor
  <2>2. LiveInv'
    BY <1>0, <1>1, <2>0 DEF QueueInv, LiveInv, ResourceInv, ManagerInv, LockInv, TypeOK, SoundTypeOK, MemoryTypeOK, New, Anchor
  <2>3. FirstPlayInv'
    <3>1. s # mcur /\ s \notin Entries /\ UNCHANGED <<pc, arg, mcur>>
      BY <1>0, <1>1 DEF QueueInv, LiveInv, ResourceInv, ManagerInv, New
    <3>2. \A x \in Sounds : x # s => state'[x] = state[x]
      BY <1>0, <1>1 DEF TypeOK, SoundTypeOK, New
    <3> QED
      BY <1>0, <2>0, <3>1, <3>2 DEF QueueInv, FirstPlayInv
  <2>4. UiAddInv'
    BY <1>0, <1>1, <2>0 DEF QueueInv, LiveInv, UiAddInv, LockInv, ManagerInv, ResourceInv, TypeOK, SoundTypeOK, CallTypeOK, New, Anchor
  <2> QED
    BY <2>1, <2>2, <2>3, <2>4 DEF QueueInv
<1>2. ASSUME NEW t \in Threads, NEW s \in Sounds, Play(t, s)
      PROVE  QueueInv'
  <2>1. CASE state[s] # "created"
    <3>0. Entries' = Entries
      BY <1>2, <2>1 DEF Entries, Play, TrackOnPlay
    <3>1. DistinctInv'
      BY <1>0, <1>2, <2>1 DEF QueueInv, DistinctInv, Play, TrackOnPlay
    <3>2. LiveInv'
      BY <1>0, <1>2, <3>0 DEF QueueInv, LiveInv, Play
    <3>3. FirstPlayInv'
      BY <1>0, <1>2, <3>0, FirstPlayKept DEF QueueInv, TypeOK, CallTypeOK, Play
    <3>4. UiAddInv'
      BY <1>0, <1>2, <3>0 DEF QueueInv, UiAddInv, LockInv, TypeOK, CallTypeOK, Play
    <3> QED
      BY <3>1, <3>2, <3>3, <3>4 DEF QueueInv
  <2>2. CASE state[s] = "created"
    <3>1. t \in {"lua", "mgr"} /\ s \in LuaSounds
      BY <1>0, <1>2 DEF Play, TypeOK, MemoryTypeOK
    <3>4. s \notin Entries /\ s # mcur
      BY <1>0, <1>2, <2>2, FirstPlay DEF Play
    <3>5. Entries' = Entries \cup {s} /\ DistinctInv'
      BY <1>0, <1>2, <2>2, <3>4, AppendEntries DEF QueueInv, TypeOK, Play, TrackOnPlay
    <3>6. LiveInv'
      BY <1>0, <1>2, <3>4, <3>5 DEF QueueInv, LiveInv, Play
    <3>7. FirstPlayInv'
      <4> SUFFICES ASSUME NEW x \in Sounds, state'[x] = "created", mcur' = x \/ x \in Entries'
                   PROVE  \E u \in Threads : pc'[u] \in {"start", "play"} /\ arg'[u] = x
        BY DEF FirstPlayInv
      <4>1. CASE x = s
        BY <1>0, <1>2, <2>2, <4>1 DEF TypeOK, CallTypeOK, Play
      <4>2. CASE x # s
        <5>1. PICK u \in Threads : pc[u] \in {"start", "play"} /\ arg[u] = x
          BY <1>0, <1>2, <3>5, <4>2 DEF QueueInv, FirstPlayInv, Play
        <5>2. u # t
          BY <1>2, <5>1 DEF Play
        <5> QED
          BY <1>0, <1>2, <5>1, <5>2 DEF TypeOK, CallTypeOK, Play
      <4> QED
        BY <4>1, <4>2
    <3>8. UiAddInv'
      BY <1>0, <1>2, <3>1, <3>5 DEF QueueInv, UiAddInv, LockInv, TypeOK, CallTypeOK, Play
    <3> QED
      BY <3>5, <3>6, <3>7, <3>8 DEF QueueInv
  <2> QED
    BY <2>1, <2>2
<1>3. ASSUME NEW t \in Threads, NEW s \in Sounds, Pause(t, s)
      PROVE  QueueInv'
  BY <1>0, <1>3, CallStepKept DEF TypeOK, SoundTypeOK, CallTypeOK, Pause
<1>4. ASSUME NEW t \in Threads, NEW s \in Sounds, Finish(t, s)
      PROVE  QueueInv'
  BY <1>0, <1>4, CallStepKept DEF TypeOK, SoundTypeOK, CallTypeOK, Finish
<1>5. ASSUME NEW t \in Threads, NEW s \in Sounds, NEW b \in BOOLEAN, DuringFade(t, s, b)
      PROVE  QueueInv'
  BY <1>0, <1>5, CallStepKept DEF TypeOK, SoundTypeOK, CallTypeOK, DuringFade
<1>6. ASSUME NEW t \in Threads, NEW s \in Sounds, FadeTo(t, s)
      PROVE  QueueInv'
  BY <1>0, <1>6, CallStepKept DEF TypeOK, SoundTypeOK, CallTypeOK, FadeTo
<1>7. ASSUME NEW t \in Threads, NEW s \in Sounds, WhenDone(t, s)
      PROVE  QueueInv'
  <2>0. Entries' = Entries
    BY <1>7 DEF Entries, WhenDone
  <2>1. DistinctInv'
    BY <1>0, <1>7 DEF QueueInv, DistinctInv, WhenDone
  <2>2. LiveInv'
    BY <1>0, <1>7, <2>0 DEF QueueInv, LiveInv, ResourceInv, ManagerInv, LockInv, TypeOK, SoundTypeOK, MemoryTypeOK, WhenDone
  <2>3. FirstPlayInv'
    BY <1>0, <1>7, <2>0, FirstPlayKept DEF QueueInv, LiveInv, ManagerInv, TypeOK, SoundTypeOK, CallTypeOK, WhenDone
  <2>4. UiAddInv'
    BY <1>0, <1>7, <2>0 DEF QueueInv, LiveInv, UiAddInv, LockInv, ManagerInv, ResourceInv, TypeOK, SoundTypeOK, CallTypeOK, WhenDone
  <2> QED
    BY <2>1, <2>2, <2>3, <2>4 DEF QueueInv
<1>8. ASSUME NEW t \in Threads, PlayStart(t)
      PROVE  QueueInv'
  <2>1. CASE Goto(t, "play") /\ UNCHANGED state
    BY <1>0, <1>8, <2>1, CallStepKept DEF TypeOK, SoundTypeOK, CallTypeOK, PlayStart
  <2>2. CASE StartRefused(t, arg[t]) /\ UNCHANGED device
    <3>1. UNCHANGED <<dq, mcur, objects, device>> /\ pc'[t] = "idle"
      BY <1>0, <1>8, <2>2 DEF TypeOK, CallTypeOK, PlayStart, StartRefused
    <3>2. \A u \in Threads \ {t} : pc'[u] = pc[u] /\ arg'[u] = arg[u]
      BY <1>0, <1>8, <2>2 DEF TypeOK, CallTypeOK, PlayStart, StartRefused
    <3>3. \A x \in Sounds : state'[x] = IF x = arg[t] THEN "finished" ELSE state[x]
      BY <1>0, <1>8, <2>2 DEF TypeOK, SoundTypeOK, PlayStart, StartRefused
    <3>4. arg[t] \in Sounds
      BY <1>0, <1>8, CallIsAboutASound DEF PlayStart
    <3> QED
      BY <1>0, <3>1, <3>2, <3>3, <3>4, CallStepKept
  <2> QED
    BY <1>8, <2>1, <2>2 DEF PlayStart
<1>9. ASSUME NEW t \in Threads, PlaySet(t)
      PROVE  QueueInv'
  BY <1>0, <1>9, CallStepKept DEF TypeOK, SoundTypeOK, CallTypeOK, PlaySet
<1>10. ASSUME NEW t \in Threads, NotePause(t)
      PROVE  QueueInv'
  BY <1>0, <1>10, CallStepKept DEF TypeOK, SoundTypeOK, CallTypeOK, NotePause
<1>11. ASSUME NEW t \in Threads, NoteFinish(t)
      PROVE  QueueInv'
  BY <1>0, <1>11, CallStepKept DEF TypeOK, SoundTypeOK, CallTypeOK, NoteFinish
<1>12. ASSUME NEW t \in Threads, PauseStop(t)
      PROVE  QueueInv'
  BY <1>0, <1>12, CallStepKept DEF TypeOK, SoundTypeOK, CallTypeOK, PauseStop, StopDevice
<1>13. ASSUME NEW t \in Threads, PauseSet(t)
      PROVE  QueueInv'
  BY <1>0, <1>13, CallStepKept DEF TypeOK, SoundTypeOK, CallTypeOK, PauseSet
<1>14. ASSUME NEW t \in Threads, FinishStop(t)
      PROVE  QueueInv'
  BY <1>0, <1>14, CallStepKept DEF TypeOK, SoundTypeOK, CallTypeOK, FinishStop, StopDevice
<1>15. ASSUME NEW t \in Threads, FinishSet(t)
      PROVE  QueueInv'
  BY <1>0, <1>15, CallStepKept DEF TypeOK, SoundTypeOK, CallTypeOK, FinishSet
<1>16. ASSUME NEW t \in Threads, FadeSet(t)
      PROVE  QueueInv'
  BY <1>0, <1>16, CallStepKept DEF TypeOK, SoundTypeOK, CallTypeOK, FadeSet
<1>17. ASSUME NEW s \in Sounds, CallbackRead(s)
      PROVE  QueueInv'
  <2>0. Entries' = Entries
    BY <1>17 DEF Entries, CallbackRead
  <2>1. DistinctInv'
    BY <1>0, <1>17 DEF QueueInv, DistinctInv, CallbackRead
  <2>2. LiveInv'
    BY <1>0, <1>17, <2>0 DEF QueueInv, LiveInv, ResourceInv, ManagerInv, LockInv, TypeOK, SoundTypeOK, MemoryTypeOK, CallbackRead
  <2>3. FirstPlayInv'
    BY <1>0, <1>17, <2>0 DEF QueueInv, FirstPlayInv, ResourceInv, ManagerInv, LockInv, TypeOK, SoundTypeOK, CallTypeOK, CallbackRead
  <2>4. UiAddInv'
    BY <1>0, <1>17, <2>0 DEF QueueInv, LiveInv, UiAddInv, LockInv, ManagerInv, ResourceInv, TypeOK, SoundTypeOK, CallTypeOK, CallbackRead
  <2> QED
    BY <2>1, <2>2, <2>3, <2>4 DEF QueueInv
<1>18. ASSUME NEW s \in Sounds, CallbackEof(s)
      PROVE  QueueInv'
  <2>0. Entries' = Entries
    BY <1>18 DEF Entries, CallbackEof, PlayedOut
  <2>1. DistinctInv'
    BY <1>0, <1>18 DEF QueueInv, DistinctInv, CallbackEof, PlayedOut
  <2>2. LiveInv'
    BY <1>0, <1>18, <2>0 DEF QueueInv, LiveInv, ResourceInv, ManagerInv, LockInv, TypeOK, SoundTypeOK, MemoryTypeOK, CallbackEof, PlayedOut
  <2>3. FirstPlayInv'
    BY <1>0, <1>18, <2>0 DEF QueueInv, FirstPlayInv, ResourceInv, ManagerInv, LockInv, TypeOK, SoundTypeOK, CallTypeOK, CallbackEof, PlayedOut
  <2>4. UiAddInv'
    BY <1>0, <1>18, <2>0 DEF QueueInv, LiveInv, UiAddInv, LockInv, ManagerInv, ResourceInv, TypeOK, SoundTypeOK, CallTypeOK, CallbackEof, PlayedOut
  <2> QED
    BY <2>1, <2>2, <2>3, <2>4 DEF QueueInv
<1>19. ASSUME NEW s \in Sounds, CallbackFade(s)
      PROVE  QueueInv'
  <2>0. Entries' = Entries
    BY <1>19 DEF Entries, CallbackFade
  <2>1. DistinctInv'
    BY <1>0, <1>19 DEF QueueInv, DistinctInv, CallbackFade
  <2>2. LiveInv'
    BY <1>0, <1>19, <2>0 DEF QueueInv, LiveInv, ResourceInv, ManagerInv, LockInv, TypeOK, SoundTypeOK, MemoryTypeOK, CallbackFade
  <2>3. FirstPlayInv'
    BY <1>0, <1>19, <2>0 DEF QueueInv, FirstPlayInv, ResourceInv, ManagerInv, LockInv, TypeOK, SoundTypeOK, CallTypeOK, CallbackFade
  <2>4. UiAddInv'
    BY <1>0, <1>19, <2>0 DEF QueueInv, LiveInv, UiAddInv, LockInv, ManagerInv, ResourceInv, TypeOK, SoundTypeOK, CallTypeOK, CallbackFade
  <2> QED
    BY <2>1, <2>2, <2>3, <2>4 DEF QueueInv
<1>20. ASSUME NEW s \in Sounds, CallbackOver(s)
      PROVE  QueueInv'
  <2>0. Entries' = Entries
    BY <1>20 DEF Entries, CallbackOver
  <2>1. DistinctInv'
    BY <1>0, <1>20 DEF QueueInv, DistinctInv, CallbackOver
  <2>2. LiveInv'
    BY <1>0, <1>20, <2>0 DEF QueueInv, LiveInv, ResourceInv, ManagerInv, LockInv, TypeOK, SoundTypeOK, MemoryTypeOK, CallbackOver
  <2>3. FirstPlayInv'
    BY <1>0, <1>20, <2>0 DEF QueueInv, FirstPlayInv, ResourceInv, ManagerInv, LockInv, TypeOK, SoundTypeOK, CallTypeOK, CallbackOver
  <2>4. UiAddInv'
    BY <1>0, <1>20, <2>0 DEF QueueInv, LiveInv, UiAddInv, LockInv, ManagerInv, ResourceInv, TypeOK, SoundTypeOK, CallTypeOK, CallbackOver
  <2> QED
    BY <2>1, <2>2, <2>3, <2>4 DEF QueueInv
<1>21. ASSUME NEW s \in Sounds, CallbackZero(s)
      PROVE  QueueInv'
  <2>0. Entries' = Entries
    BY <1>21 DEF Entries, CallbackZero
  <2>1. DistinctInv'
    BY <1>0, <1>21 DEF QueueInv, DistinctInv, CallbackZero
  <2>2. LiveInv'
    BY <1>0, <1>21, <2>0 DEF QueueInv, LiveInv, ResourceInv, ManagerInv, LockInv, TypeOK, SoundTypeOK, MemoryTypeOK, CallbackZero
  <2>3. FirstPlayInv'
    BY <1>0, <1>21, <2>0 DEF QueueInv, FirstPlayInv, ResourceInv, ManagerInv, LockInv, TypeOK, SoundTypeOK, CallTypeOK, CallbackZero
  <2>4. UiAddInv'
    BY <1>0, <1>21, <2>0 DEF QueueInv, LiveInv, UiAddInv, LockInv, ManagerInv, ResourceInv, TypeOK, SoundTypeOK, CallTypeOK, CallbackZero
  <2> QED
    BY <2>1, <2>2, <2>3, <2>4 DEF QueueInv
<1>22. ASSUME NEW s \in Sounds, CallbackDecrement(s)
      PROVE  QueueInv'
  <2>0. Entries' = Entries
    BY <1>22 DEF Entries, CallbackDecrement, Less
  <2>1. DistinctInv'
    BY <1>0, <1>22 DEF QueueInv, DistinctInv, CallbackDecrement, Less
  <2>2. LiveInv'
    BY <1>0, <1>22, <2>0 DEF QueueInv, LiveInv, ResourceInv, ManagerInv, LockInv, TypeOK, SoundTypeOK, MemoryTypeOK, CallbackDecrement, Less
  <2>3. FirstPlayInv'
    BY <1>0, <1>22, <2>0 DEF QueueInv, FirstPlayInv, ResourceInv, ManagerInv, LockInv, TypeOK, SoundTypeOK, CallTypeOK, CallbackDecrement, Less
  <2>4. UiAddInv'
    BY <1>0, <1>22, <2>0 DEF QueueInv, LiveInv, UiAddInv, LockInv, ManagerInv, ResourceInv, TypeOK, SoundTypeOK, CallTypeOK, CallbackDecrement, Less
  <2> QED
    BY <2>1, <2>2, <2>3, <2>4 DEF QueueInv
<1>23. ASSUME NEW s \in Sounds, CallbackApply(s)
      PROVE  QueueInv'
  <2>0. Entries' = Entries
    BY <1>23 DEF Entries, CallbackApply
  <2>1. DistinctInv'
    BY <1>0, <1>23 DEF QueueInv, DistinctInv, CallbackApply
  <2>2. LiveInv'
    BY <1>0, <1>23, <2>0 DEF QueueInv, LiveInv, ResourceInv, ManagerInv, LockInv, TypeOK, SoundTypeOK, MemoryTypeOK, CallbackApply
  <2>3. FirstPlayInv'
    BY <1>0, <1>23, <2>0 DEF QueueInv, FirstPlayInv, ResourceInv, ManagerInv, LockInv, TypeOK, SoundTypeOK, CallTypeOK, CallbackApply
  <2>4. UiAddInv'
    BY <1>0, <1>23, <2>0 DEF QueueInv, LiveInv, UiAddInv, LockInv, ManagerInv, ResourceInv, TypeOK, SoundTypeOK, CallTypeOK, CallbackApply
  <2> QED
    BY <2>1, <2>2, <2>3, <2>4 DEF QueueInv
<1>24. ASSUME NEW s \in Sounds, DeviceLost(s)
      PROVE  QueueInv'
  <2>0. Entries' = Entries
    BY <1>24 DEF Entries, DeviceLost
  <2>1. DistinctInv'
    BY <1>0, <1>24 DEF QueueInv, DistinctInv, DeviceLost
  <2>2. LiveInv'
    BY <1>0, <1>24, <2>0 DEF QueueInv, LiveInv, ResourceInv, ManagerInv, LockInv, TypeOK, SoundTypeOK, MemoryTypeOK, DeviceLost
  <2>3. FirstPlayInv'
    BY <1>0, <1>24, <2>0 DEF QueueInv, FirstPlayInv, ResourceInv, ManagerInv, LockInv, TypeOK, SoundTypeOK, CallTypeOK, DeviceLost
  <2>4. UiAddInv'
    BY <1>0, <1>24, <2>0 DEF QueueInv, LiveInv, UiAddInv, LockInv, ManagerInv, ResourceInv, TypeOK, SoundTypeOK, CallTypeOK, DeviceLost
  <2> QED
    BY <2>1, <2>2, <2>3, <2>4 DEF QueueInv
<1>25. ASSUME NEW s \in Sounds, Forget(s)
      PROVE  QueueInv'
  <2>0. Entries' = Entries
    BY <1>25 DEF Entries, Forget
  <2>1. DistinctInv'
    BY <1>0, <1>25 DEF QueueInv, DistinctInv, Forget
  <2>2. LiveInv'
    BY <1>0, <1>25, <2>0 DEF QueueInv, LiveInv, ResourceInv, ManagerInv, LockInv, TypeOK, SoundTypeOK, MemoryTypeOK, Forget
  <2>3. FirstPlayInv'
    BY <1>0, <1>25, <2>0 DEF QueueInv, FirstPlayInv, ResourceInv, ManagerInv, LockInv, TypeOK, SoundTypeOK, CallTypeOK, Forget
  <2>4. UiAddInv'
    BY <1>0, <1>25, <2>0 DEF QueueInv, LiveInv, UiAddInv, LockInv, ManagerInv, ResourceInv, TypeOK, SoundTypeOK, CallTypeOK, Forget
  <2> QED
    BY <2>1, <2>2, <2>3, <2>4 DEF QueueInv
<1>26. ASSUME NEW s \in Sounds, Collect(s)
      PROVE  QueueInv'
  <2>0. Entries' = Entries
    BY <1>26 DEF Entries, Collect, InCall
  <2>1. DistinctInv'
    BY <1>0, <1>26 DEF QueueInv, DistinctInv, Collect, InCall
  <2>2. LiveInv'
    BY <1>0, <1>26, <2>0 DEF QueueInv, LiveInv, ResourceInv, ManagerInv, LockInv, TypeOK, SoundTypeOK, MemoryTypeOK, Collect, InCall
  <2>3. FirstPlayInv'
    BY <1>0, <1>26, <2>0 DEF QueueInv, FirstPlayInv, ResourceInv, ManagerInv, LockInv, TypeOK, SoundTypeOK, CallTypeOK, Collect, InCall
  <2>4. UiAddInv'
    BY <1>0, <1>26, <2>0 DEF QueueInv, LiveInv, UiAddInv, LockInv, ManagerInv, ResourceInv, TypeOK, SoundTypeOK, CallTypeOK, Collect, InCall
  <2> QED
    BY <2>1, <2>2, <2>3, <2>4 DEF QueueInv
<1>27. ASSUME NEW s \in Sounds, UiNew(s)
      PROVE  QueueInv'
  <2>0. Entries' = Entries
    BY <1>27 DEF Entries, UiNew
  <2>1. DistinctInv'
    BY <1>0, <1>27 DEF QueueInv, DistinctInv, UiNew
  <2>2. LiveInv'
    BY <1>0, <1>27, <2>0 DEF QueueInv, LiveInv, ResourceInv, ManagerInv, LockInv, TypeOK, SoundTypeOK, MemoryTypeOK, UiNew
  <2>3. FirstPlayInv'
    <3>1. "ui" \in Threads /\ pc["ui"] \notin {"start", "play"} /\ mcur' = mcur
      BY <1>27 DEF UiNew, Threads
    <3>2. s # mcur /\ s \notin Entries
      BY <1>0, <1>27 DEF QueueInv, LiveInv, ResourceInv, ManagerInv, UiNew
    <3>3. \A x \in Sounds : x # s => state'[x] = state[x]
      BY <1>0, <1>27 DEF TypeOK, SoundTypeOK, UiNew
    <3>4. \A u \in Threads \ {"ui"} : pc'[u] = pc[u] /\ arg'[u] = arg[u]
      BY <1>0, <1>27 DEF TypeOK, CallTypeOK, UiNew
    <3> QED
      BY <1>0, <2>0, <3>1, <3>2, <3>3, <3>4, FirstPlayKept DEF QueueInv
  <2>4. UiAddInv'
    BY <1>0, <1>27, <2>0 DEF QueueInv, LiveInv, UiAddInv, LockInv, ManagerInv, ResourceInv, TypeOK, SoundTypeOK, CallTypeOK, UiNew
  <2> QED
    BY <2>1, <2>2, <2>3, <2>4 DEF QueueInv
<1>28. ASSUME UiAdd
      PROVE  QueueInv'
  <2>1. "ui" \in Threads /\ arg["ui"] \in UiSounds /\ arg["ui"] \notin Entries /\ arg["ui"] # mcur
    BY <1>0, <1>28 DEF UiAdd, LockInv, QueueInv, UiAddInv, Threads
  <2>2. Entries' = Entries \cup {arg["ui"]} /\ DistinctInv'
    BY <1>0, <1>28, <2>1, AppendEntries DEF UiAdd, QueueInv, TypeOK
  <2>3. LiveInv'
    BY <1>0, <1>28, <2>1, <2>2 DEF UiAdd, QueueInv, LiveInv, UiAddInv
  <2>4. FirstPlayInv'
    <3> SUFFICES ASSUME NEW x \in Sounds, state'[x] = "created", mcur' = x \/ x \in Entries'
                 PROVE  \E u \in Threads : pc'[u] \in {"start", "play"} /\ arg'[u] = x
      BY DEF FirstPlayInv
    <3>1. CASE x = arg["ui"]
      BY <1>0, <1>28, <2>1, <3>1 DEF TypeOK, CallTypeOK, UiAdd
    <3>2. CASE x # arg["ui"]
      <4>1. PICK u \in Threads : pc[u] \in {"start", "play"} /\ arg[u] = x
        BY <1>0, <1>28, <2>2, <3>2 DEF QueueInv, FirstPlayInv, UiAdd
      <4>2. u # "ui"
        BY <1>28, <4>1 DEF UiAdd
      <4> QED
        BY <1>0, <1>28, <4>1, <4>2 DEF TypeOK, CallTypeOK, UiAdd
    <3> QED
      BY <3>1, <3>2
  <2>5. UiAddInv'
    BY <1>0, <1>28, <2>1 DEF UiAddInv, TypeOK, CallTypeOK, UiAdd
  <2> QED
    BY <2>2, <2>3, <2>4, <2>5 DEF QueueInv
<1>29. ASSUME CheckBegin
      PROVE  QueueInv'
  <2>0. Entries' = Entries
    BY <1>29 DEF Entries, CheckBegin, Iterations
  <2>1. DistinctInv'
    BY <1>0, <1>29 DEF QueueInv, DistinctInv, CheckBegin, Iterations
  <2>2. LiveInv'
    BY <1>0, <1>29, <2>0 DEF QueueInv, LiveInv, ResourceInv, ManagerInv, LockInv, TypeOK, SoundTypeOK, MemoryTypeOK, CheckBegin, Iterations
  <2>3. FirstPlayInv'
    BY <1>0, <1>29, <2>0 DEF QueueInv, FirstPlayInv, ResourceInv, ManagerInv, LockInv, TypeOK, SoundTypeOK, CallTypeOK, CheckBegin, Iterations
  <2>4. UiAddInv'
    BY <1>0, <1>29, <2>0 DEF QueueInv, LiveInv, UiAddInv, LockInv, ManagerInv, ResourceInv, TypeOK, SoundTypeOK, CallTypeOK, CheckBegin, Iterations
  <2> QED
    BY <2>1, <2>2, <2>3, <2>4 DEF QueueInv
<1>30. ASSUME CheckTake
      PROVE  QueueInv'
  <2>0. DistinctInv /\ TrackerTypeOK /\ dq # <<>> /\ mcur = NoSound
    BY <1>0, <1>30 DEF CheckTake, QueueInv, TypeOK, ManagerInv
  <2>1. CASE state[Head(dq)] \notin {"finished", "pausing"}
    <3>1. dq' = Append(Tail(dq), Head(dq)) /\ mcur' = NoSound
      BY <1>30, <2>1 DEF CheckTake, IterationDone
    <3>2. DistinctInv' /\ Entries' = Entries
      BY <2>0, <3>1, RotateEntries
    <3>3. Entries \subseteq Sounds /\ UNCHANGED <<state, device, objects, pc, arg>>
      BY <1>0, <1>30, <2>0 DEF CheckTake, Entries, TrackerTypeOK
    <3> QED
      BY <1>0, <2>0, <3>1, <3>2, <3>3 DEF QueueInv, LiveInv, FirstPlayInv, UiAddInv
  <2>2. CASE state[Head(dq)] \in {"finished", "pausing"}
    <3>1. dq' = Tail(dq) /\ mcur' = Head(dq)
      BY <1>30, <2>2 DEF CheckTake, IterationDone
    <3>2. DistinctInv' /\ Entries' = Entries \ {Head(dq)} /\ Head(dq) \in Entries
      BY <2>0, <3>1, TailEntries
    <3>3. UNCHANGED <<state, device, objects, pc, arg>>
      BY <1>30 DEF CheckTake
    <3>4. LiveInv'
      BY <1>0, <3>1, <3>2, <3>3 DEF QueueInv, LiveInv, ResourceInv
    <3> QED
      BY <1>0, <2>0, <3>1, <3>2, <3>3, <3>4 DEF QueueInv, FirstPlayInv, UiAddInv
  <2> QED
    BY <2>1, <2>2
<1>31. ASSUME CheckNotify
      PROVE  QueueInv'
  <2>0. Entries' = Entries
    BY <1>31 DEF Entries, CheckNotify
  <2>1. DistinctInv'
    BY <1>0, <1>31 DEF QueueInv, DistinctInv, CheckNotify
  <2>2. LiveInv'
    BY <1>0, <1>31, <2>0 DEF QueueInv, LiveInv, ResourceInv, ManagerInv, LockInv, TypeOK, SoundTypeOK, MemoryTypeOK, CheckNotify
  <2>3. FirstPlayInv'
    BY <1>0, <1>31, <2>0 DEF QueueInv, FirstPlayInv, ResourceInv, ManagerInv, LockInv, TypeOK, SoundTypeOK, CallTypeOK, CheckNotify
  <2>4. UiAddInv'
    BY <1>0, <1>31, <2>0 DEF QueueInv, LiveInv, UiAddInv, LockInv, ManagerInv, ResourceInv, TypeOK, SoundTypeOK, CallTypeOK, CheckNotify
  <2> QED
    BY <2>1, <2>2, <2>3, <2>4 DEF QueueInv
<1>32. ASSUME CallbackReturn
      PROVE  QueueInv'
  <2>0. Entries' = Entries
    BY <1>32 DEF Entries, CallbackReturn
  <2>1. DistinctInv'
    BY <1>0, <1>32 DEF QueueInv, DistinctInv, CallbackReturn
  <2>2. LiveInv'
    BY <1>0, <1>32, <2>0 DEF QueueInv, LiveInv, ResourceInv, ManagerInv, LockInv, TypeOK, SoundTypeOK, MemoryTypeOK, CallbackReturn
  <2>3. FirstPlayInv'
    BY <1>0, <1>32, <2>0 DEF QueueInv, FirstPlayInv, ResourceInv, ManagerInv, LockInv, TypeOK, SoundTypeOK, CallTypeOK, CallbackReturn
  <2>4. UiAddInv'
    BY <1>0, <1>32, <2>0 DEF QueueInv, LiveInv, UiAddInv, LockInv, ManagerInv, ResourceInv, TypeOK, SoundTypeOK, CallTypeOK, CallbackReturn
  <2> QED
    BY <2>1, <2>2, <2>3, <2>4 DEF QueueInv
<1>33. ASSUME CheckUninit
      PROVE  QueueInv'
  <2>0. Entries' = Entries
    BY <1>33 DEF Entries, CheckUninit
  <2>1. DistinctInv'
    BY <1>0, <1>33 DEF QueueInv, DistinctInv, CheckUninit
  <2>2. LiveInv'
    BY <1>0, <1>33, <2>0 DEF QueueInv, LiveInv, ResourceInv, ManagerInv, LockInv, TypeOK, SoundTypeOK, MemoryTypeOK, CheckUninit
  <2>3. FirstPlayInv'
    BY <1>0, <1>33, <2>0 DEF QueueInv, FirstPlayInv, ResourceInv, ManagerInv, LockInv, TypeOK, SoundTypeOK, CallTypeOK, CheckUninit
  <2>4. UiAddInv'
    BY <1>0, <1>33, <2>0 DEF QueueInv, LiveInv, UiAddInv, LockInv, ManagerInv, ResourceInv, TypeOK, SoundTypeOK, CallTypeOK, CheckUninit
  <2> QED
    BY <2>1, <2>2, <2>3, <2>4 DEF QueueInv
<1>34. ASSUME CheckClose
      PROVE  QueueInv'
  <2>0. Entries' = Entries
    BY <1>34 DEF Entries, CheckClose
  <2>1. DistinctInv'
    BY <1>0, <1>34 DEF QueueInv, DistinctInv, CheckClose
  <2>2. LiveInv'
    BY <1>0, <1>34, <2>0 DEF QueueInv, LiveInv, ResourceInv, ManagerInv, LockInv, TypeOK, SoundTypeOK, MemoryTypeOK, CheckClose
  <2>3. FirstPlayInv'
    BY <1>0, <1>34, <2>0 DEF QueueInv, FirstPlayInv, ResourceInv, ManagerInv, LockInv, TypeOK, SoundTypeOK, CallTypeOK, CheckClose
  <2>4. UiAddInv'
    BY <1>0, <1>34, <2>0 DEF QueueInv, LiveInv, UiAddInv, LockInv, ManagerInv, ResourceInv, TypeOK, SoundTypeOK, CallTypeOK, CheckClose
  <2> QED
    BY <2>1, <2>2, <2>3, <2>4 DEF QueueInv
<1>35. ASSUME CheckDrop
      PROVE  QueueInv'
  <2>0. Entries' = Entries
    BY <1>35 DEF Entries, CheckDrop, IterationDone
  <2>1. DistinctInv'
    BY <1>0, <1>35 DEF QueueInv, DistinctInv, CheckDrop, IterationDone
  <2>2. LiveInv'
    <3>1. mcur' = NoSound /\ device' = device /\ Entries \subseteq Sounds
      BY <1>0, <1>35 DEF CheckDrop, IterationDone, Entries, TypeOK, TrackerTypeOK
    <3> QED
      BY <1>0, <2>0, <3>1 DEF QueueInv, LiveInv
  <2>3. FirstPlayInv'
    BY <1>0, <1>35, <2>0 DEF QueueInv, FirstPlayInv, ResourceInv, ManagerInv, LockInv, TypeOK, SoundTypeOK, CallTypeOK, CheckDrop, IterationDone
  <2>4. UiAddInv'
    BY <1>0, <1>35, <2>0 DEF QueueInv, LiveInv, UiAddInv, LockInv, ManagerInv, ResourceInv, TypeOK, SoundTypeOK, CallTypeOK, CheckDrop, IterationDone
  <2> QED
    BY <2>1, <2>2, <2>3, <2>4 DEF QueueInv
<1>36. ASSUME CheckPause
      PROVE  QueueInv'
  <2>0. Entries' = Entries
    BY <1>36 DEF Entries, CheckPause
  <2>1. DistinctInv'
    BY <1>0, <1>36 DEF QueueInv, DistinctInv, CheckPause
  <2>2. LiveInv'
    BY <1>0, <1>36, <2>0 DEF QueueInv, LiveInv, ResourceInv, ManagerInv, LockInv, TypeOK, SoundTypeOK, MemoryTypeOK, CheckPause
  <2>3. FirstPlayInv'
    BY <1>0, <1>36, <2>0 DEF QueueInv, FirstPlayInv, ResourceInv, ManagerInv, LockInv, TypeOK, SoundTypeOK, CallTypeOK, CheckPause
  <2>4. UiAddInv'
    BY <1>0, <1>36, <2>0 DEF QueueInv, LiveInv, UiAddInv, LockInv, ManagerInv, ResourceInv, TypeOK, SoundTypeOK, CallTypeOK, CheckPause
  <2> QED
    BY <2>1, <2>2, <2>3, <2>4 DEF QueueInv
<1>37. ASSUME CheckStop
      PROVE  QueueInv'
  <2>1. mcur \in Sounds /\ mcur \notin Entries /\ device[mcur] # "none"
    BY <1>0, <1>37 DEF CheckStop, QueueInv, LiveInv, ManagerInv
  <2>2. mcur' = NoSound /\ UNCHANGED <<state, objects, pc, arg>>
    BY <1>37 DEF CheckStop, IterationDone
  <2>3. Entries' = Entries \cup {mcur} /\ DistinctInv'
    BY <1>0, <1>37, <2>1, AppendEntries DEF CheckStop, Requeue, QueueInv, TypeOK
  <2>4. \A x \in Sounds : device'[x] = "none" <=> device[x] = "none"
    BY <1>0, <1>37 DEF CheckStop, TypeOK, SoundTypeOK
  <2>5. Entries \subseteq Sounds
    BY <1>0 DEF Entries, TypeOK, TrackerTypeOK
  <2>6. LiveInv'
    BY <1>0, <2>1, <2>2, <2>3, <2>4, <2>5 DEF QueueInv, LiveInv
  <2>7. FirstPlayInv'
    BY <1>0, <2>1, <2>2, <2>3 DEF QueueInv, FirstPlayInv
  <2>8. UiAddInv'
    BY <1>0, <2>1, <2>2, <2>3, <2>4 DEF QueueInv, UiAddInv, LockInv
  <2> QED
    BY <2>3, <2>6, <2>7, <2>8 DEF QueueInv
<1>38. CASE UNCHANGED vars
  <2>0. Entries' = Entries
    BY <1>38 DEF Entries, vars
  <2>1. DistinctInv'
    BY <1>0, <1>38 DEF QueueInv, DistinctInv, vars
  <2>2. LiveInv'
    BY <1>0, <1>38, <2>0 DEF QueueInv, LiveInv, ResourceInv, ManagerInv, LockInv, TypeOK, SoundTypeOK, MemoryTypeOK, vars
  <2>3. FirstPlayInv'
    BY <1>0, <1>38, <2>0 DEF QueueInv, FirstPlayInv, ResourceInv, ManagerInv, LockInv, TypeOK, SoundTypeOK, CallTypeOK, vars
  <2>4. UiAddInv'
    BY <1>0, <1>38, <2>0 DEF QueueInv, LiveInv, UiAddInv, LockInv, ManagerInv, ResourceInv, TypeOK, SoundTypeOK, CallTypeOK, vars
  <2> QED
    BY <2>1, <2>2, <2>3, <2>4 DEF QueueInv
<1> QED
  BY <1>1, <1>2, <1>3, <1>4, <1>5, <1>6, <1>7, <1>8, <1>9, <1>10, <1>11, <1>12, <1>13, <1>14, <1>15, <1>16, <1>17, <1>18, <1>19, <1>20, <1>21, <1>22, <1>23, <1>24, <1>25, <1>26, <1>27, <1>28, <1>29, <1>30, <1>31, <1>32, <1>33, <1>34, <1>35, <1>36, <1>37, <1>38 DEF Next, Call, CallStep, Device, Check, CheckStep

-----------------------------------------------------------------------------
\* The inductive invariant holds before any sound exists.
LEMMA InitInv == ASSUME Init PROVE IInv
<1> USE StateValues, CallPcValues, ManagerPcValues, SoundKinds DEF Init
<1>1. SoundTypeOK /\ MemoryTypeOK /\ CallTypeOK /\ ManagerTypeOK
  BY DEF SoundTypeOK, MemoryTypeOK, CallTypeOK, ManagerTypeOK
<1>2. FadeTypeOK
  BY BoundsAssumption DEF FadeTypeOK
<1>3. TrackerTypeOK
  BY DEF TrackerTypeOK
<1>4. LockInv /\ ManagerInv
  BY DEF LockInv, ManagerInv, Threads
<1>5. ResourceInv
  BY DEF ResourceInv
<1>6. Entries = {}
  BY DEF Entries
<1>7. QueueInv
  BY <1>6 DEF QueueInv, DistinctInv, LiveInv, FirstPlayInv, UiAddInv, Threads
<1>8. CallInv
  BY DEF CallInv
<1> QED
  BY <1>1, <1>2, <1>3, <1>4, <1>5, <1>7, <1>8 DEF IInv, TypeOK

\* The inductive invariant is inductive.
LEMMA InvStep == ASSUME IInv, [Next]_vars PROVE IInv'
BY TypeStep, LockStep, ManagerStep, ResourceStep, QueueStep, CallInvStep DEF IInv

\* So it holds in every state of every behaviour.
LEMMA Invariance == Spec => []IInv
<1>1. Init => IInv
  BY InitInv
<1>2. IInv /\ [Next]_vars => IInv'
  BY InvStep
<1> QED
  BY <1>1, <1>2, PTL DEF Spec

\* Every variable of the audio library keeps its type.
THEOREM TypeCorrect == Spec => []TypeOK
<1>1. IInv => TypeOK
  BY DEF IInv
<1> QED
  BY <1>1, Invariance, PTL

\* data_callback never runs over a closed decoder or collected memory: check()
\* tears the device down first, and the objects table holds the userdata.
THEOREM MemorySafe == Spec => []NoUseAfterFree
<1>1. IInv => NoUseAfterFree
  BY SoundKinds DEF IInv, NoUseAfterFree, ResourceInv, TypeOK, MemoryTypeOK, SoundTypeOK
<1> QED
  BY <1>1, Invariance, PTL

\* The tracker holds no sound twice, none that check() is working on and none
\* whose memory is gone.
THEOREM TrackerIntegrity == Spec => []TrackedOnce
<1>1. IInv => TrackedOnce
  <2> SUFFICES ASSUME IInv PROVE TrackedOnce
    OBVIOUS
  <2>1. \A s \in Sounds : s \in freed => device[s] = "none"
    BY DEF IInv, TypeOK, MemoryTypeOK, ResourceInv
  <2>2. \A i \in DOMAIN dq : dq[i] \in Sounds /\ dq[i] \in Entries
    BY DEF IInv, TypeOK, TrackerTypeOK, Entries
  <2>3. mcur \notin freed
    BY SoundKinds DEF IInv, TypeOK, MemoryTypeOK, ManagerInv, QueueInv, LiveInv, ResourceInv
  <2> QED
    BY <2>1, <2>2, <2>3 DEF IInv, QueueInv, DistinctInv, LiveInv, TrackedOnce
<1> QED
  BY <1>1, Invariance, PTL

\* check() never pops from an empty deque.
THEOREM NeverPopsEmpty == Spec => []EnoughTracked
<1>1. IInv => EnoughTracked
  BY DEF IInv, ManagerInv, EnoughTracked
<1> QED
  BY <1>1, Invariance, PTL

-----------------------------------------------------------------------------
(* The refinement of AudioLifecycle.                                       *)

\* Phases, read off the variables in any state of the invariant.
PhaseOf(s) ==
  IF state[s] = "none" THEN "absent"
  ELSE IF s \in freed THEN "collected"
  ELSE IF device[s] = "none" THEN "released"
  ELSE IF doneCalls[s] > 0 THEN "notified"
  ELSE IF mcur = s \/ s \in Entries THEN "tracked"
  ELSE "created"

PhasesAgree == \A s \in Sounds : phase[s] = PhaseOf(s)

\* In a state of the invariant the CASE of phase and PhaseOf agree.
LEMMA PhaseValues == IInv => PhasesAgree
<1> SUFFICES ASSUME IInv, NEW s \in Sounds PROVE phase[s] = PhaseOf(s)
  BY DEF PhasesAgree
<1>1. Tracked(s) <=> mcur = s \/ s \in Entries
  BY DEF Tracked, Entries
<1>2. state[s] = "none" => s \notin freed /\ device[s] = "none"
  BY DEF IInv, ResourceInv
<1>3. s \in freed => device[s] = "none"
  BY DEF IInv, ResourceInv, TypeOK, MemoryTypeOK
<1>4. doneCalls[s] \in Nat
  BY DEF IInv, TypeOK, TrackerTypeOK
<1> QED
  BY <1>1, <1>2, <1>3, <1>4 DEF phase, PhaseOf

\* The same of the next state.
LEMMA PhaseValuesAfter == IInv' => PhasesAgree'
BY PhaseValues, PTL

\* What a sound's phase depends on.
SamePhase(s) ==
  /\ state'[s] = "none" <=> state[s] = "none"
  /\ s \in freed' <=> s \in freed
  /\ device'[s] = "none" <=> device[s] = "none"
  /\ doneCalls'[s] = doneCalls[s]
  /\ device[s] # "none" =>
       ((mcur' = s \/ s \in Entries') <=> (mcur = s \/ s \in Entries))

\* A sound that keeps what its phase depends on keeps its phase.
LEMMA PhaseKept ==
  ASSUME IInv, IInv', NEW s \in Sounds, SamePhase(s)
  PROVE  phase'[s] = phase[s]
<1>2. phase'[s] = PhaseOf(s)'
  BY PhaseValuesAfter DEF PhasesAgree
<1>3. phase[s] = PhaseOf(s)
  BY PhaseValues DEF PhasesAgree
<1> QED
  BY <1>2, <1>3 DEF PhaseOf, SamePhase

\* If every sound does, the abstract state stutters.
LEMMA PhaseStutters ==
  ASSUME IInv, IInv', \A s \in Sounds : SamePhase(s)
  PROVE  phase' = phase
<1>1. ASSUME NEW s \in Sounds PROVE phase'[s] = phase[s]
  BY PhaseKept
<1> QED
  BY <1>1 DEF phase

\* If every sound but one does, the step is an abstract move of that one.
LEMMA PhaseMoves ==
  ASSUME IInv, IInv', NEW s \in Sounds, NEW from, NEW to,
         PhaseOf(s) \in from, PhaseOf(s)' = to,
         \A x \in Sounds \ {s} : SamePhase(x)
  PROVE  Lifecycle!Move(s, from, to)
<1>1. ASSUME NEW x \in Sounds \ {s} PROVE phase'[x] = phase[x]
  BY PhaseKept
<1>3. phase[s] \in from /\ phase'[s] = to
  BY PhaseValues, PhaseValuesAfter DEF PhasesAgree
<1>4. phase = [x \in Sounds |-> phase[x]] /\ phase' = [x \in Sounds |-> phase'[x]]
  BY DEF phase
<1> HIDE DEF phase
<1>5. phase' = [phase EXCEPT ![s] = to]
  BY <1>1, <1>3, <1>4
<1> QED
  BY <1>3, <1>5 DEF Lifecycle!Move

\* The steps that move no sound to another phase.
Silent ==
  \/ \E t \in Threads, s \in Sounds :
       \/ Pause(t, s) \/ Finish(t, s) \/ FadeTo(t, s) \/ WhenDone(t, s)
       \/ DuringFade(t, s, TRUE) \/ DuringFade(t, s, FALSE)
  \/ \E t \in Threads : CallStep(t)
  \/ \E s \in Sounds : Device(s) \/ DeviceLost(s) \/ Forget(s)
  \/ CheckBegin \/ CheckTake \/ CallbackReturn \/ CheckClose \/ CheckDrop
  \/ CheckPause \/ CheckStop

\* The silent steps are stutters of AudioLifecycle.
LEMMA SilentStep == ASSUME IInv, IInv', Silent PROVE phase' = phase
<1> USE DEF Enter, Goto, Return, SetState, CanCall, CanCallOn, flags, memory, manager
<1>0. /\ TypeOK /\ LockInv /\ ManagerInv /\ ResourceInv /\ QueueInv
      /\ CallInv /\ SoundTypeOK
  BY DEF IInv, TypeOK
<1>q. Entries \subseteq Sounds /\ (UNCHANGED dq => Entries' = Entries)
  BY <1>0 DEF Entries, TypeOK, TrackerTypeOK
<1>1. ASSUME NEW t \in Threads, NEW s \in Sounds, Pause(t, s)
      PROVE  \A x \in Sounds : SamePhase(x)
  BY <1>0, <1>q, <1>1 DEF SamePhase, Pause
<1>2. ASSUME NEW t \in Threads, NEW s \in Sounds, Finish(t, s)
      PROVE  \A x \in Sounds : SamePhase(x)
  BY <1>0, <1>q, <1>2 DEF SamePhase, Finish
<1>3. ASSUME NEW t \in Threads, NEW s \in Sounds, NEW b \in BOOLEAN, DuringFade(t, s, b)
      PROVE  \A x \in Sounds : SamePhase(x)
  BY <1>0, <1>q, <1>3 DEF SamePhase, DuringFade
<1>4. ASSUME NEW t \in Threads, NEW s \in Sounds, FadeTo(t, s)
      PROVE  \A x \in Sounds : SamePhase(x)
  BY <1>0, <1>q, <1>4 DEF SamePhase, FadeTo
<1>5. ASSUME NEW t \in Threads, NEW s \in Sounds, WhenDone(t, s)
      PROVE  \A x \in Sounds : SamePhase(x)
  BY <1>0, <1>q, <1>5 DEF SamePhase, WhenDone
<1>6. ASSUME NEW t \in Threads, PlayStart(t)
      PROVE  \A x \in Sounds : SamePhase(x)
  BY <1>0, <1>q, CallIsAboutASound, <1>6 DEF CallInv, SoundTypeOK, SamePhase, PlayStart, StartRefused
<1>7. ASSUME NEW t \in Threads, PlaySet(t)
      PROVE  \A x \in Sounds : SamePhase(x)
  BY <1>0, <1>q, CallIsAboutASound, <1>7 DEF CallInv, SoundTypeOK, SamePhase, PlaySet
<1>8. ASSUME NEW t \in Threads, NotePause(t)
      PROVE  \A x \in Sounds : SamePhase(x)
  BY <1>0, <1>q, CallIsAboutASound, <1>8 DEF CallInv, SoundTypeOK, SamePhase, NotePause
<1>9. ASSUME NEW t \in Threads, NoteFinish(t)
      PROVE  \A x \in Sounds : SamePhase(x)
  BY <1>0, <1>q, CallIsAboutASound, <1>9 DEF CallInv, SoundTypeOK, SamePhase, NoteFinish
<1>10. ASSUME NEW t \in Threads, PauseStop(t)
      PROVE  \A x \in Sounds : SamePhase(x)
  BY <1>0, <1>q, CallIsAboutASound, <1>10 DEF CallInv, SoundTypeOK, SamePhase, PauseStop, StopDevice
<1>11. ASSUME NEW t \in Threads, PauseSet(t)
      PROVE  \A x \in Sounds : SamePhase(x)
  BY <1>0, <1>q, CallIsAboutASound, <1>11 DEF CallInv, SoundTypeOK, SamePhase, PauseSet
<1>12. ASSUME NEW t \in Threads, FinishStop(t)
      PROVE  \A x \in Sounds : SamePhase(x)
  BY <1>0, <1>q, CallIsAboutASound, <1>12 DEF CallInv, SoundTypeOK, SamePhase, FinishStop, StopDevice
<1>13. ASSUME NEW t \in Threads, FinishSet(t)
      PROVE  \A x \in Sounds : SamePhase(x)
  BY <1>0, <1>q, CallIsAboutASound, <1>13 DEF CallInv, SoundTypeOK, SamePhase, FinishSet
<1>14. ASSUME NEW t \in Threads, FadeSet(t)
      PROVE  \A x \in Sounds : SamePhase(x)
  BY <1>0, <1>q, CallIsAboutASound, <1>14 DEF CallInv, SoundTypeOK, SamePhase, FadeSet
<1>15. ASSUME NEW s \in Sounds, CallbackRead(s)
      PROVE  \A x \in Sounds : SamePhase(x)
  BY <1>0, <1>q, <1>15 DEF SamePhase, CallbackRead
<1>16. ASSUME NEW s \in Sounds, CallbackEof(s)
      PROVE  \A x \in Sounds : SamePhase(x)
  BY <1>0, <1>q, <1>16 DEF ResourceInv, SamePhase, CallbackEof, PlayedOut
<1>17. ASSUME NEW s \in Sounds, CallbackFade(s)
      PROVE  \A x \in Sounds : SamePhase(x)
  BY <1>0, <1>q, <1>17 DEF SamePhase, CallbackFade
<1>18. ASSUME NEW s \in Sounds, CallbackOver(s)
      PROVE  \A x \in Sounds : SamePhase(x)
  BY <1>0, <1>q, <1>18 DEF SamePhase, CallbackOver
<1>19. ASSUME NEW s \in Sounds, CallbackZero(s)
      PROVE  \A x \in Sounds : SamePhase(x)
  BY <1>0, <1>q, <1>19 DEF SamePhase, CallbackZero
<1>20. ASSUME NEW s \in Sounds, CallbackDecrement(s)
      PROVE  \A x \in Sounds : SamePhase(x)
  BY <1>0, <1>q, <1>20 DEF SamePhase, CallbackDecrement, Less
<1>21. ASSUME NEW s \in Sounds, CallbackApply(s)
      PROVE  \A x \in Sounds : SamePhase(x)
  BY <1>0, <1>q, <1>21 DEF ResourceInv, SoundTypeOK, SamePhase, CallbackApply
<1>22. ASSUME NEW s \in Sounds, DeviceLost(s)
      PROVE  \A x \in Sounds : SamePhase(x)
  BY <1>0, <1>q, <1>22 DEF SamePhase, DeviceLost
<1>23. ASSUME NEW s \in Sounds, Forget(s)
      PROVE  \A x \in Sounds : SamePhase(x)
  BY <1>0, <1>q, <1>23 DEF SamePhase, Forget
<1>24. ASSUME CheckBegin
      PROVE  \A x \in Sounds : SamePhase(x)
  BY <1>0, <1>q, <1>24 DEF SamePhase, CheckBegin
<1>25. ASSUME CallbackReturn
      PROVE  \A x \in Sounds : SamePhase(x)
  BY <1>0, <1>q, <1>25 DEF SamePhase, CallbackReturn
<1>26. ASSUME CheckClose
      PROVE  \A x \in Sounds : SamePhase(x)
  BY <1>0, <1>q, <1>26 DEF SamePhase, CheckClose
<1>27. ASSUME CheckPause
      PROVE  \A x \in Sounds : SamePhase(x)
  BY <1>0, <1>q, <1>27 DEF SamePhase, CheckPause, ManagerInv
<1>28. ASSUME CheckTake
      PROVE  \A x \in Sounds : SamePhase(x)
  <2>1. /\ UNCHANGED <<state, freed, device, doneCalls>> /\ mcur = NoSound
        /\ dq # <<>> /\ TrackerTypeOK /\ DistinctInv
    BY <1>0, <1>28 DEF CheckTake, ManagerInv, TypeOK, QueueInv
  <2>2. CASE dq' = Append(Tail(dq), Head(dq)) /\ mcur' = NoSound
    BY <2>1, <2>2, RotateEntries DEF SamePhase
  <2>3. CASE dq' = Tail(dq) /\ mcur' = Head(dq)
    BY <2>1, <2>3, <1>q, SoundKinds, TailEntries DEF SamePhase
  <2> QED
    BY <1>28, <2>2, <2>3 DEF CheckTake, IterationDone
<1>29. ASSUME CheckDrop
      PROVE  \A x \in Sounds : SamePhase(x)
  <2>1. mcur' = NoSound /\ device[mcur] = "none" /\ UNCHANGED <<state, freed, device, doneCalls, dq>>
    BY <1>0, <1>29 DEF CheckDrop, IterationDone, ManagerInv
  <2> QED
    BY <2>1, <1>q, SoundKinds DEF SamePhase
<1>30. ASSUME CheckStop
      PROVE  \A x \in Sounds : SamePhase(x)
  <2>1. /\ UNCHANGED <<state, freed, doneCalls>> /\ mcur' = NoSound
        /\ TrackerTypeOK /\ mcur \in Sounds
    BY <1>0, <1>30 DEF CheckStop, IterationDone, ManagerInv, TypeOK
  <2>2. Entries' = Entries \cup {mcur}
    BY <1>30, <2>1, AppendEntries DEF CheckStop, Requeue
  <2>3. \A x \in Sounds : device'[x] = "none" <=> device[x] = "none"
    BY <1>0, <1>30 DEF CheckStop, SoundTypeOK
  <2> QED
    BY <2>1, <2>2, <2>3, SoundKinds DEF SamePhase
<1> QED
  BY <1>1, <1>2, <1>3, <1>4, <1>5, <1>6, <1>7, <1>8, <1>9, <1>10, <1>11, <1>12, <1>13, <1>14, <1>15, <1>16, <1>17, <1>18, <1>19, <1>20, <1>21, <1>22, <1>23, <1>24, <1>25, <1>26, <1>27, <1>28, <1>29, <1>30, PhaseStutters DEF Silent, CallStep, Device

\* The other steps move one sound to its next phase.
LEMMA RefinementStep ==
  ASSUME IInv, IInv', [Next]_vars
  PROVE  [Lifecycle!Next]_phase
<1> USE DEF Enter, Goto, Return, SetState, NewSound, CanCall, CanCallOn, flags, memory, manager
<1>0. /\ TypeOK /\ LockInv /\ ManagerInv /\ ResourceInv /\ QueueInv
      /\ SoundTypeOK /\ TrackerTypeOK /\ MemoryTypeOK
  BY DEF IInv, TypeOK
<1>1. UNCHANGED dq => Entries' = Entries
  BY DEF Entries
<1>a. \A s \in Sounds : device[s] # "none" => state[s] # "none" /\ s \notin freed
  BY <1>0 DEF MemoryTypeOK, ResourceInv
<1>b. \A s \in Sounds : doneCalls[s] \in Nat
  BY <1>0 DEF TrackerTypeOK
<1>2. ASSUME NEW t \in Threads, NEW s \in Sounds, New(t, s)
      PROVE  Lifecycle!Create(s)
  <2>1. PhaseOf(s) = "absent" /\ s # mcur /\ s \notin Entries
    BY <1>0, <1>2 DEF New, PhaseOf, ManagerInv, ResourceInv, QueueInv, LiveInv
  <2>2. PhaseOf(s)' = "created"
    BY <1>0, <1>1, <1>2, <2>1 DEF New, PhaseOf, ResourceInv, SoundTypeOK
  <2>3. \A x \in Sounds \ {s} : SamePhase(x)
    BY <1>0, <1>1, <1>2 DEF New, SamePhase
  <2> QED
    BY <2>1, <2>2, <2>3, PhaseMoves DEF Lifecycle!Create
<1>3. ASSUME NEW s \in Sounds, UiNew(s)
      PROVE  Lifecycle!Create(s)
  <2>0. state[s] = "none" /\ device[s] = "none"
    BY <1>0, <1>3 DEF UiNew, ResourceInv
  <2>1. PhaseOf(s) = "absent" /\ s # mcur /\ s \notin Entries
    BY <1>0, <2>0, SoundKinds DEF PhaseOf, ManagerInv, QueueInv, LiveInv
  <2>2. PhaseOf(s)' = "created"
    BY <1>0, <1>1, <1>3, <2>1 DEF UiNew, PhaseOf, ResourceInv, SoundTypeOK
  <2>3. \A x \in Sounds \ {s} : SamePhase(x)
    BY <1>0, <1>1, <1>3 DEF UiNew, SamePhase
  <2> QED
    BY <2>1, <2>2, <2>3, PhaseMoves DEF Lifecycle!Create
<1>4. ASSUME NEW s \in Sounds, device[s] # "none", s # mcur, s \notin Entries,
             dq' = Append(dq, s), UNCHANGED <<state, freed, device, doneCalls, mcur>>
      PROVE  Lifecycle!Track(s)
  <2>1. state[s] # "none" /\ s \notin freed /\ doneCalls[s] = 0
    BY <1>0, <1>4, <1>a, <1>b DEF ResourceInv
  <2>2. Entries' = Entries \cup {s}
    BY <1>0, <1>4, AppendEntries
  <2>3. PhaseOf(s) = "created" /\ PhaseOf(s)' = "tracked"
    BY <1>4, <2>1, <2>2 DEF PhaseOf
  <2>4. \A x \in Sounds \ {s} : SamePhase(x)
    BY <1>4, <2>2 DEF SamePhase
  <2> QED
    BY <2>3, <2>4, PhaseMoves DEF Lifecycle!Track
<1>5. ASSUME NEW t \in Threads, NEW s \in Sounds, Play(t, s)
      PROVE  Lifecycle!Track(s) \/ UNCHANGED phase
  <2>1. CASE state[s] = "created"
    <3>1. s \notin Entries /\ s # mcur
      BY <1>0, <1>5, <2>1, FirstPlay DEF Play
    <3> QED
      BY <1>4, <1>5, <2>1, <3>1 DEF Play, TrackOnPlay
  <2>2. CASE state[s] # "created"
    BY <1>1, <1>5, <2>2, PhaseStutters DEF Play, TrackOnPlay, SamePhase
  <2> QED
    BY <2>1, <2>2
<1>6. ASSUME UiAdd
      PROVE  Lifecycle!Track(arg["ui"]) /\ arg["ui"] \in Sounds
  BY <1>0, <1>4, <1>6, SoundKinds DEF UiAdd, LockInv, QueueInv, UiAddInv
<1>7. ASSUME CheckNotify
      PROVE  Lifecycle!Notify(mcur) /\ mcur \in Sounds
  <2>1. PICK s \in Sounds : s = mcur
    BY <1>0, <1>7 DEF CheckNotify, ManagerInv
  <2>2. /\ state[s] # "none" /\ device[s] # "none" /\ s \notin freed /\ doneCalls[s] = 0
    BY <1>0, <1>7, <1>a, <2>1 DEF CheckNotify, ManagerInv
  <2>3. PhaseOf(s) = "tracked"
    BY <2>1, <2>2 DEF PhaseOf
  <2>4. PhaseOf(s)' = "notified"
    BY <1>0, <1>7, <1>b, <2>1, <2>2 DEF CheckNotify, PhaseOf, SoundTypeOK, TrackerTypeOK
  <2>5. \A x \in Sounds \ {s} : SamePhase(x)
    BY <1>0, <1>1, <1>7, <2>1 DEF CheckNotify, SamePhase, SoundTypeOK, TrackerTypeOK
  <2>6. Lifecycle!Notify(s)
    BY <2>3, <2>4, <2>5, PhaseMoves DEF Lifecycle!Notify
  <2> QED
    BY <2>1, <2>6
<1>8. ASSUME CheckUninit
      PROVE  Lifecycle!Release(mcur) /\ mcur \in Sounds
  <2>1. PICK s \in Sounds : s = mcur
    BY <1>0, <1>8 DEF CheckUninit, ManagerInv
  <2>2. /\ state[s] # "none" /\ device[s] # "none" /\ s \notin freed
    BY <1>0, <1>8, <1>a, <2>1 DEF CheckUninit, ManagerInv
  <2>3. PhaseOf(s) \in {"tracked", "notified"}
    BY <2>1, <2>2 DEF PhaseOf
  <2>4. PhaseOf(s)' = "released"
    BY <1>0, <1>8, <1>b, <2>1, <2>2 DEF CheckUninit, PhaseOf, SoundTypeOK, TrackerTypeOK
  <2>5. \A x \in Sounds \ {s} : SamePhase(x)
    BY <1>0, <1>1, <1>8, <2>1 DEF CheckUninit, SamePhase, SoundTypeOK, TrackerTypeOK
  <2>6. Lifecycle!Release(s)
    BY <2>3, <2>4, <2>5, PhaseMoves DEF Lifecycle!Release
  <2> QED
    BY <2>1, <2>6
<1>9. ASSUME NEW s \in Sounds, Collect(s)
      PROVE  Lifecycle!Collect(s)
  <2>1. device[s] = "none" /\ state[s] # "none" /\ s \notin freed
    BY <1>0, <1>9 DEF Collect, ResourceInv
  <2>2. PhaseOf(s) = "released" /\ PhaseOf(s)' = "collected"
    BY <1>9, <2>1 DEF Collect, PhaseOf
  <2>3. \A x \in Sounds \ {s} : SamePhase(x)
    BY <1>1, <1>9 DEF Collect, SamePhase
  <2> QED
    BY <2>2, <2>3, PhaseMoves DEF Lifecycle!Collect
<1>10. CASE UNCHANGED vars
  BY <1>1, <1>10, PhaseStutters DEF vars, SamePhase
<1>11. CASE Silent
  BY <1>11, SilentStep
<1>12. ASSUME Next
       PROVE  \/ Silent \/ UiAdd \/ CheckNotify \/ CheckUninit
              \/ \E t \in Threads, s \in Sounds : New(t, s) \/ Play(t, s)
              \/ \E s \in Sounds : UiNew(s) \/ Collect(s)
  BY <1>12 DEF Next, Call, Check, CheckStep, Silent
<1> HIDE DEF phase
<1> QED
  BY <1>2, <1>3, <1>5, <1>6, <1>7, <1>8, <1>9, <1>10, <1>11, <1>12 DEF Lifecycle!Next

\* The library implements AudioLifecycle: a sound enters the tracker once, is
\* called back at most once and loses its memory only after its device.
THEOREM Refinement == Spec => ImplementsLifecycle
<1>1. Init => Lifecycle!Init
  BY DEF Init, phase, Lifecycle!Init
<1>2. IInv /\ IInv' /\ [Next]_vars => [Lifecycle!Next]_phase
  BY RefinementStep
<1> QED
  BY <1>1, <1>2, Invariance, PTL DEF Spec, ImplementsLifecycle, Lifecycle!Spec

=============================================================================
