-------------------------------- MODULE Audio --------------------------------
(***************************************************************************)
(* The sound objects of sider's audio library (audio.cpp).                 *)
(*                                                                         *)
(* Four kinds of actor share a sound_t:                                    *)
(*   "lua"  a game thread running a Lua module's calls of the audio API,   *)
(*          each under the global critical section _cs;                    *)
(*   "mgr"  the sound-manager thread, which polls the tracker's deque      *)
(*          under _cs and, from the when_done callback it runs, may call   *)
(*          the same API again (_cs is recursive);                         *)
(*   "ui"   the keyboard thread, which plays the overlay's toggle sound    *)
(*          through the C functions WITHOUT taking _cs;                    *)
(*   the worker thread of each sound's device, which runs data_callback    *)
(*          and takes no lock at all.                                      *)
(* An API call is therefore split at every access that data_callback, or   *)
(* the unlocked "ui" thread, can interleave with.                          *)
(***************************************************************************)
EXTENDS Integers, Sequences, FiniteSets

CONSTANTS
  LuaSounds,  \* sound objects that Lua modules create
  UiSounds,   \* sound objects of the overlay's toggle sound (no Lua state)
  NoSound,    \* no sound at all: the argument of a thread outside any call
  MaxFrames,  \* buffers of samples a sound's file holds: bounds playback
  MaxFade     \* longest fade, in device buffers; the counter wraps above it

ASSUME SoundsAssumption == /\ LuaSounds \cap UiSounds = {}
                           /\ NoSound \notin LuaSounds \cup UiSounds
ASSUME BoundsAssumption == MaxFrames \in Nat /\ MaxFade \in Nat \ {0}

Sounds  == LuaSounds \cup UiSounds
Threads == {"lua", "mgr", "ui"}

VARIABLES
  state,      \* sound_t.state; "none" before the object is created
  device,     \* pDevice: "none" (NULL), "stopped" or "started"
  decoder,    \* pDecoder: "none" (NULL) or "open"
  fading, fadeAndPause, fadeAndFinish,
  fadeLeft,   \* fade_in_samples in whole buffers, 0 when less than one
  framesLeft, \* buffers the decoder has not read yet
  cb,         \* where the device's thread is in data_callback
  dq,         \* sound_tracker_t._dq
  objects,    \* keys of the table that anchors the userdata of the sounds
  extra,      \* sounds with a when_done callback stored in their extra
  doneCalls,  \* how many times each when_done callback was run
  held,       \* sounds some Lua value still refers to
  freed,      \* sounds whose userdata was garbage-collected
  cs,         \* owner of _cs: "free", "lua" or "mgr"
  pc, arg,    \* API call each thread is in, and the sound it is about
  mpc, mleft, mcur  \* manager: place in check(), iterations left, popped sound

flags   == <<fading, fadeAndPause, fadeAndFinish, fadeLeft>>
memory  == <<objects, held, freed>>
manager == <<mpc, mleft, mcur>>
vars == <<state, device, decoder, flags, framesLeft, cb, dq, extra, doneCalls,
          memory, cs, pc, arg, manager>>

State == {"none", "created", "playing", "pausing", "paused", "finished"}
CallPc == {"idle", "add", "start", "play", "flags", "pnote", "fnote",
           "nofinish", "tofinish", "pstop", "pset", "fstop", "fset", "fade"}
ManagerPc == {"sleep", "scan", "notify", "callback", "uninit", "close",
              "drop", "pause", "stop"}

SoundTypeOK ==
  /\ state \in [Sounds -> State]
  /\ device \in [Sounds -> {"none", "stopped", "started"}]
  /\ decoder \in [Sounds -> {"none", "open"}]
  /\ framesLeft \in [Sounds -> 0..MaxFrames]
  /\ cb \in [Sounds -> {"idle", "eof", "fade", "decrement", "over", "zero",
                        "apply"}]

FadeTypeOK ==
  /\ fading \in [Sounds -> BOOLEAN]
  /\ fadeAndPause \in [Sounds -> BOOLEAN]
  /\ fadeAndFinish \in [Sounds -> BOOLEAN]
  /\ fadeLeft \in [Sounds -> 0..MaxFade]

TrackerTypeOK ==
  /\ dq \in Seq(Sounds)
  /\ extra \subseteq LuaSounds
  /\ doneCalls \in [Sounds -> Nat]

MemoryTypeOK ==
  /\ objects \subseteq LuaSounds
  /\ held \subseteq LuaSounds
  /\ freed \subseteq LuaSounds

CallTypeOK ==
  /\ cs \in {"free", "lua", "mgr"}
  /\ pc \in [Threads -> CallPc]
  /\ arg \in [Threads -> Sounds \cup {NoSound}]

ManagerTypeOK ==
  /\ mpc \in ManagerPc
  /\ mleft \in Nat
  /\ mcur \in Sounds \cup {NoSound}

TypeOK == /\ SoundTypeOK /\ FadeTypeOK /\ TrackerTypeOK
          /\ MemoryTypeOK /\ CallTypeOK /\ ManagerTypeOK

Init ==
  /\ state = [s \in Sounds |-> "none"]
  /\ device = [s \in Sounds |-> "none"]
  /\ decoder = [s \in Sounds |-> "none"]
  /\ fading = [s \in Sounds |-> FALSE]
  /\ fadeAndPause = [s \in Sounds |-> FALSE]
  /\ fadeAndFinish = [s \in Sounds |-> FALSE]
  /\ fadeLeft = [s \in Sounds |-> 0]
  /\ framesLeft \in [Sounds -> 0..MaxFrames]
  /\ cb = [s \in Sounds |-> "idle"]
  /\ dq = <<>>
  /\ objects = {} /\ extra = {} /\ held = {} /\ freed = {}
  /\ doneCalls = [s \in Sounds |-> 0]
  /\ cs = "free"
  /\ pc = [t \in Threads |-> "idle"]
  /\ arg = [t \in Threads |-> NoSound]
  /\ mpc = "sleep" /\ mleft = 0 /\ mcur = NoSound

-----------------------------------------------------------------------------
(* Calls of the audio API.  A Lua call holds _cs from its first step to    *)
(* its last; the manager's nested calls find _cs already theirs.           *)

\* Thread t may begin a call: on a game thread once _cs is free, on the
\* manager's thread while it runs a when_done callback.
CanCall(t) ==
  /\ pc[t] = "idle"
  /\ \/ t = "lua" /\ cs = "free"
     \/ t = "mgr" /\ mpc = "callback"

\* A call about s, which every function below abandons at once without pDevice.
CanCallOn(t, s) == CanCall(t) /\ s \in held /\ device[s] # "none"

Enter(t, s, label) ==
  /\ pc' = [pc EXCEPT ![t] = label]
  /\ arg' = [arg EXCEPT ![t] = s]
  /\ cs' = IF t = "lua" THEN "lua" ELSE cs

Goto(t, label) == pc' = [pc EXCEPT ![t] = label] /\ UNCHANGED <<arg, cs>>

Return(t) ==
  /\ pc' = [pc EXCEPT ![t] = "idle"]
  /\ arg' = [arg EXCEPT ![t] = NoSound]
  /\ cs' = IF t = "lua" THEN "free" ELSE cs

SetState(s, v) == state' = [state EXCEPT ![s] = v]

\* audio_new_sound: a stopped device over an open decoder.
NewSound(s) ==
  /\ state[s] = "none"
  /\ SetState(s, "created")
  /\ device' = [device EXCEPT ![s] = "stopped"]
  /\ decoder' = [decoder EXCEPT ![s] = "open"]

\* Mutant of Anchor: audio.new forgets the objects table.
AnchorForgotten(s) == UNCHANGED objects

\* audio.new keeps the userdata alive through the objects table.
Anchor(s) == objects' = objects \cup {s}

\* audio.new(filename)
New(t, s) ==
  /\ CanCall(t) /\ s \in LuaSounds
  /\ NewSound(s)
  /\ Anchor(s)
  /\ held' = held \cup {s}
  /\ UNCHANGED <<flags, framesLeft, cb, dq, extra, doneCalls, freed, cs, pc,
                 arg, manager>>

\* The toggle sound: created and played outside _cs, by the "ui" thread.
UiNew(s) ==
  /\ pc["ui"] = "idle" /\ s \in UiSounds
  /\ NewSound(s)
  /\ Enter("ui", s, "add")
  /\ UNCHANGED <<flags, framesLeft, cb, dq, extra, doneCalls, memory, manager>>

\* sound_tracker_t::add takes _cs only for the push.
UiAdd ==
  /\ pc["ui"] = "add" /\ cs = "free"
  /\ dq' = Append(dq, arg["ui"])
  /\ Goto("ui", "start")
  /\ UNCHANGED <<state, device, decoder, flags, framesLeft, cb, extra,
                 doneCalls, memory, manager>>

\* Mutant of TrackOnPlay: audio_play adds a sound whenever it starts a device.
TrackOnEveryStart(s) ==
  dq' = IF state[s] \in {"created", "paused"} THEN Append(dq, s) ELSE dq

\* The switch of audio_play adds a sound to the tracker on its first play.
TrackOnPlay(s) == dq' = IF state[s] = "created" THEN Append(dq, s) ELSE dq

\* sound:play(), up to the switch of audio_play.
Play(t, s) ==
  /\ CanCallOn(t, s)
  /\ TrackOnPlay(s)
  /\ Enter(t, s, CASE state[s] \in {"created", "paused"} -> "start"
                   [] state[s] = "finished" -> "flags"
                   [] OTHER -> "play")
  /\ UNCHANGED <<state, device, decoder, flags, framesLeft, cb, extra,
                 doneCalls, memory, manager>>

\* Mutant of StartRefused: audio_play tries again instead of giving up.
StartRetried(t, s) == UNCHANGED <<state, pc, arg, cs>>

\* The device did not start: audio_play finishes the sound, and play() raises
\* a Lua error before it resets the fade flags.
StartRefused(t, s) == SetState(s, "finished") /\ Return(t)

\* ma_device_start refuses a device that already runs, and can fail on one
\* that does not.
PlayStart(t) ==
  LET s == arg[t] IN
  /\ pc[t] = "start"
  /\ \/ /\ device[s] = "stopped"
        /\ device' = [device EXCEPT ![s] = "started"]
        /\ Goto(t, "play")
        /\ UNCHANGED state
     \/ StartRefused(t, s) /\ UNCHANGED device
  /\ UNCHANGED <<decoder, flags, framesLeft, cb, dq, extra, doneCalls, memory,
                 manager>>

PlaySet(t) ==
  /\ pc[t] = "play"
  /\ SetState(arg[t], "playing")
  /\ IF t = "ui" THEN Return(t) ELSE Goto(t, "flags")
  /\ UNCHANGED <<device, decoder, flags, framesLeft, cb, dq, extra, doneCalls,
                 memory, manager>>

\* sound:pause() or sound:finish() while a fade is on only leaves a note for
\* data_callback.
DuringFade(t, s, finish) ==
  /\ CanCallOn(t, s) /\ fading[s]
  /\ Enter(t, s, IF finish THEN "fnote" ELSE "pnote")
  /\ UNCHANGED <<state, device, decoder, flags, framesLeft, cb, dq, extra,
                 doneCalls, memory, manager>>

\* The note is in two flags, which play() clears: first fade_and_pause...
NotePause(t) ==
  /\ pc[t] \in {"flags", "pnote", "fnote"}
  /\ fadeAndPause' = [fadeAndPause EXCEPT ![arg[t]] = pc[t] = "pnote"]
  /\ Goto(t, IF pc[t] = "fnote" THEN "tofinish" ELSE "nofinish")
  /\ UNCHANGED <<state, device, decoder, fading, fadeAndFinish, fadeLeft,
                 framesLeft, cb, dq, extra, doneCalls, memory, manager>>

\* ... and then fade_and_finish.
NoteFinish(t) ==
  /\ pc[t] \in {"nofinish", "tofinish"}
  /\ fadeAndFinish' = [fadeAndFinish EXCEPT ![arg[t]] = pc[t] = "tofinish"]
  /\ Return(t)
  /\ UNCHANGED <<state, device, decoder, fading, fadeAndPause, fadeLeft,
                 framesLeft, cb, dq, extra, doneCalls, memory, manager>>

\* sound:pause(), up to the switch of audio_pause.
Pause(t, s) ==
  /\ CanCallOn(t, s) /\ ~fading[s]
  /\ \/ state[s] = "playing" /\ Enter(t, s, "pstop")
     \/ state[s] \in {"created", "pausing", "paused"} /\ Enter(t, s, "pset")
  /\ UNCHANGED <<state, device, decoder, flags, framesLeft, cb, dq, extra,
                 doneCalls, memory, manager>>

\* sound:finish(), up to the switch of audio_finish.
Finish(t, s) ==
  /\ CanCallOn(t, s) /\ ~fading[s]
  /\ Enter(t, s, IF state[s] = "playing" THEN "fstop" ELSE "fset")
  /\ UNCHANGED <<state, device, decoder, flags, framesLeft, cb, dq, extra,
                 doneCalls, memory, manager>>

\* ma_device_stop waits for the running data_callback; it refuses a device
\* that is stopped, and audio_pause or audio_finish then finishes the sound
\* and raises a Lua error.
StopDevice(t, label) ==
  LET s == arg[t] IN
  /\ cb[s] = "idle"
  /\ \/ /\ device[s] = "started"
        /\ device' = [device EXCEPT ![s] = "stopped"]
        /\ Goto(t, label)
        /\ UNCHANGED state
     \/ /\ device[s] # "started"
        /\ SetState(s, "finished")
        /\ Return(t)
        /\ UNCHANGED device
  /\ UNCHANGED <<decoder, flags, framesLeft, cb, dq, extra, doneCalls, memory,
                 manager>>

PauseStop(t)  == pc[t] = "pstop" /\ StopDevice(t, "pset")
FinishStop(t) == pc[t] = "fstop" /\ StopDevice(t, "fset")

PauseSet(t) ==
  /\ pc[t] = "pset"
  /\ SetState(arg[t], "paused")
  /\ Return(t)
  /\ UNCHANGED <<device, decoder, flags, framesLeft, cb, dq, extra, doneCalls,
                 memory, manager>>

FinishSet(t) ==
  /\ pc[t] = "fset"
  /\ SetState(arg[t], "finished")
  /\ Return(t)
  /\ UNCHANGED <<device, decoder, flags, framesLeft, cb, dq, extra, doneCalls,
                 memory, manager>>

\* sound:fade_to(volume, seconds) raises the flag before it stores how long.
FadeTo(t, s) ==
  /\ CanCallOn(t, s) /\ state[s] # "finished"
  /\ fading' = [fading EXCEPT ![s] = TRUE]
  /\ Enter(t, s, "fade")
  /\ UNCHANGED <<state, device, decoder, fadeAndPause, fadeAndFinish, fadeLeft,
                 framesLeft, cb, dq, extra, doneCalls, memory, manager>>

FadeSet(t) ==
  /\ pc[t] = "fade"
  /\ \E n \in 0..MaxFade : fadeLeft' = [fadeLeft EXCEPT ![arg[t]] = n]
  /\ Return(t)
  /\ UNCHANGED <<state, device, decoder, fading, fadeAndPause, fadeAndFinish,
                 framesLeft, cb, dq, extra, doneCalls, memory, manager>>

\* sound:when_done(func)
WhenDone(t, s) ==
  /\ CanCallOn(t, s)
  /\ extra' = extra \cup {s}
  /\ UNCHANGED <<state, device, decoder, flags, framesLeft, cb, dq, doneCalls,
                 memory, cs, pc, arg, manager>>

-----------------------------------------------------------------------------
(* data_callback, on the worker thread of the device of s; no lock.        *)

\* Reads one buffer; n = 0 once the file is used up.
CallbackRead(s) ==
  /\ device[s] = "started" /\ cb[s] = "idle" /\ decoder[s] # "none"
  /\ \/ /\ framesLeft[s] > 0
        /\ framesLeft' = [framesLeft EXCEPT ![s] = @ - 1]
        /\ cb' = [cb EXCEPT ![s] = "fade"]
     \/ /\ framesLeft[s] = 0
        /\ cb' = [cb EXCEPT ![s] = "eof"]
        /\ UNCHANGED framesLeft
  /\ UNCHANGED <<state, device, decoder, flags, dq, extra, doneCalls, memory,
                 cs, pc, arg, manager>>

\* Mutant of PlayedOut: only a sound that is still "playing" gets finished.
PlayedOutIfPlaying(s) ==
  IF state[s] = "playing" THEN SetState(s, "finished") ELSE UNCHANGED state

\* No frame was read: the sound is over, whatever state it was in.
PlayedOut(s) == SetState(s, "finished")

CallbackEof(s) ==
  /\ cb[s] = "eof"
  /\ PlayedOut(s)
  /\ cb' = [cb EXCEPT ![s] = "fade"]
  /\ UNCHANGED <<device, decoder, flags, framesLeft, dq, extra, doneCalls,
                 memory, cs, pc, arg, manager>>

\* The fade is over when what is left of it fits in this buffer.
CallbackFade(s) ==
  /\ cb[s] = "fade"
  /\ \/ ~fading[s] /\ cb' = [cb EXCEPT ![s] = "idle"]
     \/ fading[s] /\ fadeLeft[s] <= 1 /\ cb' = [cb EXCEPT ![s] = "over"]
     \/ fading[s] /\ fadeLeft[s] > 1 /\ cb' = [cb EXCEPT ![s] = "decrement"]
  /\ UNCHANGED <<state, device, decoder, flags, framesLeft, dq, extra,
                 doneCalls, memory, cs, pc, arg, manager>>

CallbackOver(s) ==
  /\ cb[s] = "over"
  /\ fading' = [fading EXCEPT ![s] = FALSE]
  /\ cb' = [cb EXCEPT ![s] = "zero"]
  /\ UNCHANGED <<state, device, decoder, fadeAndPause, fadeAndFinish, fadeLeft,
                 framesLeft, dq, extra, doneCalls, memory, cs, pc, arg, manager>>

\* Also the length of a fade that fade_to has asked for since.
CallbackZero(s) ==
  /\ cb[s] = "zero"
  /\ fadeLeft' = [fadeLeft EXCEPT ![s] = 0]
  /\ cb' = [cb EXCEPT ![s] = "apply"]
  /\ UNCHANGED <<state, device, decoder, fading, fadeAndPause, fadeAndFinish,
                 framesLeft, dq, extra, doneCalls, memory, cs, pc, arg, manager>>

\* Mutant of Less: the subtraction as on integers, without the word's width.
LessUnbounded(n) == n - 1

\* n - frameCount on an unsigned word of MaxFade + 1 values.
Less(n) == IF n = 0 THEN MaxFade ELSE n - 1

\* fade_in_samples -= frameCount: a concurrent fade_to may have shortened
\* the fade since the comparison.
CallbackDecrement(s) ==
  /\ cb[s] = "decrement"
  /\ fadeLeft' = [fadeLeft EXCEPT ![s] = Less(@)]
  /\ cb' = [cb EXCEPT ![s] = "idle"]
  /\ UNCHANGED <<state, device, decoder, fading, fadeAndPause, fadeAndFinish,
                 framesLeft, dq, extra, doneCalls, memory, cs, pc, arg, manager>>

\* What pause() or finish() asked for when the fade ends.
CallbackApply(s) ==
  /\ cb[s] = "apply"
  /\ \/ fadeAndFinish[s] /\ SetState(s, "finished")
     \/ ~fadeAndFinish[s] /\ fadeAndPause[s] /\ SetState(s, "pausing")
     \/ ~fadeAndFinish[s] /\ ~fadeAndPause[s] /\ UNCHANGED state
  /\ cb' = [cb EXCEPT ![s] = "idle"]
  /\ UNCHANGED <<device, decoder, flags, framesLeft, dq, extra, doneCalls,
                 memory, cs, pc, arg, manager>>

\* The output device goes away: the worker leaves its main loop and marks
\* the device stopped.
DeviceLost(s) ==
  /\ device[s] = "started" /\ cb[s] = "idle"
  /\ device' = [device EXCEPT ![s] = "stopped"]
  /\ UNCHANGED <<state, decoder, flags, framesLeft, cb, dq, extra, doneCalls,
                 memory, cs, pc, arg, manager>>

-----------------------------------------------------------------------------
(* sound_manager_thread: tracker->check() for ever.                        *)

\* Mutants of Iterations: one iteration too few, one too many.
IterationsTooFew  == IF dq = <<>> THEN 0 ELSE Len(dq) - 1
IterationsTooMany == Len(dq) + 1

\* How many sounds a check() looks at.
Iterations == Len(dq)

\* The number of iterations is read under _cs, which is then released.
CheckBegin ==
  /\ mpc = "sleep" /\ cs = "free"
  /\ mleft' = Iterations
  /\ mpc' = IF mleft' = 0 THEN "sleep" ELSE "scan"
  /\ UNCHANGED <<state, device, decoder, flags, framesLeft, cb, dq, extra,
                 doneCalls, memory, cs, pc, arg, mcur>>

\* An iteration that changes nothing, or has dealt with its sound, leaves _cs.
IterationDone ==
  /\ mleft' = mleft - 1
  /\ mpc' = IF mleft = 1 THEN "sleep" ELSE "scan"
  /\ mcur' = NoSound
  /\ cs' = "free"

\* Pop the oldest sound and switch on its state.
CheckTake ==
  LET p == Head(dq) IN
  /\ mpc = "scan" /\ cs = "free"
  /\ dq # <<>>
  /\ \/ /\ state[p] \notin {"finished", "pausing"}
        /\ dq' = Append(Tail(dq), p)
        /\ IterationDone
     \/ /\ state[p] \in {"finished", "pausing"}
        /\ dq' = Tail(dq)
        /\ mpc' = IF state[p] = "pausing" THEN "pause"
                  ELSE IF p \in extra THEN "notify" ELSE "uninit"
        /\ mcur' = p
        /\ cs' = "mgr"
        /\ UNCHANGED mleft
  /\ UNCHANGED <<state, device, decoder, flags, framesLeft, cb, extra,
                 doneCalls, memory, pc, arg>>

\* module_call_callback_with_context: the callback runs under _cs.
CheckNotify ==
  /\ mpc = "notify"
  /\ doneCalls' = [doneCalls EXCEPT ![mcur] = @ + 1]
  /\ mpc' = "callback"
  /\ UNCHANGED <<state, device, decoder, flags, framesLeft, cb, dq, extra,
                 memory, cs, pc, arg, mleft, mcur>>

CallbackReturn ==
  /\ mpc = "callback" /\ pc["mgr"] = "idle"
  /\ mpc' = "uninit"
  /\ UNCHANGED <<state, device, decoder, flags, framesLeft, cb, dq, extra,
                 doneCalls, memory, cs, pc, arg, mleft, mcur>>

\* ma_device_uninit stops a started device and joins its worker thread.
CheckUninit ==
  /\ mpc = "uninit" /\ cb[mcur] = "idle"
  /\ device' = [device EXCEPT ![mcur] = "none"]
  /\ mpc' = "close"
  /\ UNCHANGED <<state, decoder, flags, framesLeft, cb, dq, extra, doneCalls,
                 memory, cs, pc, arg, mleft, mcur>>

CheckClose ==
  /\ mpc = "close"
  /\ decoder' = [decoder EXCEPT ![mcur] = "none"]
  /\ mpc' = "drop"
  /\ UNCHANGED <<state, device, flags, framesLeft, cb, dq, extra, doneCalls,
                 memory, cs, pc, arg, mleft, mcur>>

\* objects[ptr] = nil: the userdata may be collected from here on.
CheckDrop ==
  /\ mpc = "drop"
  /\ objects' = objects \ {mcur}
  /\ IterationDone
  /\ UNCHANGED <<state, device, decoder, flags, framesLeft, cb, dq, extra,
                 doneCalls, held, freed, pc, arg>>

\* Mutant of Requeue: the case of a pausing sound ends in a break.
RequeueForgotten == UNCHANGED dq

\* A pausing sound falls through to the default case.
Requeue == dq' = Append(dq, mcur)

CheckPause ==
  /\ mpc = "pause"
  /\ SetState(mcur, "paused")
  /\ mpc' = "stop"
  /\ UNCHANGED <<device, decoder, flags, framesLeft, cb, dq, extra, doneCalls,
                 memory, cs, pc, arg, mleft, mcur>>

\* Stop the device, whatever ma_device_stop answers, and re-enqueue.
CheckStop ==
  /\ mpc = "stop" /\ cb[mcur] = "idle"
  /\ device' = [device EXCEPT ![mcur] = IF @ = "none" THEN @ ELSE "stopped"]
  /\ Requeue
  /\ IterationDone
  /\ UNCHANGED <<state, decoder, flags, framesLeft, cb, extra, doneCalls,
                 memory, pc, arg>>

-----------------------------------------------------------------------------
(* Lua's memory management.                                                *)

InCall(s) == \E t \in {"lua", "mgr"} : pc[t] # "idle" /\ arg[t] = s

Forget(s) ==
  /\ s \in held
  /\ held' = held \ {s}
  /\ UNCHANGED <<state, device, decoder, flags, framesLeft, cb, dq, extra,
                 doneCalls, objects, freed, cs, pc, arg, manager>>

\* A userdata that nothing refers to is freed, with the sound_t inside it.
Collect(s) ==
  /\ s \in LuaSounds \ freed /\ state[s] # "none"
  /\ s \notin held \cup objects /\ ~InCall(s)
  /\ freed' = freed \cup {s}
  /\ UNCHANGED <<state, device, decoder, flags, framesLeft, cb, dq, extra,
                 doneCalls, objects, held, cs, pc, arg, manager>>

-----------------------------------------------------------------------------
Call(t, s) ==
  \/ New(t, s) \/ Play(t, s) \/ Pause(t, s) \/ Finish(t, s)
  \/ DuringFade(t, s, FALSE) \/ DuringFade(t, s, TRUE)
  \/ FadeTo(t, s) \/ WhenDone(t, s)

CallStep(t) ==
  \/ PlayStart(t) \/ PlaySet(t) \/ NotePause(t) \/ NoteFinish(t)
  \/ PauseStop(t) \/ PauseSet(t) \/ FinishStop(t) \/ FinishSet(t) \/ FadeSet(t)

Device(s) ==
  \/ CallbackRead(s) \/ CallbackEof(s) \/ CallbackFade(s) \/ CallbackOver(s)
  \/ CallbackZero(s) \/ CallbackDecrement(s) \/ CallbackApply(s)

CheckStep ==
  \/ CheckTake \/ CheckNotify \/ CheckUninit \/ CheckClose \/ CheckDrop
  \/ CheckPause \/ CheckStop

Check == CheckBegin \/ CheckStep \/ CallbackReturn

Next ==
  \/ \E t \in Threads, s \in Sounds : Call(t, s)
  \/ \E t \in Threads : CallStep(t)
  \/ \E s \in Sounds : UiNew(s) \/ Device(s) \/ DeviceLost(s) \/ Forget(s) \/ Collect(s)
  \/ UiAdd
  \/ Check

Spec == Init /\ [][Next]_vars

(***************************************************************************)
(* Scheduling: every thread keeps running, a device keeps asking for data  *)
(* and a when_done callback returns.  Strong fairness where a step waits   *)
(* for something that comes and goes: _cs, which others take again and     *)
(* again, and the pause between two data_callbacks, which ma_device_stop   *)
(* does not miss because it first tells the worker to leave its loop.      *)
(* Nothing obliges a module to make a call, the collector to run or a      *)
(* device to get lost.                                                     *)
(***************************************************************************)
Fairness ==
  /\ SF_vars(CallStep("lua")) /\ SF_vars(CallStep("mgr"))
  /\ SF_vars(UiAdd \/ CallStep("ui"))
  /\ SF_vars(Check)
  /\ \A s \in Sounds : WF_vars(Device(s))

FairSpec == Spec /\ Fairness

-----------------------------------------------------------------------------
(* Safety.                                                                 *)

Tracked(s) == mcur = s \/ \E i \in DOMAIN dq : dq[i] = s

\* The device's thread never runs over a closed decoder or freed memory: the
\* order of the tear-down in check(), and the objects table, see to it.
NoUseAfterFree ==
  \A s \in Sounds :
    device[s] = "started" \/ cb[s] # "idle" => decoder[s] = "open" /\ s \notin freed

\* The tracker never holds a sound twice, nor the one check() has popped, nor
\* one whose memory is gone: each entry is a pointer check() will follow.
TrackedOnce ==
  /\ \A i, j \in DOMAIN dq : dq[i] = dq[j] => i = j
  /\ \A i \in DOMAIN dq : dq[i] # mcur /\ dq[i] \notin freed
  /\ mcur \notin freed

\* check() never pops from an empty deque, although it reads the size in
\* another critical section than the one it pops in.
EnoughTracked == mpc = "scan" => mleft <= Len(dq)

-----------------------------------------------------------------------------
(* The life of a sound, as AudioLifecycle tells it.                        *)

phase == [s \in Sounds |->
  CASE state[s] = "none"                   -> "absent"
    [] s \in freed                         -> "collected"
    [] s \notin freed /\ device[s] = "none" /\ state[s] # "none" -> "released"
    [] device[s] # "none" /\ doneCalls[s] > 0 -> "notified"
    [] device[s] # "none" /\ doneCalls[s] = 0 /\ Tracked(s) -> "tracked"
    [] OTHER                               -> "created"]

Lifecycle == INSTANCE AudioLifecycle

\* The library implements the life cycle: no sound drops out of the tracker
\* alive, is called back twice or is freed before it is released.
ImplementsLifecycle == Lifecycle!Spec

-----------------------------------------------------------------------------
(* Liveness, under FairSpec.                                               *)

\* A finished sound the tracker knows is released in the end.
FinishedIsReleased ==
  \A s \in Sounds :
    (state[s] = "finished" /\ Tracked(s)) ~> (device[s] = "none" \/ state[s] # "finished")

\* Every API call returns: none waits for ever for _cs or for data_callback
\* to let go of the device.
EveryCallReturns == \A t \in Threads : (pc[t] # "idle") ~> (pc[t] = "idle")

\* Once the modules leave their sounds alone, a tracked sound that plays
\* comes to an end: it is released, or its device stops for a pause.
Quiet == \A t \in Threads : pc[t] = "idle"
PlaysOut ==
  <>[]Quiet => \A s \in Sounds : (device[s] = "started" /\ Tracked(s)) ~> (device[s] # "started")

-----------------------------------------------------------------------------
(* What the documentation promises and the code does not keep.             *)

\* doc/scripting.html:1522, the when_done function runs "immediately after the
\* sound finishes playing, either because of playing out in its entirety or
\* due to" finish(): so it does for a sound whose device has read its last.
DoneCallbackRuns ==
  \A s \in Sounds :
    (state[s] = "finished" /\ s \in extra /\ device[s] = "started")
      ~> (doneCalls[s] > 0 \/ state[s] # "finished")
=============================================================================
