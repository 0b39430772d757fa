# Verification project for sider

sider is a DLL that loads itself into a football game, hooks some forty places
of the game's code and lets Lua modules change what happens there: which files
the game loads, which stadium, ball and kits it plays with, what is drawn on an
overlay and which sounds are heard. This directory holds TLA+ models of the
parts of it in which several threads, callbacks or calls meet, the TLC
configurations that check them, and TLAPS proofs about them. All line numbers
are of the sources in `src/`; `sider.cpp` unless another file is named.

## The system

| component | state | operations | talks to |
|---|---|---|---|
| audio library (`audio.cpp`) | `sound_t` objects, the tracker's deque, the table that anchors userdata | new, play, pause, finish, fade_to, when_done; `check()`; `data_callback` | Lua through `_cs`; miniaudio's device threads without a lock; the toggle sound without Lua |
| LiveCPK (`lookup_file`, `get_size`, `read_file`, `mem_copy`) | the game's file-name buffers, the key cache | resolve a name: cache, rewrite, make_key, get_filepath, livecpk roots | the game's loader threads; modules through `_cs`; the disk |
| key cache (`cache2_t`) | a ring of entries with an expiry time | put, lookup | LiveCPK, under a lock of its own |
| Lua host (`init_lua_support`, `lua_reload_modified_modules`, `module_*`) | one Lua state and its stack, `_modules`, a `module_t` for each script | load, call a handler, reload | every hook; the Present thread for reloads |
| overlay and input (`sider_Present`, keyboard hook, controller poll) | `_overlay_on`, `_curr_overlay_m`, `_block_input`, `_hard_block` | toggle, switch, show and hide, block | two input threads, Present, modules |
| controller poll (`direct_input_poll`) | last good slot, failure counters, chord flags | poll, toggle | overlay |
| match context (`sider_set_team_id`, `sider_set_settings`, ...) | fields of the `ctx` table, `_mi`, `_sci` | set and clear by game event | modules, LiveCPK |
| kits (`kitinfo.cpp`, 1393-1615, 5452-6210) | uniform parameter words of the game | get and set bit fields | modules |
| hooks and start-up (`install_func`, `hook_cache_t`, `HookVtblMethod2`) | addresses, the cache file, vtable slots | search, install, save | the game's image, DXGI |
| save-folder redirection (4654-4802) | none | rewrite a path | the operating system |
| life cycle (`DllMain`, `main.cpp`) | loaded or not, the window hook | attach, detach, exit message | the operating system |
| patcher (`patcher.cpp`) | the game's executable file | verify, patch, unpatch | the user |
| libraries for Lua (`kmp.cpp`, `memlib.cpp`, `libz.cpp`, `fslib.cpp`, `fs.lua`, `memory.lua`) | none | search, compress, make directories | modules |

What is hard about it:

* **Locks taken late or not at all.** `_cs` guards the Lua state, but wrappers
  test whether a handler exists before they take it (2154), the toggle sound is
  played without it, and `data_callback` may not wait for it.
* **State that outlives a decision.** A path is cached for seconds while the
  context it was computed in changes; the overlay's pointer must follow
  reloads; a size reported now must fit the file read later.
* **Positions on a shared stack.** A module lives as long as its table is at its
  position on the Lua stack, whatever calls and failed reloads leave there.
* **Threads that must wait for each other.** `ma_device_stop` waits for the
  device's thread, under `_cs`.
* **Two threads of input.** The keyboard hook and the controller thread toggle
  and switch the overlay, without a lock, against reloads and each other.
* **Calls whose order the game decides.** A match is announced in several calls,
  and modules on other threads look at the context between them.
* **Partial failure.** A reload that is cancelled, a file that vanishes between
  two calls, a device that is lost, a patch or a cache file that stops
  half-way.

`PROJECT.json` lists the most important of these at their lines with the
properties that would catch them; what the code does that no property is about
is under "What the checks show", and the rest under "Not modelled".

## Modules

| module | what it is |
|---|---|
| `Audio` | the audio library: Lua calls, the unlocked toggle sound, the manager's `check()`, `data_callback` |
| `AudioLifecycle` | what the library promises about the life of a sound; `Audio` implements it |
| `AudioProofs` | theorems about `Audio` |
| `Cache2` | the operations of `cache2_t`, for the modules that use one |
| `Cache2Clients` | `Cache2` under arbitrary callers |
| `CacheRecent` | what a cache promises: the last `Size` puts, newest first; `Cache2Clients` implements it |
| `LiveCpk` | file resolution by concurrent loaders; extends `Cache2` |
| `LiveCpkProofs` | theorems about `LiveCpk` and `Cache2Clients` |
| `LuaHost` | loading, calling and reloading modules on one Lua stack |
| `LuaHostProofs` | theorems about `LuaHost` |
| `Overlay`, `OverlayProofs` | toggling and switching the overlay on two threads, and the blocking of input |
| `ControllerPoll` | the thread that polls the controllers: which one is read, and what its buttons mean |
| `InputHooks` | the hooks on the vtables of DirectInput devices |
| `InputProofs` | theorems about `ControllerPoll` and `InputHooks` |
| `MatchContext`, `MatchContextProofs` | the context table and the pointers into the game through a match; the period of play |
| `KitInfo` | the bit fields of a kit, set and got |
| `StartUp`, `StartUpProofs` | the search for the places to hook, and its cache |
| `Kmp` | `kmp_search`, which `StartUp` uses |
| `Patcher`, `PatcherProofs` | the executable patcher |
| `MC*` | symmetry, bounds and worlds for TLC |

`ControllerPoll` gives commands to `Overlay`, which models what they do with
the keyboard thread in between; they are checked apart because neither reads
the other's state except `_overlay_on`, which each lets change at any time.
`LuaHost` and `Overlay` both move `_curr_overlay_m` on a reload: the first with
the versions of the modules, the second against the threads that switch.

### Audio

A `sound_t` is spread over functions of the sound (`state`, `device`,
`decoder`, the flags, `fadeLeft`, `framesLeft`); `dq` is the tracker's deque.
`cs` is the owner of `_cs`. A call of the API is split wherever the device's
thread, which takes no lock, or the unlocked toggle sound could come between:
`Play`, `PlayStart`, `PlaySet`, `NotePause` and `NoteFinish` are the five parts
of `audio_lua_play`; the last two, which write the two flags of what is to
happen at the end of a fade, are also those of a `pause` or `finish` while a
fade is on (`DuringFade`). A device may refuse to start in any state. The manager's `check()` (59-113) is `CheckBegin` to
`CheckStop`; while it runs a `when_done` callback (`mpc = "callback"`) it may
itself make API calls, because `_cs` is recursive. `data_callback` is
`CallbackRead` to `CallbackApply`: it compares what is left of a fade
(`CallbackFade`) and afterwards ends it with two writes (`CallbackOver`,
`CallbackZero`) or subtracts (`CallbackDecrement`), each with a step of its own
because a call can change the same fields in between.

`fadeLeft` counts whole device buffers, and the unsigned counter that wraps is
`Less(0) = MaxFade`: what matters of the wrapped value is that it is large.
Volume is left out. `LuaSounds` are userdata: `held` are those that Lua still
refers to, `objects` those anchored by the library, and `Collect` frees one
that is neither. Errors raised by `luaL_error` while a `lock_t` is on the stack
are taken to run its destructor, as LuaJIT does on Windows x64. The keyboard
hook and the controller thread, which both play the toggle sound, are one
actor `"ui"`: each call makes a sound of its own.

### Cache2, LiveCpk

`data`, `next` and `now` are `_data`, `_next` and the tick count. Masking with
`_max_idx` is modular arithmetic because `config.h` (490-502) rounds the size
to a power of two; `Back(d)` is the slot the scan of `lookup` reaches in its
d-th round.

In `LiveCpk` each loader runs a request: `Begin` (lookup_file), `GetSize`, and
any number of `Read`s, each of which resolves the name anew through `Cached`,
`DoRewrite`, `ModuleMakeKey`/`ModuleGetFilepath`, `HaveLiveFile` and `CacheIt`.
A step is one callback into Lua (atomic under `_cs`), one look at the disk or
one operation of the cache (atomic under its own lock). `shown` and `tail` are
the two parts of the file-name buffer that `lookup_file` writes: the decoy name
that the game's archives are sure to have, and the real one behind the mark.
Constants describe the world: what each module rewrites a name to and which
path it has, as functions of the context, and where the roots keep what.
External assumptions: the game hands the name it ends up with after `get_size`
to its reads (the buffer is outside `src/`), and rewriting a rewritten name
changes nothing (the documented use; `RewrittenOnce`). The cache is on. `mem_copy` makes the
same calls on the same name as `read_file` and is not a separate action.
Cached paths are never freed by the code, so there is no use after free to
model.

### LuaHost

`stack` is the Lua stack between calls: the context, five library tables, then
whatever loading, calls and reloads leave. `version[m]` names the version of
module m in memory by the write time of its file, 0 if it is not active.
`Load`/`Loaded` are `init_lua_support`; `RequestReload`, `BeginReload`,
`KeepOld`, `TakeNew` and `EndReload` are the hot key and the pass it starts on
the Present thread. A module's author may edit a file (`Edit`) or put an older
one in its place (`PutBack`), which a pass does not load, because it asks for a
later write time (6949). What a file yields when it is loaded is `Scripts`: failure,
a table without `init`, or a set of registered events. `FindHandler` is a
wrapper's unlocked test and `Return` the call under `_cs`, which cannot happen
during a pass. A call leaves the stack as it was, or leaves an error message
(`Leaky`: `module_goal_scored` and `module_call_callback_with_context` do not
pop it), or pops a result twice (`TwicePopped`: `module_set_stadium`).

`popped` is a history variable that counts the double pops; after the first,
`Anchored` promises nothing, because the code does lose a module's table then.
`FindHandler` and `Return` being apart, a reload can replace the module in
between, and the call goes to a handler the new version may not have: the model
has this, and no property claims the contrary.

Assumptions: no event before all modules are loaded (the hooks are installed a
little earlier, 7534 and 7540; see the hazards); handlers themselves do not
fiddle with the stack below them, which Lua does not let them do. The overlay's
own handlers run on the Present thread, which also reloads, so no game thread
fires them.

### Overlay

`Toggle`, `Flip`, `Dispatch`, `Read`, `Dereference`, `Show`, `Hide`, `Scan`,
`ScanStep`, `ScanAgain` and `Move` are the reads and writes of a toggle
(8161-8165, 3833-3838) or a switch (3667-3713) by the keyboard hook or the
controller thread: each read or write of `_overlay_on` or `_curr_overlay_m` is
a step, so are the test against `end()` and the use after it, each round of the
scan looks at one module and compares with the pointer as it is then, and a
handler under `_cs` is one step. `SetBlocked`
is `input.set_blocked` in any handler, with its quirk: after `lua_pop` the
second argument is read where the first one still is. `Reload` moves the
pointer as 7060-7098 do. Only the keyboard hook obeys the hard block.

Without a lock the steps of two devices can cross, and the code then shows or
hides the wrong module; `disturbed` records that something came in between, or
that a reload moved the pointer of an overlay that is on (no show or hide then),
or that the overlay is on from the start (no show, 7985). `OneShown` and
`BlockIsOwned` speak of what is undisturbed; `PointerStays`, on which every
unlocked reader relies, of everything.

### ControllerPoll

A poll is one or two steps: XInput, and if no user answers, DirectInput (3746,
3933). `Rested` is the end of both halves: after five failures in a row a kind
is skipped for fifty polls, and the counter is left one below the limit.
`Understand` is what the buttons mean (3826-3888 and 3977-4017), a chord or a
release; one previous state serves all XInput users. `Good(k)` keeps the turn,
where the comment at 3750 means the user, so the next poll may begin with
another one. Sticks and triggers appear only as `NothingNew` not being the only
case in which no button has changed. `chord` and `owner` are history: what is
still held of the last chord, and whose.

### InputHooks

`HookVtblMethod2` (4158-4193) holds `_cs`, but calls through the vtable do not
take it: `Remember` and `Install` are its two writes, `CannotInstall` a failing
VirtualProtect, and `Read`, `CallOriginal`, `Return` a call of
`GetDeviceState` that may go through a hook. A vtable stands for its own
original function. What the hook does with the result, `DIERR_INPUTLOST` when
input is blocked, is left out.

### MatchContext, KitInfo

A value in the context is the match it is of. The hooks of a match
(`sider_set_team_id`, `sider_set_stadium_choice`, `sider_set_settings`) are
scripts: the fields they set, each in a critical section of its own, and the
events they fire in between, in the order of the code; `pending` is what the
hook in progress has yet to do. `Begin`, `AskStats`, `AskKits`, `Answer` and
`End` are a handler on any thread, under `_cs`, which tests `_sci` or `_mi` and
uses it. `Tick` is `sider_copy_clock_hk` in `util.asm`, which takes no lock.

External assumptions, in `AtMenu`, `Selected` and `Play`: the game calls the
hooks of a match from one thread, one after the other; it sets the home team
first, and the stadium and settings after the teams; the clock runs only
during a match. `edit_mode_team` goes with `edit`. The trophy table, the ball
and the values modules return are left out.

`Period` is the period `get_stats` works out (1774-1797), and `KitInfo` the
words and bits of a kit's configuration in both directions, as tables of the
places the code writes and reads. Both are checked by assumptions of
`MCMatchContext`: the period for every minute, and that setting each field, in
an empty and in a full kit, to small, large, too large and negative values,
changes that field only. Bit arithmetic is division and remainder, which for
negative numbers agrees with two's complement.

### StartUp, Kmp

`Load` is the constructor of `hook_cache_t`; `LookAtHints` a section of the
first loop (7459-7511); `SearchSection` one of the second with `_install_func`;
`Hook` is `hook_if_all_found` and the opening of the file by `save()`, which
empties it; `SaveEntry` writes one address, so that a stop leaves a short file.
The loop over patterns within a section is `Finders`: for each place the first
pattern that finds something. Between starts the game may be updated, moved, or
`sider.ini` edited (`Change`). `CannotWrite` is a save that a full disk cuts
short, which nobody looks at: a beginning of it stays in the file. The file
never has more entries than the table it is read into, whose bound `Load` does
not test (922), because only `save()` writes it; a file that something else has
made longer is outside the model. The search itself is `kmp_search` as `Kmp`
translates it, with recursive functions for its loops. `KmpIsRight` in
`MCStartUp` compares it with the definition of the earliest match for all
patterns of up to four and texts of up to seven letters over two letters;
`KmpSearchIsRight` proves it for all. `UniquePatterns`: a release has one of the
variations of a pattern, in one place, which is what patterns are chosen for.
`VariationsAgree`: a variation of a pattern that has another variation finds
the same place, as in the table of the code (7292, 7306, 7411, 7443).

### Patcher

One step is one byte verified or written, or one decision. `WriteFails` is an
`fwrite` that reports an error, `WriteIsLost` one that filled the C library's
buffer, whose flush nobody looks at; `Stop` ends the process anywhere, `Update`
replaces the executable between runs. The assumptions on patches are what
`cmp -l` gives for two files and that a patch can be told from the others by
some byte. An unpatching that is interrupted is completed as a patch by the
next run: verification accepts any mixture, and only a file with all bytes new
is offered to be unpatched.

## Runs

| run | asks | bounds |
|---|---|---|
| `audio_one` | types, `NoUseAfterFree`, `ImplementsLifecycle`, and under fairness `FinishedIsReleased`, `EveryCallReturns`, `PlaysOut` | one sound, one buffer of samples, fades of up to two buffers |
| `audio_two` | `TrackedOnce`, `EnoughTracked` | a Lua sound and a toggle sound |
| `audio_done` | what the documentation says of when_done: violated | as `audio_one` |
| `cache_ring` | `ImplementsRecent`; the types of the cache are checked in `livecpk_race` and proved | four slots, two keys, time to 2 |
| `livecpk_race` | types, `StaleNoLongerThanTtl`, `OneFilePerRequest` | two loaders, a cache of one slot, two modules, two roots, one change of context or disk, time to 2 |
| `host_stack` | types, `Anchored`, `EndOnlyIfNone`, and under fairness `EditedIsLoaded` | two modules, one edit and one older file each, one game thread and Present, one leftover, one double pop |
| `overlay_switch` | types, `OneShown`, `BlockIsOwned`, `PointerStays` | three modules, two devices |
| `pad_chord` | types, `ChordNeverSwitches`, and under fairness `SettlesOnOne`, `FoundAgain` | two of four users, two buttons, two failures, rests of two polls |
| `input_hooks` | types, `NeverNull`, `RightOriginal` | two vtables, five devices, two threads |
| `match` | types, `NeverNull`, `OneMatch`, `StatsAreCurrent`, `SeesTheMatch`; `PeriodIsPlayed`, `KitFieldsAreApart` | two matches, three threads |
| `patcher_stops` | types, `OneVersion`, `ReportedIsTrue`, and under fairness `Repairs` | three releases, two patches of three bytes, three faults |
| `startup_cache` | types, `RealCode`, `CacheNeverDecides`, `SearchedOnce`; `KmpIsRight` | four releases, five patterns, two configurations, two stops |

Why the bounds are enough. The actors of the audio library meet on one sound at
a time, so one sound shows every race; the second is there for what sounds
share, the deque and the lock. Two loaders and a cache of a single slot evict
each other's answers at every point of a request, and one change suffices for
every stored answer to be out of date; `Ttl` is one tick, and time to 2 lets an
entry be made, be current, and expire. The ring of four wraps and is scanned
over its end; the proof covers every size. Two modules show a reload with a
module before and after it, and a pointer that advances and one that goes
round; one game thread is enough beside Present, because a call is one step
under `_cs`, and the proofs are for any number. With three modules a switch has a next module that is not also the
previous one, and can skip one. Two users of XInput, neither of them the first,
take turns if any do; limits of two let a kind fail, rest, and fail again at
once. Two matches after each other show everything that can be left over. Two
patches that agree with each other's release in their first byte need the later
bytes to be told apart, and three faults let a file be damaged while it is
patched, unpatched and repaired. A cache is made by one start, spoilt by a stop
in another, and met by a changed game in a third.

The bounds appear in guards, under their names: `MaxFrames`, `MaxFade`;
`MaxTime`, `MaxChanges`; `MaxEdits`, `MaxLeft`, `MaxPops`; `MaxFaults`;
`MaxStops`. `cache_ring` bounds the clock by the constraint `Clock`. The other
models are finite by themselves. `host_stack` does not check deadlock: once the
bounds on edits, older files and leftovers are used up and no module is active,
the model has no step left, while the program waits for an event that will not come.

### Fairness

`Audio!FairSpec`: threads that run are not stopped, so every step of a call or
of `check()` that stays possible is taken. Steps that take `_cs`, and
`ma_device_stop`, which waits for `data_callback`, are enabled again and again
rather than continuously; the operating system's locks and events wake their
waiters in turn, hence strong fairness: one condition for the calls of each
thread and one for `check()`, of the step they are at. The device's thread is
fair while its device runs. Nothing makes a Lua module call anything, Lua collect anything
or a device get lost. `PlaysOut` therefore assumes that the modules leave their
sounds alone from some moment on (`<>[]Quiet`): a module that calls `play` and
`pause` for ever keeps a sound for ever.

`LuaHost!FairSpec`: loading goes on, and the Present thread, which draws the
frames, keeps running; it competes with the game's threads for `_cs`, hence
strong fairness of `Reload`. Nobody need press the key or edit a file.

`ControllerPoll!Spec`: the thread goes on polling; weak fairness of `Poll`
only, which is always possible. Nobody need press or plug in anything, and
`SettlesOnOne` starts where controllers are no longer plugged in or out.

`Patcher!FairSpec`: a patcher that runs goes on (`Run`); it is not weakly fair
in a fault, a start or pressing Enter, and `Repairs` is about runs after the
last fault.

## What the checks show

The properties that hold say that the tear-down order in `check()` and the
objects table keep the device's thread off closed decoders and freed memory;
that the tracker is consistent although its size and its elements are read in
different critical sections; that `ma_device_stop` under `_cs` cannot deadlock;
that an answer of the cache is wrong for at most its time to live after the
last change, counted from the last loader that was resolving across it; that
when nothing changed lately the size and all parts of a file come from the same
path even when the cache forgets between calls; that positions on the Lua stack
survive skipped scripts, cancelled reloads and leaked errors; and that one
cancelled reload does not keep the rest of the pass from happening.

Further, that the unlocked readers of the overlay's pointer are safe because it
never returns to `end()`; that letting go of the toggle chord does not switch
modules, however the buttons come up; that a hook on a vtable never calls
nothing or another hook; that a match's context, but for the stadium and the time of day, and its
scoreboard are of one match at every moment, also between two fields and while
the clock writes; that the handlers of its events find all of it that the hooks
have been told by then;
that the start-up cache is only a hint, and the patcher never mixes releases
and repairs what it left half-way.

The violation:

* `audio_done`: `audio_play` tracks a sound only when it is `created` (250-253);
  one that was paused before it was first played is never tracked, so neither
  its `when_done` callback runs nor is its device released.

The models also reproduce the following. Where documentation is named, the code
does otherwise than it says; no property demands either, and a property that
comes near leaves the case out, as said with it:

* `audio_pause` stops only a sound that is `playing` (271-281): called when a
  fade to a pause has just ended it leaves the device running.
* `fade_in_samples -= frameCount` (168) after an unlocked comparison wraps when
  a second `fade_to` stores a smaller count in between.
* LiveCPK's cache is keyed by the file name, not by the key a module returns
  (scripting.html:442-443), so a changed context keeps the old file until the
  entry expires.
* A number returned by a `set_stadium` handler is popped twice (2275, 2278).
* A handler found outside `_cs` may be gone when it is called (2154).
* `input.set_blocked(val, hard)` takes `val` for both (6219-6231), and the
  controller does not obey a hard block, against scripting.html:1055-1062.
* A reload that moves the overlay's pointer neither shows nor hides, and leaves
  the block of the module before it.
* Users of XInput may take turns while controllers come and go (3750, 3898).
* A second keyboard on another vtable replaces the remembered original (4177).
* If a keyboard's or controller's vtable cannot be written, the remembered
  original has been replaced all the same (4184).
* One previous state serves all users of XInput (3882): a change of controller
  in the middle of a chord is read as a release.
* An optional pattern whose hint alone is out of date is not searched for when
  the hints give all that is required (7513).
* Until the away team is selected, `_mi` and `_tournament_id` are those of the
  match before (5151), and the edit mode's last team is remembered over a reset
  of the context (5520).
* `ctx.stadium` and `ctx.timeofday` are cleared when the home team is selected
  (5152, 330-337), against scripting.html:217-220 and 239-243, where they keep
  the last match's values until the next stadium is set. `OneMatch` leaves them
  out (`KeptFields`).
* `ctx.stadium_choice` is not removed after `set_stadium` (5246 is commented
  out), against scripting.html:223-229. `SeesTheMatch` asks for it only up to
  `set_stadium` (`BeforeTheStadium`).
* `ctx.match_time` (scripting.html:262) is never set: 5159 and 5203 are
  commented out. It is no field of the model.

## What is proved

For all values of the constants, under the assumptions named in the modules:

* `AudioProofs`: `TypeCorrect`, `MemorySafe`, `TrackerIntegrity`,
  `NeverPopsEmpty`, and `Refinement`: `Audio` implements `AudioLifecycle`.
  The inductive invariant `IInv` joins `TypeOK` with five parts. `LockInv`: who
  owns `_cs` is who is inside a locked call. `ManagerInv`: where `check()` is
  determines what it holds and how many iterations it may still make.
  `ResourceInv`: device, decoder and anchor go in the order of the tear-down.
  `QueueInv`: the deque has no duplicates, nothing freed, and none that a first
  play in progress is about to add. `CallInv`: a call is about a sound that
  exists. None of the properties is inductive without the others: that a sound
  is tracked once needs to know that only one thread can be in its first play,
  which needs the lock. One lemma takes each part through all the actions; the
  refinement splits the steps into those that leave `phase` alone and the five
  that move it.
* `LiveCpkProofs`: `CacheTypeCorrect` and `CacheRefinement`, that
  `Cache2Clients` implements `CacheRecent` for every size and time to live.
  `BackIsASlot` and `PutShifts` say that a put moves every entry one place
  further back; `NewestMatch` that a lookup names the newest.
  Of `LiveCpk`: `LiveCpkTypeCorrect`, `StalenessIsBounded`, `OneFileServed`, for
  any number of loaders, modules and roots. That staleness is bounded needs to
  be known of the loaders, not only of the cache: `ResolveInv` says of each
  loader that no change has overtaken what its loops have established so far,
  that the modules and roots it has passed do not have the file; `CacheInv` that
  an entry which expires later than an entry made at `settledAt` is right, and
  that none lives longer than `Ttl`. That one file is served needs also `NamesInv`, that names in the cache
  are names that are not rewritten any more, and `RequestInv`, which follows an
  undisturbed request from call to call: the name in the game's buffer is the
  real one, and each path found so far is its file. Only `OneFileServed`
  rests on `RewrittenOnce`.
* `LuaHostProofs`: `HostTypeCorrect`, `Anchoring` and `OverlayReachable`, for
  any number of modules, threads and edits. The inductive invariant adds
  `Pending`: a module still to be loaded is not active. The heart of it is in
  `TakeNewIInv`: two active modules cannot share a position because their
  tables differ.
* `PatcherProofs`: `PatcherTypeCorrect`, `NeverMixed`, `Truthful`. In the
  inductive invariant `Progress` says what verification has established so far,
  that the bytes before `k` are old or new, and all new if `already`;
  `Recognised`, that what is written belongs to a patch all of whose bytes were
  verified, which `PatchesDiffer` makes that of the release; `Untold`, that
  nothing is reported before the end.
* `StartUpProofs`: `KmpSearchIsRight`, `StartUpTypeCorrect`, `HooksRealCode`,
  `CacheIsAHint`, `WarmStartsDoNotSearch`.
  The search is right because of three facts about the ends of a text that are
  beginnings of the pattern (`Ends`): of two of them the shorter is an end of the
  longer (`EndOfEnd`), so falling back through the table passes all of them,
  longest first (`FallBackIsRight`); one longer by an element is one that the
  element extends (`EndGrows`), so what is kept is always the longest
  (`ExtendedIsRight`); and the table is that search run on the pattern itself
  (`LspIsRight`). Each recursive function is shown to exist by a witness that
  satisfies its equation, and to be right by `EachFromTheSmaller`, induction
  in the form that what is not in a set of numbers would have a least element.
  What is found is always real because a hint is compared before it is believed
  (`RealCode`); that giving up is never the cache's doing needs `SearchedInv`:
  what is still missing is in none of the sections searched so far, which is
  where `KmpSearchIsRight` is used. That a warm start does not search needs
  what a saved cache says (`WarmInv`): every place that is found has a pattern
  whose hint, as `save()` would write it, finds it again (`BackedInv`), also
  after a later find has cleared the hints it outdates (`VariationsAgree`), so
  what was written suffices for the game and the configuration of that start
  (`SavedInv`).
* `OverlayProofs`: `OverlayTypeCorrect`, `PointerNeverEnds`, `ShownInTurn`,
  `BlockedInTurn`. That a thread past the test of the
  pointer reads a module (`Pointing`) is what `PointerStays` is for, and types
  are not inductive without it. The invariant follows an undisturbed device step
  by step (`Undisturbed`): which module is shown while it is between hide and
  show.
* `InputProofs`: `PollTypeCorrect`, `ChordIsOneCommand`: as long as something of
  a chord is held, the flag of the sequence is set (`Releasing`).
  `HooksTypeCorrect`, `ReadsFindAFunction`, `ReadsFindTheirOriginal`, for any
  number of vtables, devices and threads. A hook in a vtable has an original
  (`Entries`), which the order of the two writes gives, also between them
  (`HalfHooked`), and a thread inside a hook came through a vtable the hook was
  meant for (`Calling`); while that is one vtable for each hook, originals and
  calls are of that one (`Rightly`; `Counted` is for the cardinality in the
  property).
* `MatchContextProofs`: `MatchTypeCorrect`, `HandlersAreSafe`,
  `ContextIsOfOneMatch`, `ScoreIsOfTheMatch`, `HandlersSeeTheMatch`. The
  invariant joins the first four with `Busy`: while a hook has something left to
  do, and while the clock runs, there is a match, so what either of them stores
  is of that match. What a handler sees needs `ToldInv`: a hook is some steps
  into its script and the fields of those steps are set (`InHook`); once the away
  team is known and no hook runs, all that the teams' script sets is
  (`BetweenHooks`); and a handler on the game's thread runs exactly when the
  script is at an event (`AtEvent`).

Only model-checked: liveness, because fairness and `ENABLED` are beyond the
prover (`FinishedIsReleased`, `EveryCallReturns`, `PlaysOut`, `EditedIsLoaded`,
`SettlesOnOne`, `FoundAgain`, `Repairs`), and the assumptions of
`MCMatchContext`: that the fields of a kit do not touch each other, which is a
fold over tables of bits with powers of two, and the period of each minute.

## Not modelled

* Drawing (`imageutil.cpp`, Direct3D) and the log: output.
* Assembly trampolines (`util.asm` except the clock's store, `regs.cpp`) and
  the bytes hooks write: below the level of a TLA+ model.
* Save-folder redirection (4654-4802): five copies of one pure rewriting of a
  path. Files of one base name from two folders become one; whether the game
  has such files is not in the sources.
* `DllMain`, the window hook and the messages of `main.cpp`: what is hard about
  them, the loader lock and the message queue, is the operating system's.
* `libz.cpp`, `memlib.cpp` except the search, `fslib.cpp`, `fs.lua`,
  `memory.lua`: wrappers without state.
* The reading of `sider.ini` and of patch files, whose results the models take
  as constants with assumptions.
* Of the match: the trophy table, the ball's and the stadium's names, replays,
  and what modules answer; of kits: colours, texture names, and where the game
  keeps a team's kits.
* Registration of handlers after `init()`, which lands in the module loaded last
  (6265), and events before the modules are loaded (7534).
* How the reading of text and of Lua's values fails: a patch file with a line
  that `fscanf` cannot read (patcher.cpp:30) or without any (101), a badge field
  that is a string (kitinfo.cpp:455); `module_set_kits` without a match (2589).
* The keys of the reload chord (8175): a request for a reload comes at any time.
* What a handler of `set_stadium_choice` answers, which makes the game's next
  choice a new one (5399), and what the game finds in a controller's state that
  a blocked read did not fill (4308).
* The vendored libraries (LuaJIT, zlib, miniaudio, DirectXTK, utf8), which are
  most of the lines under `src/`; of them only the start and stop of a
  miniaudio device appear.

What would be gained next: that two fields of a kit do not share bits, proved
for words of every content; and the look-up of a team's kits (5452-6210), if
the structures of the game it walks were described.
