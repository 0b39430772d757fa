----------------------------- MODULE ControllerPoll -----------------------------
(***************************************************************************)
(* The thread that polls the game controllers (direct_input_poll): the     *)
(* first of the XInput users that answers, or else the DirectInput device; *)
(* and what the buttons' changes between two polls mean: a chord toggles   *)
(* the overlay, a release switches its module.  Overlay.tla has what       *)
(* toggling and switching do.                                              *)
(***************************************************************************)
EXTENDS Integers, FiniteSetsExt

CONSTANTS
  Slots,                   \* XInput has users 0 .. Slots - 1
  Users,                   \* those that may have a controller
  DInput,                  \* the DirectInput device
  NoSource,
  Buttons,                 \* those of the controllers that mean something
  Toggle1, Toggle2,        \* the chord
  NextModule, PrevModule,  \* may be buttons of the chord: by default they are
  MaxFails,                \* failures in a row before a kind is let rest
  Skips                    \* for so many polls

Sources == Users \cup {DInput}
Chord == {Toggle1, Toggle2}

ASSUME PollAssumption ==
  /\ Slots \in Nat \ {0} /\ Users \subseteq 0..(Slots - 1)
  /\ DInput \notin Users /\ NoSource \notin Sources
  /\ Chord \cup {NextModule, PrevModule} \subseteq Buttons
  /\ MaxFails \in Nat \ {0} /\ Skips \in Nat

VARIABLES
  connected,    \* the sources that answer
  on,           \* _overlay_on
  phase,        \* which kind the thread polls next
  lastGood,     \* last_good_xi
  fails, skips, \* xi_fail_count and di_fail_count, xi_skip_count and di_skip_count
  prev,         \* _prev_xi_state, for all users, and _prev_controller_buttons
  sequence,     \* _toggle_sequence_on
  command,      \* what the last step made of the buttons it read
  reader,       \* the source it read
  chord, owner  \* history: what is still held of a source's last chord

counters == <<fails, skips>>
buttons == <<prev, sequence, chord, owner>>
vars == <<connected, on, phase, lastGood, counters, buttons, command, reader>>

Kinds == {"xinput", "dinput"}
Commands == {"none", "toggle", "next", "prev"}

Init ==
  /\ connected \in SUBSET Sources
  /\ on \in BOOLEAN
  /\ phase = "xinput" /\ lastGood = 0
  /\ fails = [x \in Kinds |-> 0] /\ skips = [x \in Kinds |-> 0]
  /\ prev = [x \in Kinds |-> {}] /\ sequence = FALSE
  /\ command = "none" /\ reader = NoSource
  /\ chord = {} /\ owner = NoSource
-----------------------------------------------------------------------------
(* What the buttons mean, held before and held now.                        *)

Released(b, was, now) == b \in was /\ b \notin now

Completed(was, now) == Chord \subseteq now /\ ~(Chord \subseteq was)

(* Only while no chord is being released, and the overlay is on.  The      *)
(* other release is not looked at if the first is there.                   *)
Switched(was, now) ==
  IF sequence \/ ~on THEN "none"
  ELSE IF Released(NextModule, was, now) THEN "next"
  ELSE IF Released(PrevModule, was, now) THEN "prev"
  ELSE "none"

Meaning(was, now) ==
  IF Completed(was, now) THEN "toggle" ELSE Switched(was, now)

\* Mutant of StillReleasing: the first button to come up ends the chord.
StillHeld(now) == sequence /\ Chord \subseteq now

StillReleasing(now) == sequence /\ Chord \cap now # {}

StillOf(s) == IF s = owner THEN chord ELSE {}

RememberChord(s, held) ==
  /\ chord' = held
  /\ owner' = IF held = {} THEN NoSource ELSE s

Understand(s, kind, now) ==
  LET c == Meaning(prev[kind], now)
  IN /\ command' = c
     /\ reader' = s
     /\ prev' = [prev EXCEPT ![kind] = now]
     /\ on' = IF c = "toggle" THEN ~on ELSE on
     /\ sequence' = (c = "toggle" \/ StillReleasing(now))
     /\ RememberChord(s, IF c = "toggle" THEN Chord ELSE StillOf(s) \cap now)

(* The state of the controller is as it was, its other buttons and sticks  *)
(* included: XInput's is not looked at then.                               *)
NothingNew(s) ==
  /\ command' = "none"
  /\ reader' = s
  /\ RememberChord(s, StillOf(s))
  /\ UNCHANGED <<on, prev, sequence>>

NoButtons ==
  /\ command' = "none" /\ reader' = NoSource
  /\ UNCHANGED <<on, buttons>>
-----------------------------------------------------------------------------
(* When a kind of controller is polled.                                    *)

OneLess(n) == IF n > 0 THEN n - 1 ELSE n

\* Mutant of Rested: the polls that are skipped are not counted.
RestedForEver(kind, f) ==
  /\ fails' = [fails EXCEPT ![kind] = IF f >= MaxFails THEN f - 1 ELSE f]
  /\ skips' = [skips EXCEPT ![kind] = IF f >= MaxFails THEN Skips ELSE @]

\* Mutant of Rested: the failures are counted on.
RestedLess(kind, f) ==
  /\ fails' = [fails EXCEPT ![kind] = f]
  /\ skips' = [skips EXCEPT ![kind] = IF f >= MaxFails THEN Skips ELSE OneLess(@)]

(* After f failures in a row: one more poll is skipped, or many are from   *)
(* now on; after those, one failure is enough for as many again.           *)
Rested(kind, f) ==
  /\ fails' = [fails EXCEPT ![kind] = IF f >= MaxFails THEN f - 1 ELSE f]
  /\ skips' = [skips EXCEPT ![kind] = IF f >= MaxFails THEN Skips ELSE OneLess(@)]

\* The users are tried in turn, from the last good one on.
Tried(k) == (lastGood + k) % Slots

Turns == {k \in 0..(Slots - 1) : Tried(k) \in connected}

\* Mutant of Good: the next poll starts behind the user that answered.
GoodAndNext(k) == (Tried(k) + 1) % Slots

\* The turn is remembered, where the user that had it is meant.
Good(k) == k

(* A user answers: no more are tried, and the DirectInput device is not.   *)
XInput(now) ==
  /\ phase = "xinput" /\ skips["xinput"] = 0
  /\ Turns # {}
  /\ LET k == Min(Turns)
     IN /\ lastGood' = Good(k)
        /\ \/ Understand(Tried(k), "xinput", now)
           \/ now = prev["xinput"] /\ NothingNew(Tried(k))
  /\ Rested("xinput", 0)
  /\ UNCHANGED <<connected, phase>>

XInputFails ==
  /\ phase = "xinput" /\ skips["xinput"] = 0
  /\ Turns = {}
  /\ Rested("xinput", fails["xinput"] + 1)
  /\ phase' = "dinput"
  /\ NoButtons
  /\ UNCHANGED <<connected, lastGood>>

DirectInput(now) ==
  /\ phase = "dinput" /\ skips["dinput"] = 0
  /\ DInput \in connected
  /\ Understand(DInput, "dinput", now)
  /\ Rested("dinput", 0)
  /\ phase' = "xinput"
  /\ UNCHANGED <<connected, lastGood>>

DirectInputFails ==
  /\ phase = "dinput" /\ skips["dinput"] = 0
  /\ DInput \notin connected
  /\ Rested("dinput", fails["dinput"] + 1)
  /\ phase' = "xinput"
  /\ NoButtons
  /\ UNCHANGED <<connected, lastGood>>

Skip(kind) ==
  /\ phase = kind /\ skips[kind] > 0
  /\ Rested(kind, fails[kind])
  /\ phase' = IF kind = "xinput" THEN "dinput" ELSE "xinput"
  /\ NoButtons
  /\ UNCHANGED <<connected, lastGood>>

Poll ==
  \/ \E now \in SUBSET Buttons : XInput(now) \/ DirectInput(now)
  \/ XInputFails \/ DirectInputFails
  \/ \E kind \in Kinds : Skip(kind)

\* A controller is plugged in or out.
Plug(s) ==
  /\ connected' \in {connected \cup {s}, connected \ {s}}
  /\ command' = "none"
  /\ UNCHANGED <<on, phase, lastGood, counters, buttons, reader>>

\* The keyboard's thread.
KeyboardToggles ==
  /\ on' = ~on
  /\ command' = "none"
  /\ UNCHANGED <<connected, phase, lastGood, counters, buttons, reader>>

Next == Poll \/ KeyboardToggles \/ \E s \in Sources : Plug(s)

(* The thread has the lowest priority, but the system lets it run in the   *)
(* end.                                                                    *)
Spec == Init /\ [][Next]_vars /\ WF_vars(Poll)
-----------------------------------------------------------------------------
(* Types: above all, a kind that rests is one that has failed often, and   *)
(* the counter of its failures stays below the limit between the polls.    *)
TypeOK ==
  /\ connected \subseteq Sources
  /\ on \in BOOLEAN /\ phase \in Kinds
  /\ lastGood \in 0..(Slots - 1)
  /\ fails \in [Kinds -> 0..(MaxFails - 1)]
  /\ skips \in [Kinds -> 0..Skips]
  /\ \A kind \in Kinds : skips[kind] > 0 => fails[kind] = MaxFails - 1
  /\ prev \in [Kinds -> SUBSET Buttons] /\ sequence \in BOOLEAN
  /\ command \in Commands /\ reader \in Sources \cup {NoSource}
  /\ chord \subseteq Chord /\ owner \in Sources \cup {NoSource}

(* The buttons of the chord are, by default, those that switch modules     *)
(* when they are released (1046-1049).  Letting go of a chord does not     *)
(* switch, in whatever order and in however many polls, with other buttons *)
(* in between and the keyboard toggling too, unless another controller is  *)
(* read meanwhile (3839-3865).                                             *)
ChordNeverSwitches ==
  [][/\ command' = "next" => NextModule \notin StillOf(reader')
     /\ command' = "prev" => PrevModule \notin StillOf(reader')]_vars

(* "Start with the last one that was successfully queried" (3750): when no *)
(* controller is plugged in or out any more, the users do not take turns.  *)
(* (They may before, as it is the turn that is remembered.)                *)
SettlesOnOne ==
  <>[][connected' = connected]_vars =>
    <>[][(reader \in Users /\ reader' \in Users) => reader' = reader]_vars

(* A controller is found again, however long its kind has been resting.    *)
FoundAgain ==
  /\ connected \cap Users # {} ~> (reader \in Users \/ connected \cap Users = {})
  /\ connected = {DInput} ~> (reader = DInput \/ connected # {DInput})
=============================================================================
