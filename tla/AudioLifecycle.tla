---------------------------- MODULE AudioLifecycle ----------------------------
(***************************************************************************)
(* What the audio library promises about the life of a sound object:       *)
(*                                                                         *)
(*   absent -> created -> tracked [-> notified] -> released -> collected   *)
(*                                                                         *)
(* A sound enters the tracker once and leaves it only to be released; its  *)
(* when_done callback runs at most once, while the sound still has its     *)
(* device; its memory goes only after its device and decoder have gone.    *)
(***************************************************************************)
CONSTANT Sounds

VARIABLE phase

Phase == {"absent", "created", "tracked", "notified", "released", "collected"}

Init == phase = [s \in Sounds |-> "absent"]

Move(s, from, to) ==
  /\ phase[s] \in from
  /\ phase' = [phase EXCEPT ![s] = to]

Create(s)  == Move(s, {"absent"}, "created")
Track(s)   == Move(s, {"created"}, "tracked")
Notify(s)  == Move(s, {"tracked"}, "notified")
Release(s) == Move(s, {"tracked", "notified"}, "released")
Collect(s) == Move(s, {"released"}, "collected")

Next == \E s \in Sounds :
          Create(s) \/ Track(s) \/ Notify(s) \/ Release(s) \/ Collect(s)

Spec == Init /\ [][Next]_phase
=============================================================================
