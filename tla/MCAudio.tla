------------------------------- MODULE MCAudio -------------------------------
(***************************************************************************)
(* Instances of Audio for TLC.  One sound shows every race between a call, *)
(* the manager and the device's thread, because the actors meet only on    *)
(* one sound at a time; two sounds, one of them the toggle sound that is   *)
(* played outside _cs, show the deque and the lock being shared.           *)
(***************************************************************************)
EXTENDS Audio
=============================================================================
