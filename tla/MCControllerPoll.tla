---------------------------- MODULE MCControllerPoll ----------------------------
(* ControllerPoll with two of XInput's four users, neither of them the first, *)
(* the default buttons, and short rests.                                      *)
EXTENDS ControllerPoll

MCUsers == {1, 2}
=============================================================================
