---------------------------- MODULE MCHidEngine ----------------------------
(* One keystroke stands for the command; the delays keep the order of the     *)
(* offsets in the code, in units of a few ticks.                              *)
EXTENDS HidEngine

OneKey == << [modifier |-> 0, keycode |-> 22] >>
=============================================================================
