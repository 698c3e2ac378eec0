------------------------------- MODULE MCClock -------------------------------
(***************************************************************************)
(* Values for TLC: a counter of 8 values, speeds in quarters of the normal *)
(* one, from a standing clock to the double and an odd one in between.     *)
(***************************************************************************)
EXTENDS TimerClock

AllSpeeds == {0, 2, 4, 7, 8}
AllStarts == {0, 6}
=============================================================================
