------------------------------- MODULE MCFrame ------------------------------
(***************************************************************************)
(* Exposures 0 .. 4, the rates 0, 1 and 2 (limits: none, 3 and 1), a gain  *)
(* that is raised up to 1, a scene that is black, darker or brighter than  *)
(* the target, and a stored target outside 0 .. 3.                         *)
(***************************************************************************)
EXTENDS FrameLoop

MCHostValues == [exposure |-> {4}, fps |-> {0, 2}, luma |-> {1, 3},
                 enable |-> {0, 1}]
MCStored == [exposure |-> {0, 4}, gain |-> {1}, fps |-> {2},
             target |-> {6}, enable |-> {0}]
MCGainFloor == -1
MCDefault == [exposure |-> 2, gain |-> 0, fps |-> 1, luma |-> 0, target |-> 2,
              enable |-> 1]
=============================================================================
