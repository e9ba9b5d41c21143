------------------------------ MODULE FrameSlot ------------------------------
(***************************************************************************)
(* What the frame pipeline promises: a place for one frame.  A frame that  *)
(* is taken is newer than every frame announced before; it is announced,   *)
(* then the place is free again.  A frame may get lost instead, and with   *)
(* it the place: nothing ever frees it.  FramePipeline implements this.    *)
(***************************************************************************)
EXTENDS Naturals

CONSTANT Frames   \* the frames' numbers, 1 and up in the order of the camera

VARIABLES
  place,    \* "free", "taken" or "stuck"
  current,  \* the frame that has the place, 0 if none has
  shown     \* the frame that was announced last, 0 if none was

vars == <<place, current, shown>>

Init == place = "free" /\ current = 0 /\ shown = 0

Take ==
  /\ place = "free"
  /\ place' = "taken"
  /\ \E f \in Frames : f > shown /\ current' = f
  /\ UNCHANGED shown

Announce ==
  /\ place = "taken" /\ shown # current
  /\ shown' = current
  /\ UNCHANGED <<place, current>>

Release ==
  /\ place = "taken" /\ shown = current
  /\ place' = "free"
  /\ current' = 0
  /\ UNCHANGED shown

(* Only a frame that was not announced can be lost.                        *)
Lose ==
  /\ place = "taken" /\ shown # current
  /\ place' = "stuck"
  /\ current' = 0
  /\ UNCHANGED shown

Next == Take \/ Announce \/ Release \/ Lose

(* No frame keeps the place for ever.                                      *)
Progress == place = "taken" ~> place # "taken"

Safety == Init /\ [][Next]_vars
Spec == Safety /\ Progress

=============================================================================
