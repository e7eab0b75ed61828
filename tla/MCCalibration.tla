---------------------------- MODULE MCCalibration ----------------------------
(***************************************************************************)
(* A small instance of Calibration: an encoder of 32 counts, a yaw axis    *)
(* whose travel is 27 of them and 14 degrees, and a short pitch axis.      *)
(***************************************************************************)
EXTENDS Calibration, TLC

MCFull == Yaw :> 27 @@ Pitch :> 5
MCTravel == Yaw :> 14 @@ Pitch :> 5

MCHand == Yaw :> {0, 12, 21, 27} @@ Pitch :> {0}
MCHandAt == [i \in Points |->
    CASE i = 0 -> {0} [] i = 1 -> {12, 21} [] i = 2 -> {27} [] OTHER -> {0}]

\* The path of yaw runs upwards and downwards through the encoder's zero.
MCMounting ==
    LET up == [zero |-> 20, direction |-> 1]
        down == [zero |-> 9, direction |-> -1]
    IN  Yaw :> {up, down} @@ Pitch :> {down}
\* A word that is no count of the encoder; wrong places of it come from old readings.
MCGarbage == {45}
MCUnreliable == {Yaw}

\* Nobody touches the axes.
StillHand == [a \in Axis |-> {0}]
StillHandAt == [i \in Points |-> {0}]
=============================================================================
