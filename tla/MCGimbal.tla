------------------------------ MODULE MCGimbal ------------------------------
(***************************************************************************)
(* Small instances of Gimbal.  One time unit is one turn of the motor      *)
(* loop; thresholds keep the order they have in app_config.h.  Angles are  *)
(* small integers: the hard range of both axes is 0..12, home is 6.        *)
(***************************************************************************)
EXTENDS Gimbal, TLC

Both(x) == [a \in Axis |-> x]

MCHardMin == Both(0)
MCHardMax == Both(12)
MCCtlMin == Both(1)
MCCtlMax == Both(11)
MCCenter == Both(6)

\* At home; near the far end of the slider; outside the hard range.
WideFeedback == Yaw :> {6, 10} @@ Pitch :> {6, 14}
\* Yaw off home, and further off than centering tolerates.
SwayFeedback == Yaw :> {6, 8, 11} @@ Pitch :> {6}
\* At home, or yaw outside the hard range.
EdgeFeedback == Yaw :> {6, 14} @@ Pitch :> {6}
\* Inside the hard range, at home or not.
LiveFeedback == Yaw :> {6, 10} @@ Pitch :> {6}

FarSlider == Yaw :> {10} @@ Pitch :> {}
=============================================================================
