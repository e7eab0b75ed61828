------------------------------- MODULE MCPlant -------------------------------
(***************************************************************************)
(* Small instances of GimbalPlant: the thresholds keep the order and the   *)
(* rough proportions of app_config.h, and fit together as PlantTiming      *)
(* asks.  An axis covers several degrees between two polls, as it does at  *)
(* 90 degrees a second.                                                    *)
(***************************************************************************)
EXTENDS PlantTiming, TLC

ASSUME TimesFit == TurnsAreShort /\ HomeIsNear

Both(x) == [a \in Axis |-> x]

MCHardMin == Both(0)
MCHardMax == Both(12)
MCCtlMin == Both(1)
MCCtlMax == Both(11)
MCCenter == Both(6)
NoFeedback == Both({})

MCParked == Yaw :> {2} @@ Pitch :> {8}
MCSlider == Yaw :> {3, 11} @@ Pitch :> {}
DragSlider == Yaw :> {8, 11} @@ Pitch :> {}
=============================================================================
