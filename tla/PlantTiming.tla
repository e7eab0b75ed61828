------------------------------ MODULE PlantTiming ------------------------------
(***************************************************************************)
(* How the time constants of gimbal.c have to fit together, and fit the    *)
(* axes, for its guards to give no false alarm.  app_config.h states no    *)
(* such relation.  Its values satisfy these for a motor loop whose turns   *)
(* take up to 49 ms (it sleeps for 10) and axes that make 9 degrees a      *)
(* second (they are sent home at 30).                                      *)
(***************************************************************************)
EXTENDS GimbalPlant

CONSTANT Jitter     \* the longest turn of the motor loop

\* When one axis has just been asked, the other was asked at most this long ago.
Lag == QueryGap + Jitter

\* Every turn is shorter than a control period, and the ages that the thresholds
\* of app_config.h tolerate have room for a poll and four turns.
TurnsAreShort ==
    /\ Jitter \in Nat /\ \A d \in Elapse : d <= Jitter
    /\ Jitter < ControlPeriod /\ 0 < QueryGap
    /\ Lag + Jitter <= StartMaxAge
    /\ FeedbackPoll + Lag + 3 * Jitter <= FeedbackStale

\* What is left of the centering timeout when the command and the polls have had
\* their time.
TravelTime ==
    CenterTimeout - (ControlPeriod + FeedbackPoll + Lag + 4 * Jitter)

\* The axes are fast enough to be home by then, wherever they start.
HomeIsNear ==
    /\ 0 <= TravelTime
    /\ \A a \in Axis : \A x \in HardMin[a] .. HardMax[a] :
           Abs(x - Center[a]) <= CenterTol + Speed * TravelTime
=============================================================================
