----------------------------- MODULE GimbalModes -----------------------------
(***************************************************************************)
(* What the gimbal controller promises, whatever its timers, buses and     *)
(* interrupts do: the modes of enum gimbal_state, who may leave each of    *)
(* them, and that nothing is armed or commanded unless both axes are       *)
(* supervised.  Gimbal implements this specification.                      *)
(***************************************************************************)
CONSTANT Axis

VARIABLES
    mode,           \* the controller's mode
    asked,          \* a START or CALIBRATE request is waiting
    supervised,     \* both axes have recent feedback inside their range
    pending         \* axes with an accepted target not yet commanded

vars == <<mode, asked, supervised, pending>>

Armed == {"CENTERING", "READY"}

Init ==
    /\ mode \in {"BOOT", "FAULT"}
    /\ asked = FALSE /\ supervised = FALSE /\ pending = Axis

\* The user asks; feedback comes and goes.
Ask == asked' = TRUE /\ UNCHANGED <<mode, supervised, pending>>
Sense == supervised' \in BOOLEAN /\ UNCHANGED <<mode, asked, pending>>

\* A request forgets what was known.  It starts a check, the only way out of
\* FAULT, or is turned down and changes no mode.
Answer ==
    /\ asked /\ asked' = FALSE
    /\ mode' \in {mode, "WAITING"}
    /\ supervised' = FALSE /\ pending' = Axis

Arm ==
    /\ mode = "WAITING" /\ supervised /\ ~asked
    /\ mode' = "CENTERING" /\ pending' = Axis
    /\ UNCHANGED <<asked, supervised>>

Command ==
    /\ mode \in Armed /\ supervised /\ ~asked
    /\ pending' = {}
    /\ UNCHANGED <<mode, asked, supervised>>

Arrive ==
    /\ mode = "CENTERING" /\ supervised /\ ~asked
    /\ mode' = "READY" /\ pending' = {}
    /\ UNCHANGED <<asked, supervised>>

Retarget(a) ==
    /\ mode = "READY"
    /\ pending' = pending \cup {a}
    /\ UNCHANGED <<mode, asked, supervised>>

Fail == mode' = "FAULT" /\ UNCHANGED <<asked, supervised, pending>>

Restart ==
    /\ mode' \in {"BOOT", "FAULT"}
    /\ asked' = FALSE /\ supervised' = FALSE /\ pending' = Axis

Next ==
    \/ Ask \/ Sense \/ Answer \/ Arm \/ Command \/ Arrive \/ Fail \/ Restart
    \/ \E a \in Axis : Retarget(a)

Spec == Init /\ [][Next]_vars
=============================================================================
