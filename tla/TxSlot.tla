------------------------------- MODULE TxSlot -------------------------------
(***************************************************************************)
(* What send_frame and tx_complete of lkm_motor.c promise: each motor has  *)
(* at most one frame outstanding, and one is accepted only when there is   *)
(* none.  LkmTransport shows that the code keeps the promise whenever the  *)
(* interrupt runs, and Gimbal, which sends in single steps, keeps it too.  *)
(***************************************************************************)
CONSTANTS Motor, Frame, Empty

VARIABLE slot       \* the outstanding frame of each motor, if there is one

Init == slot = [m \in Motor |-> Empty]

Accept(m) == slot[m] = Empty /\ slot'[m] \in Frame

\* The frame was received, or given up, or the controller was reset.
Clear(m) == slot'[m] = Empty

\* Several motors may be served in one step.
Next ==
    /\ slot' \in [Motor -> Frame \cup {Empty}]
    /\ \A m \in Motor : slot'[m] = slot[m] \/ Accept(m) \/ Clear(m)

Spec == Init /\ [][Next]_slot
=============================================================================
