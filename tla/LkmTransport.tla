---------------------------- MODULE LkmTransport ----------------------------
(***************************************************************************)
(* Asynchronous transmission to the motors (lkm_motor.c): send_frame, run  *)
(* by the one thread that owns the motors, step by step, against the       *)
(* transmit interrupt, which may run tx_complete as soon as can_send has   *)
(* handed a frame over, even before can_send returns.  The motors share    *)
(* the transmit buffers of one CAN controller.                             *)
(*                                                                         *)
(* last_tx_error is left out: nothing but log messages depends on it.      *)
(***************************************************************************)
EXTENDS Sequences, FiniteSets, Integers

CONSTANTS
    Motor,          \* the motors on the bus
    Frame,          \* the frames that may be sent
    Buffers         \* external: transmit buffers of the CAN controller

ASSUME TransportAssumption ==
    /\ IsFiniteSet(Motor) /\ "none" \notin Frame
    /\ Buffers \in Nat /\ Cardinality(Motor) <= Buffers

VARIABLES
    pc,         \* where the thread is in send_frame
    sending,    \* the motor and the frame it is called for
    ret,        \* whether can_send accepted the frame
    pending,    \* motors whose tx_pending is set
    mailbox     \* external: frames the controller has accepted, per motor

vars == <<pc, sending, ret, pending, mailbox>>

Nothing == [motor |-> "none", frame |-> "none"]

Init ==
    /\ pc = "idle" /\ sending = Nothing /\ ret = TRUE
    /\ pending = {} /\ mailbox = [m \in Motor |-> <<>>]

\* Mutant: tx_pending is not set before can_send.
MarkNotYet(m) == UNCHANGED pending
Mark(m) == pending' = pending \cup {m}

\* send_frame begins.  With a frame outstanding it is over: -EBUSY.
Begin(m, f) ==
    /\ pc = "idle" /\ m \notin pending
    /\ Mark(m) /\ sending' = [motor |-> m, frame |-> f]
    /\ pc' = "can_send"
    /\ UNCHANGED <<ret, mailbox>>

\* Every frame accepted and not completed takes one buffer.
Outstanding == UNION {{m} \X DOMAIN mailbox[m] : m \in Motor}
Full == Cardinality(Outstanding) >= Buffers

\* can_send: the controller accepts the frame, or refuses it.
CanSend ==
    /\ pc = "can_send"
    /\ \/ /\ ~Full /\ ret' = TRUE
          /\ mailbox' = [mailbox EXCEPT ![sending.motor] = Append(@, sending.frame)]
       \/ UNCHANGED mailbox /\ ret' = FALSE
    /\ pc' = "settle"
    /\ UNCHANGED <<sending, pending>>

\* Mutant: tx_pending is set from the result, once can_send has returned.
SettleByResult(m) == pending' = IF ret THEN pending \cup {m} ELSE pending \ {m}
\* Mutant: a refused frame leaves tx_pending set.
SettleNothing(m) == UNCHANGED pending
\* Only a refusal clears tx_pending here; completion is the interrupt's.
Settle(m) == pending' = IF ret THEN pending ELSE pending \ {m}

Finish ==
    /\ pc = "settle"
    /\ Settle(sending.motor)
    /\ pc' = "idle" /\ sending' = Nothing /\ ret' = TRUE
    /\ UNCHANGED mailbox

\* The interrupt: a frame was received or given up (tx_complete).
TxComplete(m) ==
    /\ mailbox[m] # <<>>
    /\ mailbox' = [mailbox EXCEPT ![m] = Tail(@)]
    /\ pending' = pending \ {m}
    /\ UNCHANGED <<pc, sending, ret>>

Thread == (\E m \in Motor, f \in Frame : Begin(m, f)) \/ CanSend \/ Finish
Interrupt == \E m \in Motor : TxComplete(m)

Next == Thread \/ Interrupt

\* send_frame runs to its end, and the controller completes every frame.
Spec ==
    /\ Init /\ [][Next]_vars
    /\ WF_vars(CanSend \/ Finish) /\ \A m \in Motor : WF_vars(TxComplete(m))

-----------------------------------------------------------------------------
(* Properties *)

\* Every variable has its type.
TypeOK ==
    /\ pc \in {"idle", "can_send", "settle"}
    /\ sending \in [motor : Motor, frame : Frame] \cup {Nothing}
    /\ ret \in BOOLEAN /\ pending \subseteq Motor
    /\ \A m \in Motor : mailbox[m] \in Seq(Frame) /\ Len(mailbox[m]) <= 1

\* Between two sends, tx_pending says exactly whether a frame is outstanding:
\* a motor is neither blocked for ever nor able to flood the controller ("One
\* outstanding asynchronous CAN frame per motor", README.md:71).
PendingIsOutstanding ==
    pc = "idle" => pending = {m \in Motor : mailbox[m] # <<>>}

\* can_send never lacks a transmit buffer, even when a node is absent ("This
\* bounds the total number of FDCAN TX buffers used", lkm_motor.c:89-90).
BuffersSuffice == pc = "can_send" => ~Full

\* Each motor's transport implements the slot that Gimbal sends through.
Slots == INSTANCE TxSlot
    WITH Empty <- "none",
         slot <- [m \in Motor |-> IF mailbox[m] = <<>> THEN "none" ELSE mailbox[m][1]]
ImplementsSlots == Slots!Spec

\* An accepted or refused frame always makes room for the next one.
AlwaysFreed == \A m \in Motor : m \in pending ~> m \notin pending
=============================================================================
