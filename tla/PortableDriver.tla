--------------------------- MODULE PortableDriver ---------------------------
(***************************************************************************)
(* The portable motor driver, lkm-3506v3 and its copy lkm-3008v3, with an  *)
(* application that calls it, the CAN bus and the motor.  The driver never *)
(* blocks: a command builds a frame and hands it to the application's send *)
(* callback, and the application passes every received frame to the        *)
(* parser.  It keeps one reading, and moves by increments from it.         *)
(*                                                                         *)
(* Angles are counts from the middle of the axis, as in EncoderMap.        *)
(***************************************************************************)
EXTENDS EncoderMap, Sequences

CONSTANTS
    Configs,        \* what the application may pass to init
    Fitted,         \* external: the mapping with which the motor is mounted
    Parked,         \* external: where the axis may be at first
    Targets,        \* what the application may ask for
    Foreign,        \* raw fields of other motors' replies, and of bad ones
    MaxFrames       \* bound: frames under way in one direction

ASSUME PortableAssumption ==
    /\ Fitted.center \in Counts /\ Fitted.direction \in {1, -1}
    /\ Fitted.min \in Int /\ Fitted.max \in Int
    /\ -Half < Fitted.min /\ Fitted.min < Fitted.max /\ Fitted.max < Half
    /\ Parked \subseteq Fitted.min .. Fitted.max
    /\ Targets \subseteq Int /\ Foreign \subseteq Nat
    /\ MaxFrames \in Nat \ {0}

VARIABLES
    config,         \* motor->config
    valid, angle,   \* feedback_valid, angle_deg
    toMotor,        \* external: frames sent and not yet received
    fromMotor,      \* external: frames received and not yet parsed
    position, goal, \* external: where the axis is and where its motor takes it
    driven,         \* external: the motor is enabled
    taken           \* history: where the axis was at the last reading

driver == <<config, valid, angle>>
axis == <<position, goal, driven>>
vars == <<driver, toMotor, fromMotor, axis, taken>>

Unconfigured == [center |-> 0, direction |-> 0, min |-> 0, max |-> 0]

\* The encoder's count when a motor fitted like m has its axis at p.
Encode(m, p) == WrappedCount(m.center + m.direction * p)

Init ==
    /\ config = Unconfigured /\ valid = FALSE /\ angle = 0
    /\ toMotor = <<>> /\ fromMotor = <<>>
    /\ position \in Parked /\ goal = position /\ driven = FALSE
    /\ taken = position

-----------------------------------------------------------------------------
(* The driver *)

\* What lkm_3506v3_init accepts.
ConfigOk(c) == c.direction # 0 /\ c.min < c.max

\* lkm_3506v3_init: what was read is forgotten.
Configure(c) ==
    /\ IF ConfigOk(c)
       THEN config' = c /\ valid' = FALSE /\ angle' = 0
       ELSE UNCHANGED driver
    /\ UNCHANGED <<toMotor, fromMotor, axis, taken>>

\* The send callback takes the frame, or returns an error.
Send(frame) ==
    toMotor' \in {toMotor} \cup
        (IF Len(toMotor) < MaxFrames THEN {Append(toMotor, frame)} ELSE {})

Commands == {"enable", "stop", "read", "state"}

\* send_command.  "stop" stands for disable (0x80) as well as stop (0x81): the
\* driver sends both alike, and both release the motor.
Command(name) ==
    /\ config # Unconfigured
    /\ Send([cmd |-> name, delta |-> 0, target |-> 0])
    /\ UNCHANGED <<driver, fromMotor, axis, taken>>

\* Mutant: the mounting direction of the encoder is forgotten.
MotorDeltaUnsigned(target) == target - angle
MotorDelta(target) == config.direction * (target - angle)

\* Mutant: the limits are not looked at.
AnyTarget(target) == TRUE
InRange(target) == target \in config.min .. config.max

\* lkm_3506v3_set_position; a refused call changes nothing, and a zero
\* increment is not sent.
SetPosition(target) ==
    /\ config # Unconfigured
    /\ InRange(target) /\ valid
    /\ IF MotorDelta(target) = 0 THEN UNCHANGED toMotor
       ELSE Send([cmd |-> "position", delta |-> MotorDelta(target),
                  target |-> target])
    /\ UNCHANGED <<driver, fromMotor, axis, taken>>

\* Mutant: frames of other motors are parsed as well.
OwnAny(frame) == TRUE
\* The frame has this motor's identifier.
Own(frame) == frame.own

\* Mutant: the encoder field is used before it is checked.
UsableAny(raw) == TRUE
Usable(raw) == raw \in Counts

\* lkm_3506v3_process_frame: only a 0x90 reply with a count moves the angle.
ProcessFrame ==
    /\ fromMotor # <<>>
    /\ LET frame == Head(fromMotor)
       IN  IF Own(frame) /\ frame.cmd = "read" /\ Usable(frame.raw)
                /\ config # Unconfigured
           THEN /\ valid' = TRUE /\ angle' = Decode(config, frame.raw)
                /\ taken' = frame.at
           ELSE UNCHANGED <<valid, angle, taken>>
    /\ fromMotor' = Tail(fromMotor)
    /\ UNCHANGED <<config, toMotor, axis>>

-----------------------------------------------------------------------------
(* The motor and the bus *)

\* A 0x90 reply, and the reply to any other command.
Reading == [own |-> TRUE, cmd |-> "read", raw |-> Encode(Fitted, position),
            at |-> position]
Telemetry == [own |-> TRUE, cmd |-> "state", raw |-> 0, at |-> 0]

Reply(frame) == IF Len(fromMotor) < MaxFrames
                THEN fromMotor' = Append(fromMotor, frame)
                ELSE UNCHANGED fromMotor

\* The motor receives a frame and answers it; 0xA8 is relative to where it is.
MotorTakes ==
    /\ toMotor # <<>>
    /\ LET frame == Head(toMotor)
       IN  /\ driven' = IF frame.cmd = "enable" THEN TRUE
                        ELSE IF frame.cmd = "stop" THEN FALSE ELSE driven
           /\ goal' = IF frame.cmd = "stop" THEN position
                      ELSE IF frame.cmd = "position" /\ driven
                      THEN position + Fitted.direction * frame.delta
                      ELSE goal
           /\ Reply(IF frame.cmd = "read" THEN Reading ELSE Telemetry)
    /\ toMotor' = Tail(toMotor)
    /\ UNCHANGED <<driver, position, taken>>

\* Another motor's reply, or an impossible one of this motor.
StrayFrame(raw) ==
    /\ Reply([own |-> raw \notin Counts, cmd |-> "read", raw |-> raw, at |-> 0])
    /\ UNCHANGED <<driver, toMotor, axis, taken>>

LoseFrame ==
    /\ \/ toMotor # <<>> /\ toMotor' = Tail(toMotor) /\ UNCHANGED fromMotor
       \/ fromMotor # <<>> /\ fromMotor' = Tail(fromMotor) /\ UNCHANGED toMotor
    /\ UNCHANGED <<driver, axis, taken>>

Move ==
    /\ position # goal
    /\ position' = IF goal > position THEN position + 1 ELSE position - 1
    /\ UNCHANGED <<driver, toMotor, fromMotor, goal, driven, taken>>

-----------------------------------------------------------------------------
(* The application, as the driver's README asks it to be: it configures the  *)
(* mapping of the motor it has, verifies current feedback before enabling    *)
(* motion, and never repeats an old increment.                               *)

Suits(c) == ConfigOk(c) => c = Fitted

AtRest ==
    /\ position = goal
    /\ \A i \in DOMAIN toMotor : toMotor[i].cmd # "position"

Application ==
    \/ \E c \in Configs : Suits(c) /\ Configure(c)
    \/ \E name \in Commands : Command(name)
    \/ \E target \in Targets :
        /\ AtRest /\ taken = position
        /\ SetPosition(target)
    \/ ProcessFrame

Next ==
    \/ Application \/ MotorTakes \/ LoseFrame \/ Move
    \/ \E raw \in Foreign : StrayFrame(raw)

Spec == Init /\ [][Next]_vars

-----------------------------------------------------------------------------
(* Properties *)

Frame == [cmd : Commands \cup {"position"}, delta : Int, target : Int]
Answer == [own : BOOLEAN, cmd : {"read", "state"}, raw : Nat, at : Int]

\* Every variable has its type; an angle is less than half a turn.
TypeOK ==
    /\ config \in Configs \cup {Unconfigured}
    /\ valid \in BOOLEAN /\ angle \in -Half .. Half
    /\ toMotor \in Seq(Frame) /\ fromMotor \in Seq(Answer)
    /\ position \in Int /\ goal \in Int /\ driven \in BOOLEAN /\ taken \in Int

\* A reading is a place where the axis really was: other motors' replies and
\* impossible counts never become an angle, decoding undoes the mounting and the
\* wrap of the encoder, and a new configuration forgets it.
AngleWasTrue == valid => angle = taken

\* However frames are lost, refused or delayed, no motion ends outside the
\* configured limits ("a bounded target as a relative 0xA8 move", README.md:84).
WithinLimits == goal \in Fitted.min .. Fitted.max

\* An increment takes the axis to the very target it was asked for, whichever way
\* the encoder is mounted.
MovesToTarget ==
    [][goal' # goal /\ Head(toMotor).cmd = "position"
           => goal' = Head(toMotor).target]_vars
=============================================================================
