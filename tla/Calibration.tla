----------------------------- MODULE Calibration -----------------------------
(***************************************************************************)
(* The calibration firmware, projects/can_driver_ms_calibration: one loop  *)
(* (main.c) drains replies, asks the two motors in turn for their encoder, *)
(* and lets the operator, who moves the axes by hand, capture six counts.  *)
(* The transmit interrupt runs between any two steps of the loop.          *)
(*                                                                         *)
(* A hand position is a number of counts from the mechanical minimum.  The *)
(* count that an encoder shows there depends on how it was mounted.        *)
(***************************************************************************)
EXTENDS EncoderMap, FiniteSets

CONSTANTS
    BootDelay,      \* MOTOR_BOOT_DELAY_MS, in turns of the loop
    QueryGap,       \* ENCODER_QUERY_GAP_MS, in turns of the loop
    Full,           \* per axis: hand position of the mechanical maximum
    Travel,         \* per axis: degrees between the stops
    MinCounts,      \* fewer counts per degree than this are warned about
    MidTol,         \* degrees the captured middle may be off
    Hand,           \* external: positions the operator may move an axis to
    HandAt,         \* external: positions at which a step is captured
    Mounting,       \* external: per axis, encoder count at the minimum and direction
    RawLimit,       \* 2^16: encoder_raw is a uint16_t
    Garbage,        \* external: what DATA[4:5] of a bad reply may hold
    Unreliable      \* external: axes that may be absent or answer badly

Yaw == "yaw"
Pitch == "pitch"
Axis == {Yaw, Pitch}

YawMin == 0
PitchMin == 3
Complete == 6
Points == 0 .. 5
None == -1

ASSUME LoopAssumption ==
    BootDelay \in Nat /\ QueryGap \in Nat /\ QueryGap <= BootDelay

\* The axes can be calibrated: half of the travel, with the tolerance of the
\* middle, is less than half a turn of the encoder and spans enough counts, and
\* the tolerance is less than half of it (345 and 180 degrees, 50 counts, 2 degrees).
ASSUME TravelAssumption ==
    /\ MinCounts \in Nat \ {0} /\ MidTol \in Nat \ {0}
    /\ Full \in [Axis -> Nat \ {0}] /\ Travel \in [Axis -> Nat \ {0}]
    /\ \A a \in Axis :
        /\ Full[a] * Travel[a] + 2 * MidTol * Full[a] < 2 * Half * Travel[a]
        /\ Full[a] >= MinCounts * Travel[a]
        /\ Travel[a] > 2 * MidTol

\* What fits into encoder_raw; the counts of the encoder are some of it.
Raws == 0 .. RawLimit - 1

ASSUME RawAssumption == RawLimit \in Nat /\ Rev <= RawLimit

\* A bad reply may hold anything: the code never looks at the range of DATA[4:5].
ASSUME BenchAssumption ==
    /\ \A a \in Axis : /\ Hand[a] \subseteq 0 .. Full[a]
                       /\ Mounting[a] \subseteq [zero : Counts, direction : {1, -1}]
    /\ Garbage \subseteq Raws

VARIABLES
    pc,         \* what the loop does next
    step,       \* state.step
    sample,     \* state.samples[].raw, None when not valid
    valid,      \* axes whose feedback_valid is set
    heard,      \* axes whose last_command is 0x90
    count,      \* encoder_raw of each axis
    tx,         \* axes with tx_pending
    askPitch,   \* state.query_pitch_next
    wait,       \* turns until the next query is due
    queue,      \* external: the reply of each axis in the receive queue
    hand,       \* external: where each axis is
    mount,      \* external: how each encoder was mounted
    at          \* history: where the axis was when each sample was captured

operator == <<hand, mount>>
capture == <<step, sample, at>>
decoded == <<valid, heard, count>>
vars == <<pc, capture, decoded, tx, askPitch, wait, queue, operator>>

NoReply == [raw |-> None, good |-> FALSE]

\* What the encoder of an axis shows at a hand position.
Shown(a, p) == (mount[a].zero + mount[a].direction * p) % Rev

Init ==
    /\ pc = "drain" /\ step = YawMin
    /\ sample = [i \in Points |-> None] /\ at = [i \in Points |-> None]
    /\ valid = {} /\ heard = {} /\ count = [a \in Axis |-> 0]
    /\ tx = {} /\ askPitch = FALSE /\ wait = BootDelay
    /\ queue = [a \in Axis |-> NoReply]
    /\ hand = [a \in Axis |-> 0]
    /\ mount \in {m \in [Axis -> UNION {Mounting[a] : a \in Axis}] :
                     \A a \in Axis : m[a] \in Mounting[a]}

-----------------------------------------------------------------------------
(* The loop *)

\* feedback_valid is set only by a reply whose encoder field, DATA[2:3], is in
\* range; that says nothing of the count that is captured.
Believed(a) == valid' = IF queue[a].good THEN valid \cup {a} ELSE valid

\* lkm_motor_process_frame: the count is stored before the reply is judged.
ProcessReply(a) ==
    /\ pc = "drain" /\ queue[a] # NoReply
    /\ queue' = [queue EXCEPT ![a] = NoReply]
    /\ heard' = heard \cup {a}
    /\ count' = [count EXCEPT ![a] = queue[a].raw]
    /\ Believed(a)
    /\ UNCHANGED <<pc, capture, tx, askPitch, wait, operator>>

DrainDone ==
    /\ pc = "drain" /\ \A a \in Axis : queue[a] = NoReply
    /\ pc' = "query"
    /\ wait' = IF wait > 0 THEN wait - 1 ELSE 0
    /\ UNCHANGED <<capture, decoded, tx, askPitch, queue, operator>>

Asked == IF askPitch THEN Pitch ELSE Yaw

\* Mutant: an axis that still has a frame outstanding is waited for.
TakeTurnsWhenSent == askPitch' = IF Asked \in tx THEN askPitch ELSE ~askPitch
\* The other axis is next, whether this one could be asked or not.
TakeTurns == askPitch' = ~askPitch

\* One read-only 0x90 query, unless the last one to this motor is outstanding.
Query ==
    /\ pc = "query" /\ wait = 0
    /\ \/ tx' = tx \cup {Asked}
       \/ Asked \in Unreliable /\ UNCHANGED tx
    /\ TakeTurns /\ wait' = QueryGap
    /\ pc' = "touch"
    /\ UNCHANGED <<capture, decoded, queue, operator>>

NotYet ==
    /\ pc = "query" /\ wait > 0
    /\ pc' = "touch"
    /\ UNCHANGED <<capture, decoded, tx, askPitch, wait, queue, operator>>

\* The button is not pressed, or CAL CAPTURE BLOCKED: no feedback yet.
NoTouch ==
    /\ pc = "touch"
    /\ pc' = "drain"
    /\ UNCHANGED <<capture, decoded, tx, askPitch, wait, queue, operator>>

-----------------------------------------------------------------------------
(* calibration_capture, when the button is pressed *)

\* Mutant: pitch is captured from the yaw motor.
MotorOfYaw(i) == Yaw
MotorOf(i) == IF i < PitchMin THEN Yaw ELSE Pitch

\* Mutant: the step counts on past the last capture.
StepOn == step' = step + 1
\* The next capture; after the last one the next press starts over.
NextStep == step' = IF step = Complete THEN YawMin ELSE step + 1

Blocked == MotorOf(step) \notin valid \/ MotorOf(step) \notin heard

Capture ==
    /\ pc = "touch" /\ step # Complete /\ ~Blocked
    /\ hand[MotorOf(step)] \in HandAt[step]
    /\ sample' = [sample EXCEPT ![step] = count[MotorOf(step)]]
    /\ at' = [at EXCEPT ![step] = hand[MotorOf(step)]]
    /\ NextStep
    /\ pc' = "drain"
    /\ UNCHANGED <<decoded, tx, askPitch, wait, queue, operator>>

ForgetSamples ==
    sample' = [i \in Points |-> None] /\ at' = [i \in Points |-> None]

Reset ==
    /\ pc = "touch" /\ step = Complete
    /\ NextStep /\ ForgetSamples
    /\ pc' = "drain"
    /\ UNCHANGED <<decoded, tx, askPitch, wait, queue, operator>>

-----------------------------------------------------------------------------
(* The transmit interrupt, the motors and the operator *)

TrueReply(a) == [raw |-> Shown(a, hand[a]), good |-> TRUE]
\* Two fields of a reply can be bad independently of each other.
BadReplies == [raw : Garbage, good : BOOLEAN]

\* tx_complete; a motor that received the query answers with its encoder.
TxComplete(a) ==
    /\ a \in tx /\ tx' = tx \ {a}
    /\ \/ queue' = [queue EXCEPT ![a] = TrueReply(a)]
       \/ a \in Unreliable /\ UNCHANGED queue
       \/ a \in Unreliable /\ \E r \in BadReplies : queue' = [queue EXCEPT ![a] = r]
    /\ UNCHANGED <<pc, capture, decoded, askPitch, wait, operator>>

MoveByHand(a) ==
    /\ \E p \in Hand[a] : hand' = [hand EXCEPT ![a] = p]
    /\ UNCHANGED <<pc, capture, decoded, tx, askPitch, wait, queue, mount>>

-----------------------------------------------------------------------------
Loop ==
    \/ \E a \in Axis : ProcessReply(a)
    \/ DrainDone \/ Query \/ NotYet \/ NoTouch
    \/ Capture \/ Reset

Interrupt == \E a \in Axis : TxComplete(a)
Operator == \E a \in Axis : MoveByHand(a)

Next == Loop \/ Interrupt \/ Operator

\* The loop always comes round, and a reliable motor acknowledges its frames.
Spec ==
    /\ Init /\ [][Next]_vars
    /\ WF_vars(Loop)
    /\ \A a \in Axis \ Unreliable : WF_vars(TxComplete(a))

-----------------------------------------------------------------------------
(* Properties *)

\* Every variable has its type.  A decoded or captured count is any uint16_t, and
\* need not be a count of the encoder (lkm_motor.c:128; l.131 looks elsewhere).
TypeOK ==
    /\ pc \in {"drain", "query", "touch"} /\ step \in YawMin .. Complete
    /\ sample \in [Points -> Raws \cup {None}]
    /\ at \in [Points -> Int]
    /\ \A i \in Points : at[i] \in {None} \cup 0 .. Full[MotorOf(i)]
    /\ valid \subseteq Axis /\ heard \subseteq Axis /\ tx \subseteq Axis
    /\ count \in [Axis -> Raws]
    /\ askPitch \in BOOLEAN /\ wait \in 0 .. BootDelay
    /\ queue \in [Axis -> {NoReply} \cup [raw : Raws, good : BOOLEAN]]
    /\ hand \in [Axis -> Int] /\ \A a \in Axis : hand[a] \in 0 .. Full[a]
    /\ mount \in [Axis -> [zero : Counts, direction : {1, -1}]]

FirstOf(a) == IF a = Yaw THEN YawMin ELSE PitchMin
PointsOf(a) == FirstOf(a) .. FirstOf(a) + 2

Printed(a) ==
    LET i == FirstOf(a) IN Derived(sample[i], sample[i + 1], sample[i + 2])
Warned(a) ==
    LET i == FirstOf(a)
    IN  ~Consistent(sample[i], sample[i + 1], sample[i + 2],
                    Travel[a], MinCounts, MidTol)

\* The sample is what the encoder showed at the moment of the capture.
Current(a, i) == sample[i] = Shown(a, at[i])

\* Where the steps of an axis are to be captured: at the stops, and in the middle
\* within the tolerance.
Intended(a, i, p) ==
    CASE i = FirstOf(a) -> p = 0
      [] i = FirstOf(a) + 2 -> p = Full[a]
      [] OTHER -> Magnitude(2 * p - Full[a]) * Travel[a] <= 2 * MidTol * Full[a]

ByTheBook(a, i) == Intended(a, i, at[i]) /\ Current(a, i)

\* Captured by the book from current readings, an axis gets no warning, and the
\* printed map decodes every position of its travel, however its encoder was
\* mounted (print_axis_result; raw_to_deg of the controller).
EndpointsRecovered ==
    step = Complete =>
        \A a \in Axis : (\A i \in PointsOf(a) : ByTheBook(a, i)) =>
            /\ ~Warned(a)
            /\ \A p \in 0 .. Full[a] :
                   Decode(Printed(a), Shown(a, p)) = p - (Full[a] + 1) \div 2

\* Without a warning, captures made in order from minimum to maximum, wherever
\* the operator stopped, give the true direction and span: "all three points
\* lie on one continuous mechanical path" (calibration.c:86-87).
PathIsContinuous ==
    step = Complete =>
        \A a \in Axis :
            LET i == FirstOf(a)
            IN  /\ at[i] < at[i + 1] /\ at[i + 1] < at[i + 2]
                /\ \A j \in PointsOf(a) : Current(a, j)
                /\ ~Warned(a)
                => /\ Printed(a).direction = mount[a].direction
                   /\ Printed(a).span = at[i + 2] - at[i]

\* Too far from where step i belongs to pass for it: twice the tolerance at a
\* stop, where a middle that is off as well hides as much again.
FarOff(a, i, p) ==
    CASE i = FirstOf(a) -> p * Travel[a] > 4 * MidTol * Full[a]
      [] i = FirstOf(a) + 2 -> (Full[a] - p) * Travel[a] > 4 * MidTol * Full[a]
      [] OTHER -> ~Intended(a, i, p)

\* A single capture from a wrong place, further off than the tolerance can hide,
\* is always warned about: the reading was stale, which the guard at
\* calibration.c:62 does not see, or a touch glitch captured a step too early.
SingleOutlierIsWarned ==
    step = Complete =>
        \A a \in Axis : \A i \in PointsOf(a) :
            /\ \A j \in PointsOf(a) \ {i} : ByTheBook(a, j)
            /\ \E p \in 0 .. Full[a] : sample[i] = Shown(a, p) /\ FarOff(a, i, p)
            => Warned(a)

\* Two successive steps of an axis with the same count are warned about, whatever
\* the three counts are, of the encoder or not.  So a press that a malformed touch
\* report doubles (touch.c:83) shows if both captures took the same reading and
\* neither belongs to the other axis.
RepeatIsWarned ==
    step = Complete =>
        \A a \in Axis : \A i \in FirstOf(a) .. FirstOf(a) + 1 :
            sample[i] = sample[i + 1] => Warned(a)

\* Every sample of a reliable axis is a reading of that axis, never the count
\* of the other one or of no reply at all (l.61-62).
OwnReadings ==
    \A a \in Axis \ Unreliable : \A i \in PointsOf(a) :
        sample[i] # None => \E p \in 0 .. Full[a] : sample[i] = Shown(a, p)

\* A motor that is absent or never acknowledges does not keep the loop from
\* reading the other one, again and again (main.c:82-84).
ReliableStillRead ==
    \A a \in Axis \ Unreliable : []<><<ProcessReply(a)>>_vars
=============================================================================
