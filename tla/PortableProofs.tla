---------------------------- MODULE PortableProofs ----------------------------
(***************************************************************************)
(* The safety properties of PortableDriver, for every encoder, mounting,   *)
(* limits, targets, stray frames and length of the queues.                 *)
(***************************************************************************)
EXTENDS PortableDriver, EncoderProofs

-----------------------------------------------------------------------------
(* The inductive invariant *)

\* The motor has no mapping or its own one, and no reading without a mapping.
ConfigInv ==
    /\ config \in {Unconfigured, Fitted}
    /\ valid => config = Fitted

\* What the driver may read as a count of this motor shows where the axis was.
AnswersInv ==
    \A i \in DOMAIN fromMotor :
        LET frame == fromMotor[i]
        IN  frame.own /\ frame.cmd = "read" /\ frame.raw \in Counts =>
                /\ frame.at \in Fitted.min .. Fitted.max
                /\ frame.raw = Encode(Fitted, frame.at)

\* An increment under way was computed where the axis still is, and takes it to
\* a target within the limits.
Fits(frame) ==
    /\ frame.target \in Fitted.min .. Fitted.max
    /\ position + Fitted.direction * frame.delta = frame.target

\* There is at most one increment under way, and the axis waits for it.
OrdersInv ==
    \A i \in DOMAIN toMotor : toMotor[i].cmd = "position" =>
        /\ position = goal /\ Fits(toMotor[i])
        /\ \A j \in DOMAIN toMotor : toMotor[j].cmd = "position" => j = i

AxisInv == position \in Fitted.min .. Fitted.max /\ WithinLimits

IInv ==
    /\ TypeOK /\ ConfigInv /\ AnswersInv /\ OrdersInv /\ AxisInv /\ AngleWasTrue

-----------------------------------------------------------------------------
(* Queues *)

LEMMA QueueTail ==
    ASSUME NEW S, NEW q \in Seq(S), q # <<>>
    PROVE  /\ Tail(q) \in Seq(S) /\ 1 \in DOMAIN q /\ Head(q) = q[1] /\ Head(q) \in S
           /\ \A i \in DOMAIN Tail(q) :
                  i \in Nat /\ i + 1 \in DOMAIN q /\ Tail(q)[i] = q[i + 1] /\ i + 1 # 1
OBVIOUS

LEMMA QueueAppend ==
    ASSUME NEW S, NEW q \in Seq(S), NEW x \in S
    PROVE  /\ Append(q, x) \in Seq(S)
           /\ \A i \in DOMAIN Append(q, x) :
                  \/ i \in DOMAIN q /\ Append(q, x)[i] = q[i]
                  \/ i = Len(q) + 1 /\ i \notin DOMAIN q /\ Append(q, x)[i] = x
OBVIOUS

LEMMA FittedFacts ==
    /\ Fitted.min \in Int /\ Fitted.max \in Int
    /\ Fitted.direction \in {1, -1} /\ Fitted.center \in Counts
    /\ \A p \in Fitted.min .. Fitted.max : p \in Int /\ -Half < p /\ p < Half
BY PortableAssumption, HalfOfRev

LEMMA NotUnconfigured == ~ConfigOk(Unconfigured) /\ Fitted # Unconfigured
BY FittedFacts DEF ConfigOk, Unconfigured

\* What the motor shows is a count, and decodes to where it is.
LEMMA EncodeFacts ==
    ASSUME NEW p \in Fitted.min .. Fitted.max
    PROVE  Encode(Fitted, p) \in Counts /\ Decode(Fitted, Encode(Fitted, p)) = p
<1>1. p \in Int /\ -Half < p /\ p < Half
  BY FittedFacts
<1>2. Fitted.center + Fitted.direction * p \in Int
  BY <1>1, FittedFacts, CountsAreIntegers
<1>3. Encode(Fitted, p) \in Counts
  BY <1>2, WrappedCountFacts DEF Encode
<1> QED BY <1>1, <1>3, FittedFacts, DecodeUndoesMounting DEF Encode

-----------------------------------------------------------------------------
(* The initial states and the driver *)

LEMMA InitInv == Init => IInv
<1> SUFFICES ASSUME Init PROVE IInv
  OBVIOUS
<1>1. position \in Fitted.min .. Fitted.max /\ position \in Int
  BY PortableAssumption, FittedFacts DEF Init
<1>2. 0 \in -Half .. Half
  BY HalfOfRev
<1>3. TypeOK
  <2>1. <<>> \in Seq(Frame) /\ <<>> \in Seq(Answer)
    OBVIOUS
  <2> QED BY <1>1, <1>2, <2>1 DEF Init, TypeOK
<1>4. AxisInv
  BY <1>1 DEF Init, AxisInv, WithinLimits
<1> QED BY <1>3, <1>4 DEF Init, IInv, ConfigInv, AnswersInv, OrdersInv, AngleWasTrue

\* init accepts the fitted mapping only, and forgets what was read.
LEMMA ConfigureInv ==
    ASSUME IInv, NEW c \in Configs, Suits(c), Configure(c) PROVE IInv'
<1>1. UNCHANGED <<toMotor, fromMotor, axis, taken>>
  BY DEF Configure
<1>2. \/ UNCHANGED driver
      \/ config' = c /\ c = Fitted /\ valid' = FALSE /\ angle' = 0
  BY DEF Configure, Suits
<1>3. TypeOK'
  <2>1. 0 \in -Half .. Half
    BY HalfOfRev
  <2> QED BY <1>1, <1>2, <2>1 DEF IInv, TypeOK, driver, axis
<1>4. ConfigInv' /\ AngleWasTrue'
  BY <1>1, <1>2 DEF IInv, ConfigInv, AngleWasTrue, driver
<1>5. AnswersInv' /\ OrdersInv' /\ AxisInv'
  BY <1>1 DEF IInv, AnswersInv, OrdersInv, Fits, AxisInv, WithinLimits, axis
<1> QED BY <1>3, <1>4, <1>5 DEF IInv

\* A frame that is no increment changes nothing that matters on its way.
LEMMA CommandInv ==
    ASSUME IInv, NEW name \in Commands, Command(name) PROVE IInv'
<1> DEFINE frame == [cmd |-> name, delta |-> 0, target |-> 0]
<1>1. UNCHANGED <<driver, fromMotor, axis, taken>>
  BY DEF Command
<1>2. toMotor' = toMotor \/ toMotor' = Append(toMotor, frame)
  BY DEF Command, Send
<1>3. frame \in Frame /\ frame.cmd # "position" /\ toMotor \in Seq(Frame)
  BY DEF Frame, Commands, IInv, TypeOK
<1> HIDE DEF frame
<1>4. TypeOK'
  BY <1>1, <1>2, <1>3, QueueAppend DEF IInv, TypeOK, driver, axis
<1>5. OrdersInv'
  <2>1. \A i \in DOMAIN toMotor' : toMotor'[i].cmd = "position" =>
            i \in DOMAIN toMotor /\ toMotor'[i] = toMotor[i]
    BY <1>2, <1>3, QueueAppend
  <2> QED BY <1>1, <2>1 DEF IInv, OrdersInv, Fits, axis
<1>6. ConfigInv' /\ AnswersInv' /\ AxisInv' /\ AngleWasTrue'
  BY <1>1 DEF IInv, ConfigInv, AnswersInv, AxisInv, WithinLimits, AngleWasTrue, driver, axis
<1> QED BY <1>4, <1>5, <1>6 DEF IInv

\* The application asks for a move only where the last reading was made, with
\* the axis at rest and no increment under way: the increment fits.
LEMMA SetPositionInv ==
    ASSUME IInv, NEW target \in Targets, AtRest, taken = position, SetPosition(target)
    PROVE  IInv'
<1> DEFINE frame == [cmd |-> "position", delta |-> MotorDelta(target), target |-> target]
<1>1. UNCHANGED <<driver, fromMotor, axis, taken>>
  BY DEF SetPosition
<1>2. toMotor' = toMotor \/ toMotor' = Append(toMotor, frame)
  BY DEF SetPosition, Send
<1>3. config = Fitted /\ angle = position /\ target \in Fitted.min .. Fitted.max
  BY DEF SetPosition, InRange, IInv, ConfigInv, AngleWasTrue
<1>4. position \in Int /\ target \in Int /\ toMotor \in Seq(Frame)
  BY <1>3, FittedFacts DEF IInv, TypeOK
<1>5. MotorDelta(target) \in Int
      /\ position + Fitted.direction * MotorDelta(target) = target
  BY <1>3, <1>4, FittedFacts DEF MotorDelta
<1>6. frame \in Frame /\ Fits(frame)
  BY <1>3, <1>4, <1>5 DEF Frame, Fits
<1> HIDE DEF frame
<1>7. TypeOK'
  BY <1>1, <1>2, <1>4, <1>6, QueueAppend DEF IInv, TypeOK, driver, axis
<1>8. OrdersInv'
  <2>1. CASE toMotor' = toMotor
    BY <1>1, <2>1 DEF IInv, OrdersInv, Fits, axis
  <2>2. CASE toMotor' = Append(toMotor, frame)
    <3>1. \A i \in DOMAIN toMotor' : toMotor'[i].cmd = "position" =>
              i = Len(toMotor) + 1 /\ toMotor'[i] = frame
      BY <1>4, <1>6, <2>2, QueueAppend DEF AtRest
    <3>2. position' = position /\ goal' = goal /\ position = goal
      BY <1>1 DEF axis, AtRest
    <3> QED BY <1>6, <3>1, <3>2 DEF OrdersInv, Fits
  <2> QED BY <1>2, <2>1, <2>2
<1>9. ConfigInv' /\ AnswersInv' /\ AxisInv' /\ AngleWasTrue'
  BY <1>1 DEF IInv, ConfigInv, AnswersInv, AxisInv, WithinLimits, AngleWasTrue, driver, axis
<1> QED BY <1>7, <1>8, <1>9 DEF IInv

-----------------------------------------------------------------------------
(* The two queues *)

LEMMA AnswersTail ==
    ASSUME IInv, fromMotor # <<>>, fromMotor' = Tail(fromMotor)
    PROVE  AnswersInv' /\ fromMotor' \in Seq(Answer)
<1>1. fromMotor \in Seq(Answer)
  BY DEF IInv, TypeOK
<1>2. fromMotor' \in Seq(Answer)
  BY <1>1, QueueTail
<1>3. \A i \in DOMAIN fromMotor' :
          i + 1 \in DOMAIN fromMotor /\ fromMotor'[i] = fromMotor[i + 1]
  BY <1>1, QueueTail
<1> QED BY <1>2, <1>3 DEF IInv, AnswersInv

\* A reply may join the queue that tells where the axis is, if it is read at all.
Honest(frame) ==
    frame.own /\ frame.cmd = "read" /\ frame.raw \in Counts =>
        /\ frame.at \in Fitted.min .. Fitted.max
        /\ frame.raw = Encode(Fitted, frame.at)

LEMMA ReplyKeeps ==
    ASSUME IInv, NEW frame \in Answer, Honest(frame), Reply(frame)
    PROVE  AnswersInv' /\ fromMotor' \in Seq(Answer)
<1>1. fromMotor \in Seq(Answer) /\ AnswersInv
  BY DEF IInv, TypeOK
<1>2. CASE fromMotor' = fromMotor
  BY <1>1, <1>2 DEF AnswersInv
<1>3. CASE fromMotor' = Append(fromMotor, frame)
  <2>1. fromMotor' \in Seq(Answer)
    BY <1>1, <1>3, QueueAppend
  <2>2. \A i \in DOMAIN fromMotor' :
            \/ i \in DOMAIN fromMotor /\ fromMotor'[i] = fromMotor[i]
            \/ fromMotor'[i] = frame
    BY <1>1, <1>3, QueueAppend
  <2>3. \A i \in DOMAIN fromMotor : Honest(fromMotor[i])
    BY <1>1 DEF AnswersInv, Honest
  <2>4. \A i \in DOMAIN fromMotor' : Honest(fromMotor'[i])
    BY <2>2, <2>3
  <2> QED BY <2>1, <2>4 DEF AnswersInv, Honest
<1> QED BY <1>2, <1>3 DEF Reply

LEMMA OrdersTail ==
    ASSUME IInv, toMotor # <<>>, toMotor' = Tail(toMotor)
    PROVE  /\ toMotor' \in Seq(Frame)
           /\ UNCHANGED <<position, goal>> => OrdersInv'
           /\ position # goal => \A i \in DOMAIN toMotor' : toMotor'[i].cmd # "position"
           /\ Head(toMotor) \in Frame
           /\ Head(toMotor).cmd = "position" =>
                  /\ position = goal /\ Fits(Head(toMotor))
                  /\ \A i \in DOMAIN toMotor' : toMotor'[i].cmd # "position"
<1>1. toMotor \in Seq(Frame) /\ OrdersInv
  BY DEF IInv, TypeOK
<1>2. toMotor' \in Seq(Frame) /\ 1 \in DOMAIN toMotor /\ Head(toMotor) = toMotor[1]
      /\ Head(toMotor) \in Frame
  BY <1>1, QueueTail
<1>3. \A i \in DOMAIN toMotor' :
          /\ i \in Nat /\ i + 1 \in DOMAIN toMotor /\ toMotor'[i] = toMotor[i + 1]
          /\ i + 1 # 1
  BY <1>1, QueueTail
<1>4. ASSUME UNCHANGED <<position, goal>> PROVE OrdersInv'
  <2> SUFFICES ASSUME NEW i \in DOMAIN toMotor', toMotor'[i].cmd = "position"
               PROVE  /\ position = goal /\ Fits(toMotor'[i])
                      /\ \A j \in DOMAIN toMotor' : toMotor'[j].cmd = "position" => j = i
    BY <1>4 DEF OrdersInv, Fits
  <2>1. toMotor[i + 1].cmd = "position" /\ i + 1 \in DOMAIN toMotor
        /\ toMotor'[i] = toMotor[i + 1]
    BY <1>3
  <2>2. position = goal /\ Fits(toMotor'[i])
    BY <1>1, <2>1 DEF OrdersInv
  <2>3. ASSUME NEW j \in DOMAIN toMotor', toMotor'[j].cmd = "position" PROVE j = i
    <3>1. j + 1 \in DOMAIN toMotor /\ toMotor[j + 1].cmd = "position"
      BY <1>3, <2>3
    <3>2. j + 1 = i + 1
      BY <1>1, <2>1, <3>1 DEF OrdersInv
    <3> QED BY <1>3, <3>2
  <2> QED BY <2>2, <2>3
<1>5. ASSUME Head(toMotor).cmd = "position"
      PROVE  /\ position = goal /\ Fits(Head(toMotor))
             /\ \A i \in DOMAIN toMotor' : toMotor'[i].cmd # "position"
  <2>1. position = goal /\ Fits(Head(toMotor))
        /\ \A j \in DOMAIN toMotor : toMotor[j].cmd = "position" => j = 1
    BY <1>1, <1>2, <1>5 DEF OrdersInv
  <2> QED BY <1>3, <2>1
<1>6. ASSUME position # goal
      PROVE  \A i \in DOMAIN toMotor' : toMotor'[i].cmd # "position"
  BY <1>1, <1>3, <1>6 DEF OrdersInv
<1> QED BY <1>2, <1>4, <1>5, <1>6

-----------------------------------------------------------------------------
(* The remaining steps *)

\* Only an own, usable reading becomes an angle: the place it was made at.
LEMMA ProcessFrameInv == ASSUME IInv, ProcessFrame PROVE IInv'
<1> DEFINE frame == Head(fromMotor)
<1>1. UNCHANGED <<config, toMotor, axis>> /\ fromMotor' = Tail(fromMotor)
      /\ fromMotor \in Seq(Answer) /\ fromMotor # <<>>
  BY DEF ProcessFrame, IInv, TypeOK
<1>2. frame \in Answer /\ 1 \in DOMAIN fromMotor /\ frame = fromMotor[1]
  BY <1>1, QueueTail
<1>3. \/ UNCHANGED <<valid, angle, taken>>
      \/ /\ config = Fitted /\ valid' = TRUE /\ angle' = Decode(Fitted, frame.raw)
         /\ taken' = frame.at
         /\ frame.own /\ frame.cmd = "read" /\ frame.raw \in Counts
  BY DEF ProcessFrame, Own, Usable, IInv, ConfigInv
<1>4. \/ UNCHANGED <<valid, angle, taken>>
      \/ /\ config = Fitted /\ valid' = TRUE
         /\ angle' = taken' /\ taken' \in Fitted.min .. Fitted.max
  <2> HIDE DEF frame
  <2>1. ASSUME frame.own /\ frame.cmd = "read" /\ frame.raw \in Counts
        PROVE  frame.at \in Fitted.min .. Fitted.max /\ frame.raw = Encode(Fitted, frame.at)
    BY <1>2, <2>1 DEF IInv, AnswersInv
  <2> QED BY <1>3, <2>1, EncodeFacts
<1> HIDE DEF frame
<1>5. AnswersInv' /\ fromMotor' \in Seq(Answer)
  BY <1>1, AnswersTail
<1>6. TypeOK'
  <2>1. \A p \in Fitted.min .. Fitted.max : p \in Int /\ p \in -Half .. Half
    BY FittedFacts, HalfOfRev
  <2>2. valid' \in BOOLEAN /\ angle' \in -Half .. Half /\ taken' \in Int
    BY <1>4, <2>1 DEF IInv, TypeOK
  <2> QED BY <1>1, <1>5, <2>2 DEF IInv, TypeOK, axis
<1>7. ConfigInv' /\ AngleWasTrue'
  BY <1>1, <1>4 DEF IInv, ConfigInv, AngleWasTrue
<1>8. OrdersInv' /\ AxisInv'
  BY <1>1 DEF IInv, OrdersInv, Fits, AxisInv, WithinLimits, axis
<1> QED BY <1>5, <1>6, <1>7, <1>8 DEF IInv

LEMMA AnswerTypes ==
    ASSUME IInv
    PROVE  Reading \in Answer /\ Honest(Reading) /\ Telemetry \in Answer /\ Honest(Telemetry)
<1>1. position \in Fitted.min .. Fitted.max /\ position \in Int
  BY DEF IInv, AxisInv, TypeOK
<1>2. Encode(Fitted, position) \in Nat
  BY <1>1, EncodeFacts, RevAssumption DEF Counts
<1> QED BY <1>1, <1>2 DEF Reading, Telemetry, Answer, Honest

\* The motor gets a goal only from an increment that fits, or where it is.
LEMMA MotorTakesInv == ASSUME IInv, MotorTakes PROVE IInv'
<1> DEFINE frame == Head(toMotor)
           answer == IF frame.cmd = "read" THEN Reading ELSE Telemetry
<1>1. /\ toMotor # <<>> /\ toMotor' = Tail(toMotor)
      /\ UNCHANGED <<driver, position, taken>> /\ Reply(answer)
  BY DEF MotorTakes
<1>2. \/ goal' = position \/ goal' = goal
      \/ frame.cmd = "position" /\ goal' = position + Fitted.direction * frame.delta
  BY DEF MotorTakes
<1>3. driven' \in BOOLEAN
  BY DEF MotorTakes, IInv, TypeOK
<1>4. answer \in Answer /\ Honest(answer)
  BY AnswerTypes
<1> HIDE DEF frame, answer
<1>5. AnswersInv' /\ fromMotor' \in Seq(Answer)
  BY <1>1, <1>4, ReplyKeeps
<1>6. /\ toMotor' \in Seq(Frame)
      /\ UNCHANGED <<position, goal>> => OrdersInv'
      /\ position # goal => \A i \in DOMAIN toMotor' : toMotor'[i].cmd # "position"
      /\ frame.cmd = "position" =>
             /\ position = goal /\ Fits(frame)
             /\ \A i \in DOMAIN toMotor' : toMotor'[i].cmd # "position"
  BY <1>1, OrdersTail DEF frame
<1>7. goal' \in Fitted.min .. Fitted.max
  BY <1>2, <1>6 DEF IInv, AxisInv, WithinLimits, Fits
<1>8. TypeOK'
  BY <1>1, <1>3, <1>5, <1>6, <1>7, FittedFacts DEF IInv, TypeOK, driver
<1>9. OrdersInv'
  <2>1. CASE goal' = goal
    BY <1>1, <1>6, <2>1
  <2>2. CASE frame.cmd = "position"
    BY <1>6, <2>2 DEF OrdersInv
  <2>3. CASE goal' = position /\ goal' # goal
    BY <1>6, <2>3 DEF OrdersInv
  <2> QED BY <1>2, <2>1, <2>2, <2>3
<1>10. ConfigInv' /\ AngleWasTrue' /\ AxisInv'
  BY <1>1, <1>7 DEF IInv, ConfigInv, AngleWasTrue, AxisInv, WithinLimits, driver
<1> QED BY <1>5, <1>8, <1>9, <1>10 DEF IInv

\* The frame that another motor sends, or this one in error, is no reading.
LEMMA StrayFrameInv ==
    ASSUME IInv, NEW raw \in Foreign, StrayFrame(raw) PROVE IInv'
<1> DEFINE frame == [own |-> raw \notin Counts, cmd |-> "read", raw |-> raw, at |-> 0]
<1>1. UNCHANGED <<driver, toMotor, axis, taken>> /\ Reply(frame)
  BY DEF StrayFrame
<1>2. frame \in Answer /\ Honest(frame)
  <2>1. raw \in Nat
    BY PortableAssumption
  <2>2. frame.own = (raw \notin Counts) /\ frame.raw = raw
    OBVIOUS
  <2>3. frame \in Answer
    <3>1. (raw \notin Counts) \in BOOLEAN
      OBVIOUS
    <3> DEFINE own == raw \notin Counts
    <3> HIDE DEF own
    <3>2. [own |-> own, cmd |-> "read", raw |-> raw, at |-> 0] \in Answer
      BY <2>1, <3>1 DEF own, Answer
    <3> QED BY <3>2 DEF own
  <2>4. Honest(frame)
    BY <2>2 DEF Honest
  <2> QED BY <2>3, <2>4
<1> HIDE DEF frame
<1>3. AnswersInv' /\ fromMotor' \in Seq(Answer)
  BY <1>1, <1>2, ReplyKeeps
<1>4. TypeOK'
  BY <1>1, <1>3 DEF IInv, TypeOK, driver, axis
<1>5. ConfigInv' /\ AngleWasTrue' /\ OrdersInv' /\ AxisInv'
  BY <1>1 DEF IInv, ConfigInv, AngleWasTrue, OrdersInv, Fits, AxisInv, WithinLimits, driver, axis
<1> QED BY <1>3, <1>4, <1>5 DEF IInv

LEMMA LoseFrameInv == ASSUME IInv, LoseFrame PROVE IInv'
<1>1. UNCHANGED <<driver, axis, taken>>
  BY DEF LoseFrame
<1>2. ConfigInv' /\ AngleWasTrue' /\ AxisInv'
  BY <1>1 DEF IInv, ConfigInv, AngleWasTrue, AxisInv, WithinLimits, driver, axis
<1>3. AnswersInv' /\ fromMotor' \in Seq(Answer) /\ OrdersInv' /\ toMotor' \in Seq(Frame)
  <2>1. CASE toMotor # <<>> /\ toMotor' = Tail(toMotor) /\ UNCHANGED fromMotor
    <3>1. AnswersInv' /\ fromMotor' \in Seq(Answer)
      BY <2>1 DEF IInv, AnswersInv, TypeOK
    <3> QED BY <1>1, <2>1, <3>1, OrdersTail DEF axis
  <2>2. CASE fromMotor # <<>> /\ fromMotor' = Tail(fromMotor) /\ UNCHANGED toMotor
    <3>1. OrdersInv' /\ toMotor' \in Seq(Frame)
      BY <1>1, <2>2 DEF IInv, OrdersInv, Fits, TypeOK, axis
    <3> QED BY <2>2, <3>1, AnswersTail
  <2> QED BY <2>1, <2>2 DEF LoseFrame
<1>4. TypeOK'
  BY <1>1, <1>3 DEF IInv, TypeOK, driver, axis
<1> QED BY <1>2, <1>3, <1>4 DEF IInv

\* The axis moves only when no increment is under way, and towards its goal.
LEMMA MoveInv == ASSUME IInv, Move PROVE IInv'
<1>1. position # goal /\ UNCHANGED <<driver, toMotor, fromMotor, goal, driven, taken>>
      /\ position' = IF goal > position THEN position + 1 ELSE position - 1
  BY DEF Move
<1>2. position' \in Fitted.min .. Fitted.max /\ position' \in Int
  BY <1>1, FittedFacts DEF IInv, AxisInv, WithinLimits, TypeOK
<1>3. TypeOK'
  BY <1>1, <1>2 DEF IInv, TypeOK, driver
<1>4. OrdersInv'
  BY <1>1 DEF IInv, OrdersInv
<1>5. ConfigInv' /\ AnswersInv' /\ AngleWasTrue' /\ AxisInv'
  BY <1>1, <1>2 DEF IInv, ConfigInv, AnswersInv, AngleWasTrue, AxisInv, WithinLimits, driver
<1> QED BY <1>3, <1>4, <1>5 DEF IInv

LEMMA NextInv == IInv /\ [Next]_vars => IInv'
<1> SUFFICES ASSUME IInv, [Next]_vars PROVE IInv'
  OBVIOUS
<1>1. CASE Application
  <2>1. ASSUME NEW c \in Configs, Suits(c), Configure(c) PROVE IInv'
    BY <2>1, ConfigureInv
  <2>2. ASSUME NEW name \in Commands, Command(name) PROVE IInv'
    BY <2>2, CommandInv
  <2>3. ASSUME NEW target \in Targets, AtRest, taken = position, SetPosition(target)
        PROVE  IInv'
    BY <2>3, SetPositionInv
  <2>4. ASSUME ProcessFrame PROVE IInv'
    BY <2>4, ProcessFrameInv
  <2> QED BY <1>1, <2>1, <2>2, <2>3, <2>4 DEF Application
<1>2. CASE MotorTakes
  BY <1>2, MotorTakesInv
<1>3. CASE LoseFrame
  BY <1>3, LoseFrameInv
<1>4. CASE Move
  BY <1>4, MoveInv
<1>5. CASE \E raw \in Foreign : StrayFrame(raw)
  BY <1>5, StrayFrameInv
<1>6. CASE UNCHANGED vars
  BY <1>6 DEF IInv, TypeOK, ConfigInv, AnswersInv, OrdersInv, Fits, AxisInv,
              WithinLimits, AngleWasTrue, vars, driver, axis
<1> QED BY <1>1, <1>2, <1>3, <1>4, <1>5, <1>6 DEF Next

LEMMA InvHolds == Spec => []IInv
<1> QED BY InitInv, NextInv, PTL DEF Spec

-----------------------------------------------------------------------------
(* The theorems *)

\* The variables keep their types (lkm_3506v3.c: a decoded angle is less than
\* half a turn whatever a frame contained).
THEOREM PortableTypeCorrect == Spec => []TypeOK
<1>1. IInv => TypeOK
  BY DEF IInv
<1> QED BY <1>1, InvHolds, PTL

\* Whatever other motors send, and however the encoder is mounted, a valid angle
\* is one the axis had when the reading was made (lkm_3506v3_process_frame).
THEOREM ReadingsAreTrue == Spec => []AngleWasTrue
<1>1. IInv => AngleWasTrue
  BY DEF IInv
<1> QED BY <1>1, InvHolds, PTL

\* No motion ends outside the limits, for any limits within half a turn
\* (lkm_3506v3_set_position).
THEOREM MotionStaysWithinLimits == Spec => []WithinLimits
<1>1. IInv => WithinLimits
  BY DEF IInv, AxisInv
<1> QED BY <1>1, InvHolds, PTL

\* An increment that is executed takes the axis to the target it was sent for,
\* whatever was lost, delayed or refused in between (lkm_3506v3_set_position).
THEOREM IncrementsReachTheirTarget == Spec => MovesToTarget
<1> DEFINE Reaches == goal' # goal /\ Head(toMotor).cmd = "position"
                          => goal' = Head(toMotor).target
<1>1. ASSUME IInv, [Next]_vars PROVE [Reaches]_vars
  <2> SUFFICES ASSUME goal' # goal, Head(toMotor).cmd = "position"
               PROVE  goal' = Head(toMotor).target
    OBVIOUS
  <2>1. MotorTakes
    BY <1>1 DEF Next, Application, Configure, Command, SetPosition, ProcessFrame, LoseFrame,
                Move, StrayFrame, vars, axis
  <2>2. position = goal /\ Fits(Head(toMotor))
    BY <1>1, <2>1, OrdersTail DEF MotorTakes
  <2>3. goal' = position \/ goal' = position + Fitted.direction * Head(toMotor).delta
    BY <2>1, <2>2 DEF MotorTakes
  <2> QED BY <2>2, <2>3 DEF Fits
<1>2. Spec => [][Reaches]_vars
  BY <1>1, InvHolds, PTL DEF Spec
<1> QED BY <1>2 DEF MovesToTarget
=============================================================================
