------------------------------ MODULE PlantProofs ------------------------------
(***************************************************************************)
(* What the gimbal does to its two axes, for every timing of the loop, all *)
(* speeds, parking positions and slider targets: the motors are never sent *)
(* past a stop, and the gimbal comes to rest where it says.                *)
(*                                                                         *)
(* Two things are assumed of the surroundings.  Prompt: a frame and its    *)
(* reply are through before the next turn of the loop.  Patient: a slider  *)
(* is moved only when its axis is at rest; the run plant_drag shows what   *)
(* happens otherwise.                                                      *)
(***************************************************************************)
EXTENDS GimbalPlant, GimbalProofs

USE DEF Axis, Yaw, Pitch

-----------------------------------------------------------------------------
(* The inductive invariant *)

Hard(a) == HardMin[a] .. HardMax[a]

\* The positions in the replies under way.
Answers(a) == {reading[a][i] : i \in DOMAIN reading[a]}

PlantTypeOK ==
    /\ position \in [Axis -> Int] /\ goal \in [Axis -> Int]
    /\ increment \in [Axis -> Int]
    /\ reading \in [Axis -> Seq(Int)]
    /\ \A a \in Axis : Len(reading[a]) = owed[a]

\* A turn of the loop starts with no frame outstanding, and takes its decisions
\* with no reply under way; only the replies of the last turn can be out of date.
PromptInv ==
    /\ pc \in {"drain", "tick", "motion"} => BusIdle
    /\ pc \in {"tick", "motion"} => \A a \in Axis : reading[a] = <<>>
    /\ pc # "drain" => \A a \in Axis : Answers(a) \subseteq {position[a]}

\* An axis, its motor's goal and its target stay between the stops, and an
\* increment on the bus takes the axis from where it is to its target.
BoundsInv ==
    \A a \in Axis :
        /\ position[a] \in Hard(a) /\ goal[a] \in Hard(a) /\ target[a] \in Hard(a)
        /\ tx[a] = "pos" => position[a] + increment[a] = target[a]

\* An axis at rest that is known, if at all, where it is; or is about to be.
Resting(a) ==
    /\ goal[a] = position[a] /\ Answers(a) \subseteq {position[a]}
    /\ a \in valid => angle[a] = position[a]
    /\ tx[a] # "pos"
Stopping(a) == tx[a] = "stop" /\ reading[a] = <<>> /\ a \notin valid

\* A START begins by stopping both axes; from then on an axis with a command
\* pending is at rest.  The fault that follows a refused command forgets that.
RestInv ==
    /\ state = "WAITING" => \A a \in Axis : Stopping(a) \/ Resting(a)
    /\ state \in Armed /\ pc # "fault" => \A a \in dirty : Resting(a)
    /\ state = "CENTERING" => dirty = {} \/ dirty = Axis
    /\ state \in {"WAITING", "CENTERING"} => target = Center

CtlInv == TypeOK /\ SupervisionInv /\ DriveInv
Basics == PlantTypeOK /\ PromptInv /\ BoundsInv

\* Everything but the course of an axis.
PlantInv == CtlInv /\ PlantTypeOK /\ PromptInv /\ BoundsInv /\ RestInv

Distance(a, x) == Abs(x - target[a])
Near(a) == Distance(a, position[a]) <= CenterTol

\* An axis that was commanded is on its way to its target, or near it at rest,
\* or the command is on the bus.
OnCourse(a) ==
    \/ goal[a] = target[a]
    \/ goal[a] = position[a] /\ Near(a)
    \/ tx[a] = "pos"

\* What was seen of an axis is never nearer to its target than the axis is.
Closer(a) ==
    /\ a \in valid => Distance(a, position[a]) <= Distance(a, angle[a])
    /\ \A x \in Answers(a) : Distance(a, position[a]) <= Distance(a, x)

CourseInv ==
    state \in Armed /\ pc # "fault" =>
        \A a \in Axis :
            /\ Closer(a)
            /\ a \notin dirty => OnCourse(a)
            /\ a \notin dirty /\ tx[a] = "stop" => Near(a)
            /\ a \notin dirty /\ idleStop /\ state = "READY" => Near(a)

\* In READY nothing is commanded before yaw was released.
ReleaseInv == pc = "motion" /\ state = "READY" => ~idleStop

IInv == PlantInv /\ CourseInv /\ ReleaseInv

-----------------------------------------------------------------------------
(* Helpers *)

LEMMA DistanceOf ==
    ASSUME NEW x \in Int, NEW y \in Int
    PROVE  /\ Abs(x - y) \in Nat
           /\ Abs(x - y) = IF x < y THEN y - x ELSE x - y
BY DEF Abs

\* An axis at its goal stays there; otherwise it stays between where it was and
\* its goal, and gets no further from it.
LEMMA ApproachGoal ==
    ASSUME NEW p \in Int, NEW g \in Int, NEW d \in Nat
    PROVE  /\ Approach(p, g, d) \in Int
           /\ Approach(p, p, d) = p
           /\ Abs(Approach(p, g, d) - g) <= Abs(p - g)
BY DEF Approach, Abs

LEMMA ApproachBetween ==
    ASSUME NEW lo \in Int, NEW hi \in Int, NEW p \in lo .. hi, NEW g \in lo .. hi,
           NEW d \in Nat
    PROVE  Approach(p, g, d) \in lo .. hi
BY DEF Approach, Abs

LEMMA PlantFacts ==
    ASSUME TypeOK, PlantTypeOK, NEW a \in Axis
    PROVE  /\ position[a] \in Int /\ goal[a] \in Int /\ increment[a] \in Int
           /\ angle[a] \in Int /\ target[a] \in Int /\ tx[a] \in Frames
           /\ reading[a] \in Seq(Int) /\ Answers(a) \subseteq Int
           /\ HardMin[a] \in Int /\ HardMax[a] \in Int /\ Center[a] \in Hard(a)
<1>1. /\ position[a] \in Int /\ goal[a] \in Int /\ increment[a] \in Int
      /\ angle[a] \in Int /\ target[a] \in Int /\ tx[a] \in Frames
      /\ reading[a] \in Seq(Int)
  BY DEF TypeOK, ControlTypeOK, FeedbackTypeOK, BusTypeOK, PlantTypeOK
<1>2. Answers(a) \subseteq Int
  BY <1>1 DEF Answers
<1>3. HardMin[a] \in Int /\ HardMax[a] \in Int /\ Center[a] \in Hard(a)
  BY AngleAssumption DEF Hard
<1> QED BY <1>1, <1>2, <1>3

\* Replies are taken in the order in which they were given.
LEMMA AnswersOf ==
    ASSUME NEW s \in Seq(Int), NEW x \in Int
    PROVE  /\ {Append(s, x)[i] : i \in DOMAIN Append(s, x)}
                  = {s[i] : i \in DOMAIN s} \cup {x}
           /\ s # <<>> => /\ Head(s) \in {s[i] : i \in DOMAIN s}
                          /\ {Tail(s)[i] : i \in DOMAIN Tail(s)}
                                 \subseteq {s[i] : i \in DOMAIN s}
                          /\ Tail(s) \in Seq(Int) /\ Len(Tail(s)) = Len(s) - 1
           /\ Len(s) = 0 <=> s = <<>>
<1>1. {Append(s, x)[i] : i \in DOMAIN Append(s, x)} = {s[i] : i \in DOMAIN s} \cup {x}
  <2>1. /\ DOMAIN Append(s, x) = 1 .. Len(s) + 1 /\ DOMAIN s = 1 .. Len(s)
        /\ Len(s) \in Nat /\ Append(s, x)[Len(s) + 1] = x
        /\ \A i \in 1 .. Len(s) : Append(s, x)[i] = s[i]
    OBVIOUS
  <2>2. 1 .. Len(s) + 1 = (1 .. Len(s)) \cup {Len(s) + 1}
    BY <2>1
  <2> QED BY <2>1, <2>2
<1>2. ASSUME s # <<>>
      PROVE  /\ Head(s) \in {s[i] : i \in DOMAIN s}
             /\ {Tail(s)[i] : i \in DOMAIN Tail(s)} \subseteq {s[i] : i \in DOMAIN s}
             /\ Tail(s) \in Seq(Int) /\ Len(Tail(s)) = Len(s) - 1
  <2>1. Len(s) \in Nat /\ Len(s) >= 1 /\ DOMAIN s = 1 .. Len(s) /\ Head(s) = s[1]
    BY <1>2
  <2>2. Tail(s) \in Seq(Int) /\ Len(Tail(s)) = Len(s) - 1
    BY <1>2
  <2>3. \A i \in 1 .. Len(s) - 1 : Tail(s)[i] = s[i + 1] /\ i + 1 \in 1 .. Len(s)
    BY <1>2, <2>1
  <2>4. DOMAIN Tail(s) = 1 .. Len(s) - 1
    BY <2>2
  <2> QED BY <2>1, <2>2, <2>3, <2>4
<1>3. Len(s) = 0 <=> s = <<>>
  OBVIOUS
<1> QED BY <1>1, <1>2, <1>3

-----------------------------------------------------------------------------
(* The controller's own invariants *)

\* What the controller's part of a step may be.
LEMMA PlantStep ==
    ASSUME [PlantNext]_plantVars
    PROVE  [Next]_vars \/ \E a \in Axis : PlantReceive(a)
BY DEF PlantNext, PlantMotorThread, PlantWake, PlantDrainDone, PlantTick,
       PlantComplete, PlantPress, PlantSetTarget, plantVars, Next, MotorThread,
       Interrupt, UiThread

LEMMA PlantCtl ==
    ASSUME CtlInv, PlantTypeOK, [PlantNext]_plantVars PROVE CtlInv'
<1>1. CASE [Next]_vars
  BY <1>1, NextType, NextSupervision, NextDrive, PlantAssumption DEF CtlInv
<1>2. ASSUME NEW a \in Axis, PlantReceive(a) PROVE CtlInv'
  <2>1. Head(reading[a]) \in Int
    <3>1. reading[a] \in Seq(Int) /\ reading[a] # <<>>
      BY <1>2 DEF PlantReceive, PlantTypeOK
    <3> QED BY <3>1
  <2>2. ProcessFrame(a, Head(reading[a]))
    BY <1>2 DEF PlantReceive
  <2>3. TypeOK'
    BY <2>1, <2>2, ProcessFrameType DEF CtlInv
  <2>4. UNCHANGED <<pc, state, requests, enabled, tx, motor>> /\ pc = "drain"
    BY <2>2 DEF ProcessFrame, drive, rest
  <2>5. SupervisionInv'
    BY <2>4 DEF SupervisionInv
  <2>6. DriveInv'
    BY <2>4 DEF CtlInv, DriveInv, PositionToEnabledMotor, Held
  <2> QED BY <2>3, <2>5, <2>6 DEF CtlInv
<1> QED BY <1>1, <1>2, PlantStep

-----------------------------------------------------------------------------
(* The axes only restrict what the controller meets *)

PlantTypes ==
    /\ position \in [Axis -> Int] /\ goal \in [Axis -> Int]
    /\ increment \in [Axis -> Int] /\ reading \in [Axis -> Seq(Int)]

LEMMA ReplyType ==
    ASSUME PlantTypes, NEW a \in Axis, PlantReceive(a)
    PROVE  Head(reading[a]) \in Int /\ Tail(reading[a]) \in Seq(Int)
<1>1. reading[a] \in Seq(Int) /\ reading[a] # <<>>
  BY DEF PlantTypes, PlantReceive
<1> QED BY <1>1

LEMMA NextPlantTypes ==
    ASSUME TypeOK, PlantTypes, [PlantNext]_plantVars PROVE (TypeOK /\ PlantTypes)'
<1>0. target \in [Axis -> Int] /\ angle \in [Axis -> Int]
  BY DEF TypeOK, ControlTypeOK, FeedbackTypeOK
<1>1. TypeOK'
  <2>1. CASE [Next]_vars
    BY <2>1, NextType
  <2>2. ASSUME NEW a \in Axis, PlantReceive(a) PROVE TypeOK'
    BY <2>2, ReplyType, ProcessFrameType DEF PlantReceive
  <2> QED BY <2>1, <2>2, PlantStep
<1>2. ASSUME NEW d \in Elapse, PlantWake(d) PROVE PlantTypes'
  <2>1. Speed * d \in Nat
    <3>1. d \in Nat /\ Speed \in Nat
      BY TimingAssumption, PlantAssumption
    <3> QED BY <3>1
  <2> DEFINE s == Speed * d
  <2>2. position' = [a \in Axis |-> Approach(position[a], goal[a], s)]
    BY <1>2 DEF PlantWake
  <2> HIDE DEF s
  <2>3. \A a \in Axis : Approach(position[a], goal[a], s) \in Int
    <3>1. s \in Nat /\ \A a \in Axis : position[a] \in Int /\ goal[a] \in Int
      BY <2>1 DEF s, PlantTypes
    <3> QED BY <3>1, ApproachGoal
  <2> QED BY <1>2, <2>2, <2>3 DEF PlantWake, PlantTypes
<1>3. ASSUME NEW a \in Axis, PlantReceive(a) PROVE PlantTypes'
  <2>1. Tail(reading[a]) \in Seq(Int)
    BY <1>3, ReplyType
  <2> QED BY <1>3, <2>1 DEF PlantReceive, PlantTypes, plant
<1>4. ASSUME PlantTick PROVE PlantTypes'
  <2>1. \A a \in Axis : target[a] - angle[a] \in Int /\ increment[a] \in Int
    BY <1>0 DEF PlantTypes
  <2>2. increment' \in [Axis -> Int]
    BY <1>4, <2>1 DEF PlantTick, Increment
  <2>3. UNCHANGED <<position, goal, reading>>
    BY <1>4 DEF PlantTick, plant
  <2> QED BY <2>2, <2>3 DEF PlantTypes
<1>5. ASSUME NEW a \in Axis, PlantComplete(a) PROVE PlantTypes'
  <2>1. /\ position[a] \in Int /\ position[a] + increment[a] \in Int
        /\ Append(reading[a], position[a]) \in Seq(Int)
    BY DEF PlantTypes
  <2>2. goal' \in [Axis -> Int] /\ increment' \in [Axis -> Int] /\ position' = position
    BY <1>5, <2>1 DEF PlantComplete, PlantTypes
  <2>3. reading' \in [Axis -> Seq(Int)]
    BY <1>5, <2>1 DEF PlantComplete, PlantTypes
  <2> QED BY <2>2, <2>3 DEF PlantTypes
<1>6. ASSUME \/ UNCHANGED plantVars \/ PlantDrainDone \/ PlantPress
             \/ \E a \in Axis : \E deg \in Slider[a] : PlantSetTarget(a, deg)
      PROVE  PlantTypes'
  BY <1>6 DEF plantVars, plant, PlantDrainDone, PlantPress, PlantSetTarget, PlantTypes
<1> QED BY <1>1, <1>2, <1>3, <1>4, <1>5, <1>6 DEF PlantNext, PlantMotorThread

\* What motors do and answer is among what Gimbal allows for when a reply may carry
\* any angle (Feedback, which the axes make no use of), so that every safety theorem
\* about Gimbal holds with moving axes.
THEOREM PlantImplementsGimbal ==
    ASSUME \A a \in Axis : Feedback[a] = Int PROVE PlantSpec => Spec
<1>1. PlantInit => Init /\ TypeOK /\ PlantTypes
  <2> SUFFICES ASSUME PlantInit PROVE Init /\ TypeOK /\ PlantTypes
    OBVIOUS
  <2>1. Init /\ TypeOK
    BY InitType DEF PlantInit
  <2>2. \A a \in Axis : Parked[a] \subseteq Int
    BY PlantAssumption, AngleAssumption
  <2>3. position \in [Axis -> Int]
    BY <2>2 DEF PlantInit
  <2> QED BY <2>1, <2>3 DEF PlantInit, PlantTypes
<1>2. TypeOK /\ PlantTypes /\ [PlantNext]_plantVars => [Next]_vars
  <2> SUFFICES ASSUME PlantTypes, NEW a \in Axis, PlantReceive(a) PROVE Next
    BY PlantStep
  <2>1. Head(reading[a]) \in Feedback[a]
    BY ReplyType
  <2> QED BY <2>1 DEF PlantReceive, Receive, MotorThread, Next
<1> QED BY <1>1, <1>2, NextPlantTypes, PTL DEF PlantSpec, Spec

-----------------------------------------------------------------------------
(* What the steps of gimbal_tick do to the frames and the targets *)

LEMMA TickPlace ==
    ASSUME Tick
    PROVE  /\ pc \in {"tick", "motion", "center", "fault"}
           /\ pc' \in {"sleep", "motion", "center", "fault"}
           /\ pc' = "motion" => pc = "tick" /\ tx' = tx
BY DEF Tick, StartAccepted, StartRefused, RestartPlan, FaultPlace, BootProbe,
       NothingToDo, AwaitTx, OutsideAtStart, Enable, AskPosition, Proven, Ticking,
       SupervisionFault, ReleaseYaw, StopYawAtTarget, ToMotion, CommandHome,
       ReEnable, CommandTargets, AwaitCommand, Poll, AfterMotion, BecomeReady,
       KeepCentering, FaultStop, bus

\* Only the two commands queue a motion, and only for an axis that is known.
LEMMA CommandedAxes ==
    ASSUME Tick, NEW a \in Axis, tx[a] # "pos", tx'[a] = "pos"
    PROVE  /\ (CommandHome /\ dirty # {}) \/ (CommandTargets /\ a \in dirty)
           /\ a \in valid /\ target' = target
<1>1. CASE CommandHome
  <2>1. PICK A \in Accepts(Moves(Axis)) : tx' = Queue(A, "pos")
    BY <1>1 DEF CommandHome
  <2>2. a \in A /\ A \subseteq Moves(Axis)
    BY <2>1 DEF Queue, Accepts
  <2> QED BY <1>1, <2>2 DEF CommandHome, CommandDue, Moves, Settable
<1>5. CASE CommandTargets
  <2>1. PICK A \in Accepts(Moves(dirty)) : tx' = Queue(A, "pos")
    BY <1>5 DEF CommandTargets
  <2>2. a \in A /\ A \subseteq Moves(dirty)
    BY <2>1 DEF Queue, Accepts
  <2> QED BY <1>5, <2>2 DEF CommandTargets, Moves, Settable
<1>2. CASE StartAccepted \/ StartRefused \/ Enable \/ BootProbe \/ AskPosition
  BY <1>2 DEF StartAccepted, StartRefused, Enable, BootProbe, AskPosition, Queue
<1>3. CASE ReleaseYaw \/ StopYawAtTarget \/ ReEnable \/ Poll \/ FaultStop
  BY <1>3 DEF ReleaseYaw, StopYawAtTarget, ReEnable, Poll, FaultStop, Queue
<1>4. CASE \/ NothingToDo \/ AwaitTx \/ OutsideAtStart \/ SupervisionFault
           \/ ToMotion \/ AwaitCommand \/ BecomeReady \/ KeepCentering
  BY <1>4 DEF NothingToDo, AwaitTx, OutsideAtStart, SupervisionFault, ToMotion,
              AwaitCommand, BecomeReady, KeepCentering, bus
<1> QED BY <1>1, <1>2, <1>3, <1>4, <1>5 DEF Tick

\* Targets change only with a request, when no frame is outstanding.
LEMMA TargetsChange ==
    ASSUME PromptInv, Tick
    PROVE  target' = target \/ (target' = Center /\ \A a \in Axis : tx'[a] # "pos")
<1>1. CASE StartAccepted \/ StartRefused
  <2>1. target' = Center /\ BusIdle
    BY <1>1 DEF StartAccepted, StartRefused, RestartPlan, PromptInv
  <2>2. \A a \in Axis : tx'[a] # "pos"
    BY <1>1, <2>1 DEF StartAccepted, StartRefused, Queue, BusIdle, TxPending
  <2> QED BY <2>1, <2>2
<1>2. CASE ~(StartAccepted \/ StartRefused)
  BY <1>2 DEF Tick, BootProbe, NothingToDo, AwaitTx, OutsideAtStart, Enable,
              AskPosition, SupervisionFault, ReleaseYaw, StopYawAtTarget, ToMotion,
              CommandHome, ReEnable, CommandTargets, AwaitCommand, Poll,
              BecomeReady, KeepCentering, FaultStop, plan
<1> QED BY <1>1, <1>2

-----------------------------------------------------------------------------
(* Types, promptness and bounds *)

\* A motor that gets a command takes its axis to the target it was given.
LEMMA CompletePlant ==
    ASSUME PlantInv, NEW a \in Axis, PlantComplete(a)
    PROVE  /\ goal'[a] = IF tx[a] = "pos" THEN target[a]
                         ELSE IF tx[a] = "stop" THEN position[a] ELSE goal[a]
           /\ Answers(a)' = Answers(a) \/ Answers(a)' = Answers(a) \cup {position[a]}
           /\ Answers(a)' # Answers(a) => tx[a] = "query"
           /\ reading'[a] # reading[a] => tx[a] = "query"
           /\ tx'[a] = "none" /\ tx[a] # "none"
           /\ Len(reading'[a]) = owed'[a] /\ reading' \in [Axis -> Seq(Int)]
           /\ goal' \in [Axis -> Int] /\ increment' \in [Axis -> Int]
           /\ \A b \in Axis \ {a} : UNCHANGED <<goal[b], tx[b], reading[b], owed[b],
                                                increment[b]>>
           /\ UNCHANGED <<position, pc, state, plan, drive, rest, timers, feedback>>
<1> USE DEF PlantComplete
<1>0. TypeOK /\ PlantTypeOK /\ BusTypeOK
  BY DEF PlantInv, CtlInv, TypeOK
<1>1. /\ position[a] \in Int /\ goal[a] \in Int /\ increment[a] \in Int
      /\ target[a] \in Int /\ reading[a] \in Seq(Int) /\ owed[a] \in Nat
      /\ Len(reading[a]) = owed[a]
  BY <1>0, PlantFacts, BusAssumption DEF BusTypeOK, PlantTypeOK
<1>2. /\ tx'[a] = "none" /\ tx[a] # "none"
      /\ \A b \in Axis \ {a} : UNCHANGED <<tx[b], owed[b]>>
      /\ UNCHANGED <<position, pc, state, plan, drive, rest, timers, feedback>>
      /\ owed'[a] = owed[a] \/ (tx[a] = "query" /\ owed'[a] = owed[a] + 1)
  BY <1>0 DEF TxComplete, TxPending, BusTypeOK
<1>3. /\ goal'[a] = IF tx[a] = "pos" THEN target[a]
                    ELSE IF tx[a] = "stop" THEN position[a] ELSE goal[a]
      /\ goal' \in [Axis -> Int]
      /\ \A b \in Axis \ {a} : goal'[b] = goal[b]
  <2>1. tx[a] = "pos" => motor[a] # "idle" /\ position[a] + increment[a] = target[a]
    BY DEF PlantInv, CtlInv, DriveInv, PositionToEnabledMotor, BoundsInv
  <2>2. goal \in [Axis -> Int]
    BY <1>0 DEF PlantTypeOK
  <2> QED BY <1>1, <2>1, <2>2
<1>4. /\ increment' \in [Axis -> Int]
      /\ \A b \in Axis \ {a} : increment'[b] = increment[b]
  BY <1>0 DEF PlantTypeOK
<1>5. /\ Answers(a)' = Answers(a) \/ Answers(a)' = Answers(a) \cup {position[a]}
      /\ Answers(a)' # Answers(a) => tx[a] = "query"
      /\ reading'[a] # reading[a] => tx[a] = "query"
      /\ Len(reading'[a]) = owed'[a] /\ reading' \in [Axis -> Seq(Int)]
      /\ \A b \in Axis \ {a} : reading'[b] = reading[b]
  <2>0. reading \in [Axis -> Seq(Int)]
    BY <1>0 DEF PlantTypeOK
  <2>1. CASE owed'[a] > owed[a]
    <3>1. reading' = [reading EXCEPT ![a] = Append(reading[a], position[a])]
          /\ tx[a] = "query" /\ owed'[a] = owed[a] + 1
      BY <1>1, <1>2, <2>1
    <3>2. /\ reading'[a] = Append(reading[a], position[a])
          /\ \A b \in Axis \ {a} : reading'[b] = reading[b]
      BY <2>0, <3>1
    <3>3. Append(reading[a], position[a]) \in Seq(Int)
          /\ Len(Append(reading[a], position[a])) = Len(reading[a]) + 1
      BY <1>1
    <3>4. Answers(a)' = Answers(a) \cup {position[a]}
      <4>1. Answers(a)' = {Append(reading[a], position[a])[i] :
                               i \in DOMAIN Append(reading[a], position[a])}
        BY <3>2 DEF Answers
      <4> QED BY <1>1, <4>1, AnswersOf DEF Answers
    <3>5. reading' \in [Axis -> Seq(Int)]
      BY <2>0, <3>1, <3>3
    <3> QED BY <1>1, <3>1, <3>2, <3>3, <3>4, <3>5
  <2>2. CASE ~(owed'[a] > owed[a])
    <3>1. reading' = reading
      BY <2>2
    <3>2. owed'[a] = owed[a]
      BY <1>1, <1>2, <2>2
    <3> QED BY <1>1, <2>0, <3>1, <3>2 DEF Answers
  <2> QED BY <2>1, <2>2
<1> QED BY <1>2, <1>3, <1>4, <1>5

LEMMA WakePlant ==
    ASSUME PlantInv, NEW d \in Elapse, PlantWake(d), NEW a \in Axis
    PROVE  /\ position'[a] \in Int /\ position'[a] \in Hard(a)
           /\ goal[a] = position[a] => position'[a] = position[a]
           /\ goal[a] = target[a] => Distance(a, position'[a]) <= Distance(a, position[a])
<1>1. position[a] \in Int /\ goal[a] \in Int /\ position[a] \in Hard(a)
      /\ goal[a] \in Hard(a) /\ HardMin[a] \in Int /\ HardMax[a] \in Int
  BY PlantFacts DEF PlantInv, CtlInv, BoundsInv
<1>2. Speed * d \in Nat
  <2>1. d \in Nat /\ Speed \in Nat
    BY TimingAssumption, PlantAssumption
  <2> QED BY <2>1
<1>3. position'[a] = Approach(position[a], goal[a], Speed * d)
  BY DEF PlantWake
<1> DEFINE s == Speed * d
<1> HIDE DEF s
<1>4. position'[a] = Approach(position[a], goal[a], s) /\ s \in Nat
  BY <1>2, <1>3 DEF s
<1>5. /\ position'[a] \in Int
      /\ Abs(position'[a] - goal[a]) <= Abs(position[a] - goal[a])
      /\ goal[a] = position[a] => position'[a] = position[a]
  BY <1>1, <1>4, ApproachGoal
<1>6. position'[a] \in Hard(a)
  BY <1>1, <1>4, ApproachBetween DEF Hard
<1>7. ASSUME goal[a] = target[a]
      PROVE  Distance(a, position'[a]) <= Distance(a, position[a])
  BY <1>5, <1>7 DEF Distance
<1> QED BY <1>5, <1>6, <1>7

\* Between two turns the replies under way say where the axes are.
LEMMA ReceivePlant ==
    ASSUME PlantInv, NEW a \in Axis, PlantReceive(a)
    PROVE  /\ angle'[a] \in Answers(a) /\ Answers(a)' \subseteq Answers(a)
           /\ Len(reading'[a]) = owed'[a] /\ reading' \in [Axis -> Seq(Int)]
           /\ valid' = valid \cup {a} /\ pc = "drain"
           /\ \A b \in Axis \ {a} : UNCHANGED <<angle[b], reading[b], owed[b]>>
           /\ UNCHANGED <<plant, increment, tx, pc, state, plan, drive>>
<1>1. TypeOK /\ PlantTypeOK /\ reading \in [Axis -> Seq(Int)] /\ reading[a] \in Seq(Int)
      /\ reading[a] # <<>> /\ Len(reading[a]) = owed[a] /\ owed[a] \in Nat
      /\ angle \in [Axis -> Int] /\ owed \in [Axis -> 0 .. MaxOwed]
  BY BusAssumption
  DEF PlantReceive, PlantInv, CtlInv, PlantTypeOK, TypeOK, BusTypeOK, FeedbackTypeOK
<1>2. /\ angle'[a] = Head(reading[a]) /\ owed'[a] = owed[a] - 1
      /\ reading'[a] = Tail(reading[a])
      /\ reading' = [reading EXCEPT ![a] = Tail(reading[a])]
      /\ \A b \in Axis \ {a} : UNCHANGED <<angle[b], reading[b], owed[b]>>
      /\ valid' = valid \cup {a} /\ pc = "drain"
      /\ UNCHANGED <<plant, increment, tx, pc, state, plan, drive>>
  BY <1>1 DEF PlantReceive, ProcessFrame
<1>3. /\ Head(reading[a]) \in Answers(a)
      /\ Tail(reading[a]) \in Seq(Int) /\ Len(Tail(reading[a])) = Len(reading[a]) - 1
  BY <1>1, AnswersOf DEF Answers
<1>4. Answers(a)' \subseteq Answers(a)
  <2>1. Answers(a)' = {Tail(reading[a])[i] : i \in DOMAIN Tail(reading[a])}
    BY <1>2 DEF Answers
  <2> QED BY <1>1, <2>1, AnswersOf DEF Answers
<1>5. reading' \in [Axis -> Seq(Int)]
  BY <1>1, <1>2, <1>3
<1> QED BY <1>1, <1>2, <1>3, <1>4, <1>5

\* The loop begins its decisions when no reply is under way.
LEMMA DrainPlant ==
    ASSUME PlantInv, Prompt, PlantDrainDone
    PROVE  /\ \A a \in Axis : reading[a] = <<>>
           /\ pc = "drain" /\ pc' = "tick" /\ BusIdle
           /\ UNCHANGED <<plant, increment, reading, tx, state, plan, drive, feedback, owed>>
<1>1. /\ \A a \in Axis : owed[a] = 0
      /\ pc = "drain" /\ pc' = "tick" /\ BusIdle
      /\ UNCHANGED <<plant, increment, reading, tx, state, plan, drive, feedback, owed>>
  BY DEF PlantDrainDone, DrainDone, PlantInv, PromptInv, bus
<1>2. \A a \in Axis : reading[a] \in Seq(Int) /\ Len(reading[a]) = owed[a]
  BY DEF PlantInv, PlantTypeOK
<1>3. \A a \in Axis : reading[a] = <<>>
  BY <1>1, <1>2, AnswersOf
<1> QED BY <1>1, <1>3

\* A slider takes a new target within the range of the axis.
LEMMA SetTargetPlant ==
    ASSUME PlantInv, Patient, NEW a \in Axis, NEW deg \in Slider[a], PlantSetTarget(a, deg)
    PROVE  /\ target'[a] \in Hard(a) /\ Settled(a)
           /\ \A b \in Axis \ {a} : target'[b] = target[b]
           /\ pc = "sleep" /\ state = "READY" /\ dirty' = dirty \cup {a}
           /\ UNCHANGED <<plant, increment, reading, pc, state, drive, rest, feedback, bus>>
<1>1. deg \in Int /\ deg \in CtlMin[a] .. CtlMax[a] /\ target \in [Axis -> Int]
      /\ target' = [target EXCEPT ![a] = deg]
  BY AngleAssumption
  DEF PlantSetTarget, SetTarget, PlantInv, CtlInv, TypeOK, ControlTypeOK
<1>2. target'[a] = deg /\ \A b \in Axis \ {a} : target'[b] = target[b]
  BY <1>1
<1>3. deg \in Hard(a)
  BY <1>1, AngleAssumption DEF Hard
<1> QED BY <1>2, <1>3 DEF PlantSetTarget, SetTarget, MarkDirty

LEMMA AnswersFrame ==
    ASSUME NEW a \in Axis, reading'[a] = reading[a] PROVE Answers(a)' = Answers(a)
BY DEF Answers

LEMMA TickBasics == ASSUME PlantInv, PlantTick PROVE Basics'
<1>0. /\ Tick /\ TypeOK /\ BusTypeOK /\ ControlTypeOK
      /\ PlantTypeOK /\ PromptInv /\ BoundsInv
      /\ UNCHANGED <<position, goal, reading, owed, angle>>
  BY TickFrame DEF PlantTick, PlantInv, CtlInv, TypeOK, plant
<1>1. ASSUME NEW a \in Axis
      PROVE  /\ target[a] - angle[a] \in Int /\ increment[a] \in Int
             /\ position[a] \in Int /\ angle[a] \in Int /\ target[a] \in Int
             /\ Center[a] \in Hard(a)
  BY <1>0, PlantFacts
<1>2. PlantTypeOK'
  <2>1. increment' \in [Axis -> Int]
    BY <1>1 DEF PlantTick, Increment
  <2> QED BY <1>0, <2>1 DEF PlantTypeOK
<1>3. PromptInv'
  BY <1>0, TickPlace, AnswersFrame DEF PromptInv, BusIdle, TxPending
<1>4. ASSUME NEW a \in Axis
      PROVE  /\ (position[a] \in Hard(a))' /\ (goal[a] \in Hard(a))'
             /\ (target[a] \in Hard(a))'
  BY <1>0, <1>1, TargetsChange DEF BoundsInv, Hard
<1>5. ASSUME NEW a \in Axis, tx'[a] = "pos"
      PROVE  position'[a] + increment'[a] = target'[a]
  <2>1. target' = target
    BY <1>0, <1>5, TargetsChange
  <2>2. CASE tx[a] = "pos"
    <3>1. increment'[a] = increment[a]
      BY <2>2 DEF PlantTick, TxPending
    <3> QED BY <1>0, <2>1, <2>2, <3>1 DEF BoundsInv
  <2>3. CASE tx[a] # "pos"
    <3>1. tx[a] = "none"
      BY <1>0, <1>5, <2>3, TickFree
    <3>2. increment'[a] = target[a] - angle[a]
      BY <1>5, <3>1 DEF PlantTick, TxPending, Increment
    <3>3. /\ (CommandHome /\ dirty # {}) \/ (CommandTargets /\ a \in dirty)
          /\ a \in valid
      BY <1>0, <1>5, <2>3, CommandedAxes
    <3>4. Resting(a)
      <4>1. RestInv /\ pc = "motion" /\ state \in Armed
            /\ ((state = "CENTERING" /\ dirty # {}) \/ a \in dirty)
        BY <3>3 DEF PlantInv, CommandHome, CommandTargets, Armed
      <4> QED BY <4>1 DEF RestInv
    <3>5. angle[a] = position[a]
      BY <3>3, <3>4 DEF Resting
    <3> QED BY <1>0, <1>1, <2>1, <3>2, <3>5
  <2> QED BY <2>2, <2>3
<1> QED BY <1>2, <1>3, <1>4, <1>5 DEF Basics, BoundsInv

LEMMA WakeBasics ==
    ASSUME PlantInv, Prompt, NEW d \in Elapse, PlantWake(d) PROVE Basics'
<1>0. /\ BusIdle /\ pc' = "drain" /\ PlantTypeOK /\ BoundsInv
      /\ UNCHANGED <<goal, increment, reading, owed, tx, target>>
  BY DEF PlantWake, Wake, PlantInv, bus, plan
<1>1. \A a \in Axis : position'[a] \in Int /\ position'[a] \in Hard(a)
  BY WakePlant
<1>2. PlantTypeOK'
  BY <1>0, <1>1 DEF PlantTypeOK, PlantWake
<1>3. PromptInv'
  BY <1>0 DEF PromptInv, BusIdle, TxPending
<1>4. BoundsInv'
  BY <1>0, <1>1 DEF BoundsInv, Hard, BusIdle, TxPending
<1> QED BY <1>2, <1>3, <1>4 DEF Basics

LEMMA ReceiveBasics ==
    ASSUME PlantInv, NEW a \in Axis, PlantReceive(a) PROVE Basics'
<1>0. /\ PlantTypeOK /\ BoundsInv /\ PromptInv
      /\ UNCHANGED <<position, goal, increment, tx, pc, target>> /\ pc = "drain"
  BY ReceivePlant DEF PlantInv, plan, plant
<1>1. PlantTypeOK'
  BY <1>0, ReceivePlant DEF PlantTypeOK
<1>2. PromptInv'
  BY <1>0 DEF PromptInv, BusIdle, TxPending
<1>3. BoundsInv'
  BY <1>0 DEF BoundsInv, Hard
<1> QED BY <1>1, <1>2, <1>3 DEF Basics

LEMMA CompleteBasics ==
    ASSUME PlantInv, NEW a \in Axis, PlantComplete(a) PROVE Basics'
<1>0. /\ PlantTypeOK /\ BoundsInv /\ PromptInv
      /\ UNCHANGED <<position, pc, target>>
  BY CompletePlant DEF PlantInv, plan
<1>1. PlantTypeOK'
  BY <1>0, CompletePlant DEF PlantTypeOK
<1>2. PromptInv'
  <2>1. pc \in {"sleep", "center", "fault"} \/ pc \notin {"drain", "tick", "motion"}
    BY <1>0, CompletePlant DEF PromptInv, BusIdle, TxPending
  <2>2. \A b \in Axis : Answers(b)' = Answers(b) \/ Answers(b)' = Answers(b) \cup {position[b]}
    BY <1>0, CompletePlant, AnswersFrame
  <2> QED BY <1>0, <2>1, <2>2 DEF PromptInv
<1>3. BoundsInv'
  <2>1. \A b \in Axis : goal'[b] \in {goal[b], target[b], position[b]}
    BY CompletePlant
  <2>2. \A b \in Axis : tx'[b] = "pos" =>
            tx[b] = "pos" /\ increment'[b] = increment[b]
    BY CompletePlant
  <2> QED BY <1>0, <2>1, <2>2 DEF BoundsInv, Hard
<1> QED BY <1>1, <1>2, <1>3 DEF Basics

LEMMA NextBasics ==
    ASSUME Patient, Prompt, PlantInv, [PlantNext]_plantVars PROVE Basics'
<1>0. PlantTypeOK /\ BoundsInv /\ PromptInv
  BY DEF PlantInv
<1>1. ASSUME UNCHANGED plantVars \/ PlantPress PROVE Basics'
  <2>1. UNCHANGED <<position, goal, increment, reading, owed, tx, target, pc>>
    BY <1>1 DEF plantVars, vars, plant, PlantPress, PressButton, plan, bus
  <2> QED BY <1>0, <2>1 DEF Basics, PlantTypeOK, BoundsInv, PromptInv, Hard,
                            Answers, BusIdle, TxPending
<1>2. CASE PlantDrainDone
  <2>1. /\ UNCHANGED <<position, goal, increment, reading, owed, tx, target>>
        /\ pc' = "tick" /\ BusIdle /\ \A a \in Axis : reading[a] = <<>>
    BY <1>2, DrainPlant DEF plant, plan
  <2>2. \A a \in Axis : Answers(a)' = {}
    BY <2>1 DEF Answers
  <2> QED BY <1>0, <2>1, <2>2 DEF Basics, PlantTypeOK, BoundsInv, PromptInv, Hard,
                            BusIdle, TxPending
<1>3. ASSUME NEW a \in Axis, NEW deg \in Slider[a], PlantSetTarget(a, deg)
      PROVE  Basics'
  <2>1. /\ UNCHANGED <<position, goal, increment, reading, owed, tx, pc>>
        /\ target'[a] \in Hard(a) /\ tx[a] # "pos"
        /\ \A b \in Axis \ {a} : target'[b] = target[b]
    BY <1>3, SetTargetPlant DEF plant, bus, Settled
  <2>2. PlantTypeOK'
    BY <1>0, <2>1 DEF PlantTypeOK
  <2>4. PromptInv'
    BY <1>0, <2>1, AnswersFrame DEF PromptInv, BusIdle, TxPending
  <2>3. BoundsInv'
    BY <1>0, <2>1 DEF BoundsInv, Hard
  <2> QED BY <2>2, <2>3, <2>4 DEF Basics
<1> QED
  BY <1>1, <1>2, <1>3, TickBasics, WakeBasics, ReceiveBasics, CompleteBasics
  DEF PlantNext, PlantMotorThread

-----------------------------------------------------------------------------
(* An axis with a command pending is at rest *)

\* Rest outlasts every step that moves no axis, takes no reply and sends no motion.
LEMMA RestKept ==
    ASSUME NEW a \in Axis, Resting(a), tx'[a] # "pos", valid' \subseteq valid,
           UNCHANGED <<position[a], goal[a], reading[a], angle[a]>>
    PROVE  Resting(a)'
BY AnswersFrame DEF Resting

\* A turn that waits for both axes finds them at rest.
LEMMA WaitingAtRest ==
    ASSUME RestInv, BusIdle, state = "WAITING", NEW a \in Axis PROVE Resting(a)
BY DEF RestInv, BusIdle, TxPending, Stopping

LEMMA TickRest == ASSUME PlantInv, PlantTick PROVE RestInv'
<1>0. /\ Tick /\ PromptInv /\ RestInv /\ dirty \subseteq Axis
      /\ UNCHANGED <<position, goal, reading, angle>>
  BY TickFrame
  DEF PlantTick, PlantInv, CtlInv, TypeOK, ControlTypeOK, plant
<1>1. CASE StartAccepted
  <2>1. /\ pc = "tick" /\ state' = "WAITING" /\ target' = Center /\ valid' = {}
        /\ tx' = Queue(Axis, "stop")
    BY <1>1 DEF StartAccepted, RestartPlan, ForgetFeedback
  <2>2. \A a \in Axis : Stopping(a)'
    BY <1>0, <2>1 DEF Stopping, Queue, PromptInv
  <2> QED BY <2>1, <2>2 DEF RestInv, Armed
<1>2. CASE StartRefused
  <2>1. /\ pc = "tick" /\ state' = state /\ target' = Center /\ valid' = {}
        /\ dirty' = Axis /\ \A a \in Axis : tx'[a] \in {tx[a], "stop"}
        /\ pc' = "fault" \/ state = "FAULT"
    BY <1>2 DEF StartRefused, RestartPlan, ForgetFeedback, FaultPlace, Queue
  <2>2. BusIdle
    BY <1>0, <2>1 DEF PromptInv
  <2>3. ASSUME state = "WAITING", NEW a \in Axis PROVE Resting(a)'
    <3>1. Resting(a) /\ tx'[a] # "pos"
      BY <1>0, <2>1, <2>2, <2>3, WaitingAtRest DEF BusIdle, TxPending
    <3> QED BY <1>0, <2>1, <3>1, RestKept
  <2> QED BY <1>0, <2>1, <2>3 DEF RestInv, Armed
<1>3. CASE Enable
  <2>1. /\ pc = "tick" /\ state = "WAITING" /\ UNCHANGED <<target, valid>>
        /\ \A a \in Axis : tx'[a] \in {tx[a], "on"}
        /\ \/ state' = "CENTERING" /\ dirty' = Axis
           \/ state' = state
    BY <1>3 DEF Enable, Proven, Ticking, Queue, feedback
  <2>2. BusIdle
    BY <1>0, <2>1 DEF PromptInv
  <2>3. ASSUME NEW a \in Axis PROVE Resting(a)'
    <3>1. Resting(a) /\ tx'[a] # "pos"
      BY <1>0, <2>1, <2>2, WaitingAtRest DEF BusIdle, TxPending
    <3> QED BY <1>0, <2>1, <3>1, RestKept
  <2> QED BY <1>0, <2>1, <2>3 DEF RestInv, Armed
<1>4. CASE BootProbe \/ AskPosition
  <2>1. /\ pc = "tick" /\ UNCHANGED <<state, target, valid>> /\ state \notin Armed
        /\ \A a \in Axis : tx'[a] \in {tx[a], "query"}
    BY <1>4 DEF BootProbe, AskPosition, Ticking, Queue, plan, feedback, Armed
  <2>2. BusIdle
    BY <1>0, <2>1 DEF PromptInv
  <2>3. ASSUME state = "WAITING", NEW a \in Axis PROVE Resting(a)'
    <3>1. Resting(a) /\ tx'[a] # "pos"
      BY <1>0, <2>1, <2>2, <2>3, WaitingAtRest DEF BusIdle, TxPending
    <3> QED BY <1>0, <2>1, <3>1, RestKept
  <2> QED BY <1>0, <2>1, <2>3 DEF RestInv, Armed
<1>5. CASE \/ NothingToDo \/ AwaitTx \/ OutsideAtStart \/ SupervisionFault
           \/ ToMotion \/ AwaitCommand \/ KeepCentering
  <2>1. UNCHANGED <<state, target, dirty, valid, tx>> /\ pc # "fault"
    BY <1>5 DEF NothingToDo, AwaitTx, OutsideAtStart, Proven, Ticking,
                SupervisionFault, ToMotion, AwaitCommand, KeepCentering, plan,
                feedback, bus
  <2>2. \A a \in Axis : /\ Resting(a) => Resting(a)'
                        /\ Stopping(a) => Stopping(a)'
    BY <1>0, <2>1 DEF Resting, Stopping, Answers
  <2> QED BY <1>0, <2>1, <2>2 DEF RestInv
<1>6. CASE ReleaseYaw \/ StopYawAtTarget \/ ReEnable \/ Poll
  <2>1. /\ pc # "fault" /\ UNCHANGED <<state, target, dirty, valid>>
        /\ state \in Armed
        /\ \A a \in Axis : tx'[a] \in {tx[a], "stop", "on", "query"}
    <3>1. CASE ReleaseYaw \/ StopYawAtTarget
      BY <3>1 DEF ReleaseYaw, StopYawAtTarget, Ticking, Queue, plan, feedback, Armed
    <3>2. CASE ReEnable
      BY <3>2 DEF ReEnable, Queue, plan, feedback, Armed
    <3>3. CASE Poll
      <4>1. state \in Armed
        BY <3>3 DEF Poll, PlantInv, CtlInv, SupervisionInv
      <4> QED BY <3>3, <4>1 DEF Poll, Queue, plan, feedback
    <3> QED BY <1>6, <3>1, <3>2, <3>3
  <2>2. ASSUME NEW a \in Axis, Resting(a) PROVE Resting(a)'
    <3>1. tx'[a] # "pos"
      BY <2>1, <2>2 DEF Resting
    <3> QED BY <1>0, <2>1, <2>2, <3>1, RestKept
  <2> QED BY <1>0, <2>1, <2>2 DEF RestInv, Armed
<1>7. CASE CommandHome \/ CommandTargets
  <2>1. /\ UNCHANGED <<state, target>> /\ state \in Armed
        /\ dirty' = {} \/ (pc' = "fault" /\ dirty' = dirty)
    BY <1>7 DEF CommandHome, CommandTargets, ClearTargets, Armed
  <2> QED BY <1>0, <2>1 DEF RestInv, Armed
<1>8. CASE BecomeReady
  BY <1>8 DEF BecomeReady, RestInv
<1>9. CASE FaultStop
  BY <1>9 DEF FaultStop, RestInv, Armed
<1> QED
  BY <1>0, <1>1, <1>2, <1>3, <1>4, <1>5, <1>6, <1>7, <1>8, <1>9 DEF Tick

\* While the axes move no frame is outstanding, and an axis at rest stays there.
LEMMA WakeRest ==
    ASSUME PlantInv, Prompt, NEW d \in Elapse, PlantWake(d) PROVE RestInv'
<1>1. /\ BusIdle /\ pc = "sleep" /\ RestInv /\ dirty \subseteq Axis
      /\ UNCHANGED <<goal, reading, tx, state, target, dirty, valid, angle>>
  BY DEF PlantWake, Wake, PlantInv, CtlInv, TypeOK, ControlTypeOK, bus, plan
<1>2. ASSUME NEW a \in Axis, Resting(a) PROVE Resting(a)'
  <2>1. position'[a] = position[a]
    BY <1>2, WakePlant DEF Resting
  <2>2. tx'[a] # "pos"
    BY <1>1, <1>2 DEF Resting
  <2> QED BY <1>1, <1>2, <2>1, <2>2, RestKept
<1>3. \A a \in Axis : ~Stopping(a)
  BY <1>1 DEF Stopping, BusIdle, TxPending
<1> QED BY <1>1, <1>2, <1>3 DEF RestInv

\* A reply taken from an axis at rest says where it is.
LEMMA ReceiveRest ==
    ASSUME PlantInv, NEW a \in Axis, PlantReceive(a) PROVE RestInv'
<1>1. /\ RestInv /\ BusIdle /\ dirty \subseteq Axis /\ pc = "drain"
      /\ UNCHANGED <<position, goal, tx, pc, state, target, dirty>>
      /\ angle'[a] \in Answers(a) /\ Answers(a)' \subseteq Answers(a)
      /\ valid' = valid \cup {a}
      /\ \A b \in Axis \ {a} : UNCHANGED <<angle[b], reading[b]>>
  BY ReceivePlant
  DEF PlantInv, CtlInv, TypeOK, ControlTypeOK, PromptInv, plant, plan
<1>2. ASSUME NEW b \in Axis, Resting(b) PROVE Resting(b)'
  <2>1. CASE b = a
    BY <1>1, <1>2, <2>1 DEF Resting
  <2>2. CASE b # a
    <3>1. Answers(b)' = Answers(b)
      BY <1>1, <2>2, AnswersFrame
    <3> QED BY <1>1, <1>2, <2>2, <3>1 DEF Resting
  <2> QED BY <2>1, <2>2
<1>3. \A b \in Axis : ~Stopping(b)
  BY <1>1 DEF Stopping, BusIdle, TxPending
<1> QED BY <1>1, <1>2, <1>3 DEF RestInv

\* A motor that is told to stop brings its axis to rest.
LEMMA CompleteRest ==
    ASSUME PlantInv, NEW a \in Axis, PlantComplete(a) PROVE RestInv'
<1>1. /\ RestInv /\ dirty \subseteq Axis
      /\ UNCHANGED <<position, pc, state, target, dirty, valid, angle>>
      /\ goal'[a] = IF tx[a] = "pos" THEN target[a]
                    ELSE IF tx[a] = "stop" THEN position[a] ELSE goal[a]
      /\ Answers(a)' \subseteq Answers(a) \cup {position[a]}
      /\ reading'[a] # reading[a] => tx[a] = "query"
      /\ tx'[a] = "none"
      /\ \A b \in Axis \ {a} : UNCHANGED <<goal[b], tx[b], reading[b]>>
  BY CompletePlant DEF PlantInv, CtlInv, TypeOK, ControlTypeOK, plan, feedback
<1>2. ASSUME NEW b \in Axis, Resting(b) PROVE Resting(b)'
  <2>1. CASE b = a
    BY <1>1, <1>2, <2>1 DEF Resting
  <2>2. CASE b # a
    BY <1>1, <1>2, <2>2, RestKept DEF Resting
  <2> QED BY <2>1, <2>2
<1>3. ASSUME NEW b \in Axis, Stopping(b) PROVE (Stopping(b) \/ Resting(b))'
  <2>1. CASE b = a
    <3>1. goal'[a] = position[a] /\ reading'[a] = <<>> /\ a \notin valid
      BY <1>1, <1>3, <2>1 DEF Stopping
    <3>2. Answers(a)' = {}
      BY <3>1 DEF Answers
    <3> QED BY <1>1, <2>1, <3>1, <3>2 DEF Resting
  <2>2. CASE b # a
    BY <1>1, <1>3, <2>2 DEF Stopping
  <2> QED BY <2>1, <2>2
<1> QED BY <1>1, <1>2, <1>3 DEF RestInv

LEMMA NextRest ==
    ASSUME Patient, Prompt, PlantInv, [PlantNext]_plantVars PROVE RestInv'
<1>0. RestInv /\ PromptInv /\ dirty \subseteq Axis
  BY DEF PlantInv, CtlInv, TypeOK, ControlTypeOK
<1>1. ASSUME UNCHANGED plantVars \/ PlantPress \/ PlantDrainDone PROVE RestInv'
  <2>1. /\ UNCHANGED <<position, goal, reading, tx, target, state, dirty, valid, angle>>
        /\ pc' = pc \/ pc # "fault"
    BY <1>1 DEF plantVars, vars, plant, PlantPress, PressButton, PlantDrainDone,
                DrainDone, plan, feedback, bus
  <2>2. \A a \in Axis : (Resting(a) => Resting(a)') /\ (Stopping(a) => Stopping(a)')
    BY <2>1 DEF Resting, Stopping, Answers
  <2> QED BY <1>0, <2>1, <2>2 DEF RestInv
<1>2. ASSUME NEW a \in Axis, NEW deg \in Slider[a], PlantSetTarget(a, deg)
      PROVE  RestInv'
  <2>1. /\ UNCHANGED <<position, goal, reading, tx, state, valid, angle>>
        /\ Settled(a) /\ pc = "sleep" /\ pc' = pc
        /\ dirty' = dirty \cup {a} /\ state = "READY"
    BY <1>2, SetTargetPlant DEF plant, feedback, bus
  <2>2. \A b \in dirty \cup {a} : Resting(b)
    BY <1>0, <2>1 DEF RestInv, PromptInv, Armed, Settled, Resting
  <2>3. \A b \in dirty \cup {a} : Resting(b)'
    BY <1>0, <2>1, <2>2 DEF Resting, Answers
  <2> QED BY <1>0, <2>1, <2>3 DEF RestInv
<1> QED
  BY <1>1, <1>2, TickRest, WakeRest, ReceiveRest, CompleteRest
  DEF PlantNext, PlantMotorThread

-----------------------------------------------------------------------------
(* Between the stops *)

LEMMA PlantInitInv == PlantInit => PlantInv
<1> SUFFICES ASSUME PlantInit PROVE PlantInv
  OBVIOUS
<1>1. Init
  BY DEF PlantInit
<1>2. CtlInv
  BY <1>1, InitType, InitSupervision, InitDrive DEF CtlInv
<1>3. PICK yaw \in Parked[Yaw] : \E pitch \in Parked[Pitch] :
          position = [a \in Axis |-> IF a = Yaw THEN yaw ELSE pitch]
  BY DEF PlantInit
<1>4. PICK pitch \in Parked[Pitch] :
          position = [a \in Axis |-> IF a = Yaw THEN yaw ELSE pitch]
  BY <1>3
<1>5. /\ position \in [Axis -> Int] /\ \A a \in Axis : position[a] \in Hard(a)
      /\ goal = position
  BY <1>4, PlantAssumption DEF PlantInit, Hard
<1>6. /\ reading = [a \in Axis |-> <<>>] /\ increment = [a \in Axis |-> 0]
      /\ owed = [a \in Axis |-> 0] /\ tx = [a \in Axis |-> "none"]
      /\ target = Center /\ pc = "sleep" /\ state \in {"BOOT", "FAULT"}
  BY <1>1 DEF PlantInit, Init
<1>7. PlantTypeOK
  <2>1. reading \in [Axis -> Seq(Int)] /\ \A a \in Axis : Len(reading[a]) = owed[a]
    BY <1>6
  <2> QED BY <1>5, <1>6, <2>1 DEF PlantTypeOK
<1>8. PromptInv
  BY <1>6 DEF PromptInv, Answers
<1>9. BoundsInv
  <2>1. \A a \in Axis : Center[a] \in Hard(a)
    BY AngleAssumption DEF Hard
  <2> QED BY <1>5, <1>6, <2>1 DEF BoundsInv
<1>10. RestInv
  BY <1>6 DEF RestInv, Armed
<1> QED BY <1>2, <1>7, <1>8, <1>9, <1>10 DEF PlantInv

LEMMA PlantNextInv ==
    ASSUME Patient, Prompt, PlantInv, [PlantNext]_plantVars PROVE PlantInv'
BY PlantCtl, NextBasics, NextRest DEF PlantInv, Basics

\* If the bus is prompt and the user patient, no motor is ever sent past a
\* mechanical stop: every increment ends at an accepted target, because it is
\* taken from where the axis is at rest (README.md:72, gimbal.c:6-7).
THEOREM MotorsStayWithinStops ==
    Patient /\ Prompt => (PlantSpec => []WithinStops)
<1> SUFFICES ASSUME Patient, Prompt PROVE PlantSpec => []WithinStops
  OBVIOUS
<1>1. PlantInv /\ [PlantNext]_plantVars => PlantInv'
  BY PlantNextInv
<1>2. PlantInv => WithinStops
  BY DEF PlantInv, BoundsInv, WithinStops, Hard
<1> QED BY <1>1, <1>2, PlantInitInv, PTL DEF PlantSpec

-----------------------------------------------------------------------------
(* The course of an axis *)

\* Yaw is released, and the motion commands wait for it.
LEMMA NextRelease ==
    ASSUME ReleaseInv, [PlantNext]_plantVars PROVE ReleaseInv'
<1>1. CASE Tick
  BY <1>1, TickPlace DEF Tick, StartAccepted, StartRefused, RestartPlan, FaultPlace,
       BootProbe, NothingToDo, AwaitTx, OutsideAtStart, Enable, AskPosition,
       SupervisionFault, ReleaseYaw, StopYawAtTarget, ToMotion, CommandHome,
       ReEnable, CommandTargets, AwaitCommand, Poll, AfterMotion, BecomeReady,
       KeepCentering, FaultStop, ReleaseInv, drive
<1>2. ASSUME NEW d \in Elapse, PlantWake(d) PROVE ReleaseInv'
  BY <1>2 DEF PlantWake, Wake, ReleaseInv
<1>3. ASSUME NEW a \in Axis, PlantReceive(a) \/ PlantComplete(a)
      PROVE  ReleaseInv'
  BY <1>3 DEF PlantReceive, ProcessFrame, PlantComplete, TxComplete, ReleaseInv, drive
<1>4. CASE PlantDrainDone
  BY <1>4 DEF PlantDrainDone, DrainDone, ReleaseInv
<1>5. CASE UNCHANGED plantVars \/ PlantPress
  BY <1>5 DEF plantVars, vars, PlantPress, PressButton, ReleaseInv, drive
<1>6. ASSUME NEW a \in Axis, NEW deg \in Slider[a], PlantSetTarget(a, deg)
      PROVE  ReleaseInv'
  BY <1>6 DEF PlantSetTarget, SetTarget, ReleaseInv
<1> QED
  BY <1>1, <1>2, <1>3, <1>4, <1>5, <1>6
  DEF PlantNext, PlantMotorThread, PlantTick

LEMMA DistanceType ==
    ASSUME PlantInv, NEW a \in Axis, NEW x \in Int PROVE Distance(a, x) \in Nat
<1>1. target[a] \in Int
  BY PlantFacts DEF PlantInv, CtlInv
<1> QED BY <1>1, DistanceOf DEF Distance

\* Of an axis at rest everything that was seen is where it is.
LEMMA CloserAtRest == ASSUME PlantInv, NEW a \in Axis, Resting(a) PROVE Closer(a)
<1>1. position[a] \in Int
  BY PlantFacts DEF PlantInv, CtlInv
<1>2. Distance(a, position[a]) \in Nat
  BY <1>1, DistanceType
<1> QED BY <1>2 DEF Closer, Resting

\* An axis stays on its course while it is not moved and no motion or stop is sent.
LEMMA CourseKept ==
    ASSUME NEW a \in Axis,
           UNCHANGED <<position[a], goal[a], reading[a], angle[a], target[a]>>,
           tx'[a] = tx[a] \/ (tx[a] = "none" /\ tx'[a] \in {"on", "query", "stop"})
    PROVE  /\ Closer(a) /\ valid' \subseteq valid => Closer(a)'
           /\ OnCourse(a) => OnCourse(a)'
           /\ Near(a)' <=> Near(a)
BY AnswersFrame DEF Closer, OnCourse, Near, Distance

LEMMA CourseFrame ==
    ASSUME CourseInv, state \in Armed, pc # "fault", valid' \subseteq valid,
           UNCHANGED <<position, goal, reading, angle, target, dirty, idleStop, state>>,
           \A a \in Axis : \/ tx'[a] = tx[a]
                           \/ tx[a] = "none" /\ tx'[a] \in {"on", "query"}
    PROVE  CourseInv'
<1>1. ASSUME NEW a \in Axis
      PROVE  /\ Closer(a) => Closer(a)'
             /\ OnCourse(a) => OnCourse(a)'
             /\ Near(a)' <=> Near(a)
             /\ tx'[a] = "stop" => tx[a] = "stop"
  BY CourseKept
<1> QED BY <1>1 DEF CourseInv

\* A released yaw has reached home, or its target.
LEMMA ReleaseCourse ==
    ASSUME IInv, PlantTick, ReleaseYaw \/ StopYawAtTarget PROVE CourseInv'
<1>0. /\ CourseInv /\ TypeOK /\ Tick /\ PromptInv
      /\ UNCHANGED <<position, goal, reading, angle, target, dirty, valid, state>>
  BY TickFrame
  DEF PlantTick, IInv, PlantInv, CtlInv, plant, ReleaseYaw, StopYawAtTarget,
      feedback, plan
<1>1. state = "READY" /\ pc = "tick" /\ BusIdle
  BY <1>0 DEF ReleaseYaw, StopYawAtTarget, Ticking, PromptInv
<1>2. tx'[Pitch] = tx[Pitch] /\ tx'[Yaw] \in {tx[Yaw], "stop"}
  <2>1. \A A \in Accepts({Yaw}) : A \subseteq {Yaw}
    BY DEF Accepts
  <2> QED BY <2>1 DEF ReleaseYaw, StopYawAtTarget, Released, Queue
<1>3. \A a \in Axis : /\ Closer(a)' /\ (a \notin dirty => OnCourse(a)')
                      /\ Near(a)' <=> Near(a)
  BY <1>0, <1>1, <1>2, CourseKept DEF CourseInv, Armed, BusIdle, TxPending
<1>4. ASSUME pc' # "fault", Yaw \notin dirty PROVE Near(Yaw)
  <2>1. CASE ReleaseYaw
    BY <1>0, <1>1, <1>4, <2>1 DEF ReleaseYaw, CourseInv, Armed
  <2>2. CASE StopYawAtTarget
    <3>1. /\ Abs(angle[Yaw] - target[Yaw]) <= IdleTol /\ Yaw \in valid
      BY <2>2 DEF StopYawAtTarget, AtRest, Supervised, BothFresh, Fresh
    <3>2. Distance(Yaw, position[Yaw]) <= Distance(Yaw, angle[Yaw])
      BY <1>0, <1>1, <3>1 DEF CourseInv, Armed, Closer
    <3>3. position[Yaw] \in Int /\ angle[Yaw] \in Int
      BY <1>0, PlantFacts DEF IInv, PlantInv
    <3>4. Distance(Yaw, position[Yaw]) \in Nat /\ Distance(Yaw, angle[Yaw]) \in Nat
      BY <3>3, DistanceType DEF IInv
    <3> QED BY <3>1, <3>2, <3>4, PlantAssumption, AngleAssumption DEF Near, Distance
  <2> QED BY <2>1, <2>2
<1>5. tx'[Pitch] # "stop"
  BY <1>1, <1>2 DEF BusIdle, TxPending
<1>6. pc' # "fault" => ~idleStop'
  <2>1. CASE ReleaseYaw
    BY <1>1, <2>1 DEF ReleaseYaw
  <2>2. CASE StopYawAtTarget
    BY <2>2 DEF StopYawAtTarget
  <2> QED BY <2>1, <2>2
<1> QED BY <1>0, <1>3, <1>4, <1>5, <1>6 DEF CourseInv

\* What a command does to an axis it succeeds for: a frame, unless it is there.
LEMMA SucceedsFor ==
    ASSUME NEW S, NEW A \in Accepts(Moves(S)), Succeeds(S, A) = S, NEW a \in S, a \in Axis
    PROVE  \/ Queue(A, "pos")[a] = "pos"
           \/ a \in valid /\ angle[a] = target[a]
BY DEF Succeeds, Moves, Settable, Queue

\* An axis that a command leaves out keeps its slot.
LEMMA CommandLeavesOut ==
    ASSUME NEW S, NEW A \in Accepts(Moves(S)), NEW a \in Axis \ S
    PROVE  Queue(A, "pos")[a] = tx[a]
BY DEF Accepts, Moves, Queue

\* A command sets every axis it was for on its course, from rest.
LEMMA CommandCourse ==
    ASSUME IInv, PlantTick, CommandHome \/ CommandTargets PROVE CourseInv'
<1>0. /\ CourseInv /\ TypeOK /\ Tick /\ PromptInv /\ RestInv /\ ReleaseInv
      /\ UNCHANGED <<position, goal, reading, angle, target, valid, state, idleStop>>
      /\ pc = "motion" /\ state \in Armed /\ BusIdle
  BY TickFrame
  DEF PlantTick, IInv, PlantInv, CtlInv, plant, CommandHome, CommandTargets,
      feedback, PromptInv, Armed
<1>1. CASE pc' = "fault"
  BY <1>1 DEF CourseInv
<1>2. CASE pc' # "fault"
  <2>1. PICK S \in {Axis, dirty} : \E A \in Accepts(Moves(S)) :
            /\ tx' = Queue(A, "pos") /\ Succeeds(S, A) = S /\ dirty' = {}
            /\ dirty \subseteq S /\ \A a \in S : Resting(a)
    <3>1. CASE CommandHome
      <4>1. dirty = Axis /\ \A a \in Axis : Resting(a)
        BY <1>0, <3>1 DEF CommandHome, CommandDue, RestInv
      <4> QED BY <1>2, <3>1, <4>1 DEF CommandHome, ClearTargets
    <3>2. CASE CommandTargets
      <4>1. \A a \in dirty : Resting(a)
        BY <1>0 DEF RestInv
      <4> QED BY <1>2, <3>2, <4>1 DEF CommandTargets, ClearTargets
    <3> QED BY <3>1, <3>2
  <2>2. PICK A \in Accepts(Moves(S)) :
            /\ tx' = Queue(A, "pos") /\ Succeeds(S, A) = S /\ dirty' = {}
            /\ dirty \subseteq S /\ \A a \in S : Resting(a)
    BY <2>1
  <2>3. ASSUME NEW a \in Axis PROVE Closer(a)' /\ OnCourse(a)' /\ tx'[a] # "stop"
    <3>0. Closer(a)' /\ tx[a] = "none" /\ tx'[a] \in {"none", "pos"}
      <4>1. Closer(a) /\ tx[a] = "none"
        BY <1>0 DEF CourseInv, BusIdle, TxPending
      <4>2. tx'[a] \in {"none", "pos"}
        BY <2>2, <4>1 DEF Queue
      <4> QED BY <1>0, <4>1, <4>2, AnswersFrame DEF Closer, Distance
    <3>1. CASE a \in S
      <4>1. tx'[a] = "pos" \/ (a \in valid /\ angle[a] = target[a])
        BY <2>2, <3>1, SucceedsFor
      <4>2. Resting(a)
        BY <2>2, <3>1
      <4>3. tx'[a] = "pos" \/ goal'[a] = target'[a]
        BY <1>0, <4>1, <4>2 DEF Resting
      <4> QED BY <3>0, <4>3 DEF OnCourse
    <3>2. CASE a \notin S
      <4>1. OnCourse(a) /\ tx'[a] = tx[a]
        BY <1>0, <2>2, <3>2, CommandLeavesOut DEF CourseInv
      <4> QED BY <1>0, <3>0, <4>1, CourseKept
    <3> QED BY <3>0, <3>1, <3>2
  <2>4. idleStop' /\ state' = "READY" => FALSE
    BY <1>0 DEF ReleaseInv
  <2> QED BY <2>3, <2>4 DEF CourseInv
<1> QED BY <1>1, <1>2

\* READY is entered with both axes near home.
LEMMA ReadyCourse == ASSUME IInv, PlantTick, BecomeReady PROVE CourseInv'
<1>0. /\ CourseInv /\ TypeOK /\ RestInv /\ pc = "center" /\ Safe
      /\ UNCHANGED <<position, goal, reading, angle, target, valid, tx>>
      /\ state = "CENTERING" /\ target = Center
  BY DEF PlantTick, IInv, PlantInv, CtlInv, SupervisionInv, plant, BecomeReady,
         feedback, bus, RestInv
<1>1. ASSUME NEW a \in Axis PROVE Closer(a)' /\ OnCourse(a)' /\ Near(a)'
  <2>1. Closer(a) /\ (a \notin dirty => OnCourse(a)) /\ (a \in dirty => Resting(a))
    BY <1>0 DEF CourseInv, RestInv, Armed
  <2>2. Distance(a, angle[a]) <= CenterTol /\ a \in valid
    BY <1>0 DEF BecomeReady, Centered, Error, Distance, Safe, KnownSafe
  <2>3. Distance(a, position[a]) \in Nat /\ Distance(a, angle[a]) \in Nat
        /\ CenterTol \in Nat
    <3>1. position[a] \in Int /\ angle[a] \in Int
      BY <1>0, PlantFacts DEF IInv, PlantInv
    <3> QED BY <3>1, DistanceType, AngleAssumption DEF IInv
  <2>4. Near(a)
    BY <2>1, <2>2, <2>3 DEF Near, Closer
  <2>5. OnCourse(a)
    BY <2>1, <2>4 DEF OnCourse, Resting
  <2> QED BY <1>0, <2>1, <2>4, <2>5, CourseKept
<1> QED BY <1>1 DEF CourseInv

LEMMA TickCourse == ASSUME IInv, PlantTick PROVE CourseInv'
<1>0. /\ CourseInv /\ TypeOK /\ Tick /\ PromptInv /\ RestInv /\ BusTypeOK
      /\ ControlTypeOK /\ SupervisionInv /\ PlantInv
      /\ UNCHANGED <<position, goal, reading, angle>>
  BY TickFrame DEF PlantTick, IInv, PlantInv, CtlInv, TypeOK, plant
<1>1. CASE StartAccepted \/ StartRefused \/ FaultStop
  BY <1>1 DEF StartAccepted, StartRefused, RestartPlan, FaultPlace, FaultStop,
              CourseInv, Armed
<1>2. CASE BootProbe \/ AskPosition
  BY <1>2 DEF BootProbe, AskPosition, Ticking, CourseInv, Armed
<1>3. CASE Enable
  <2>1. CASE pc' = "fault"
    BY <2>1 DEF CourseInv
  <2>2. CASE pc' # "fault"
    <3>1. /\ dirty' = Axis /\ pc = "tick" /\ UNCHANGED <<target, valid>>
          /\ state = "WAITING" /\ state' = "CENTERING"
      BY <1>3, <2>2 DEF Enable, Proven, Ticking, feedback
    <3>2. ASSUME NEW a \in Axis PROVE Closer(a)'
      <4>1. Resting(a)
        BY <1>0, <3>1, WaitingAtRest DEF PromptInv
      <4>2. Closer(a)
        BY <1>0, <4>1, CloserAtRest
      <4> QED BY <1>0, <3>1, <4>2, AnswersFrame DEF Closer, Distance
    <3> QED BY <3>1, <3>2 DEF CourseInv
  <2> QED BY <2>1, <2>2
<1>4. CASE \/ NothingToDo \/ AwaitTx \/ OutsideAtStart \/ SupervisionFault
           \/ ToMotion \/ AwaitCommand \/ KeepCentering
  <2>1. UNCHANGED <<state, target, dirty, valid, tx, idleStop>> /\ pc # "fault"
    BY <1>4 DEF NothingToDo, AwaitTx, OutsideAtStart, Proven, Ticking,
                SupervisionFault, ToMotion, AwaitCommand, KeepCentering, plan,
                feedback, bus, drive
  <2>2. CASE state \in Armed
    BY <1>0, <2>1, <2>2, CourseFrame
  <2>3. CASE state \notin Armed
    BY <2>1, <2>3 DEF CourseInv
  <2> QED BY <2>2, <2>3
<1>5. CASE ReEnable \/ Poll
  <2>1. /\ pc = "motion" /\ state \in Armed
        /\ UNCHANGED <<state, target, dirty, valid, idleStop>>
        /\ \A a \in Axis : tx'[a] \in {tx[a], "on", "query"}
    BY <1>0, <1>5 DEF ReEnable, Poll, SupervisionInv, Queue, plan, feedback, drive
  <2>2. \A a \in Axis : tx[a] = "none"
    BY <1>0, <2>1 DEF PromptInv, BusIdle, TxPending
  <2> QED BY <1>0, <2>1, <2>2, CourseFrame
<1> QED
  BY <1>0, <1>1, <1>2, <1>3, <1>4, <1>5, ReleaseCourse, CommandCourse, ReadyCourse
  DEF Tick

\* An axis that moves gets no further from its target.
LEMMA WakeCourse ==
    ASSUME IInv, Prompt, NEW d \in Elapse, PlantWake(d) PROVE CourseInv'
<1>0. /\ PlantInv /\ CourseInv /\ RestInv /\ BusIdle /\ pc = "sleep" /\ TypeOK
      /\ PlantTypeOK
      /\ UNCHANGED <<goal, reading, tx, state, target, dirty, valid, angle, idleStop>>
  BY DEF PlantWake, Wake, IInv, PlantInv, CtlInv, bus, plan, drive
<1>1. CASE state \notin Armed
  BY <1>0, <1>1 DEF CourseInv
<1>2. CASE state \in Armed
  <2>1. ASSUME NEW a \in Axis
        PROVE  /\ Closer(a)' /\ tx[a] = "none"
               /\ a \notin dirty => OnCourse(a)'
               /\ a \notin dirty /\ Near(a) => Near(a)'
    <3>1. /\ Closer(a) /\ tx[a] = "none"
          /\ a \in dirty => Resting(a)
          /\ a \notin dirty => OnCourse(a)
      BY <1>0, <1>2 DEF CourseInv, RestInv, BusIdle, TxPending
    <3>2. goal[a] = target[a] \/ goal[a] = position[a]
      BY <3>1 DEF OnCourse, Resting
    <3>3. /\ position'[a] \in Int
          /\ goal[a] = position[a] => position'[a] = position[a]
          /\ goal[a] = target[a]
                => Distance(a, position'[a]) <= Distance(a, position[a])
      BY <1>0, WakePlant
    <3>4. /\ position[a] \in Int /\ angle[a] \in Int /\ Answers(a) \subseteq Int
      BY <1>0, PlantFacts
    <3>5. \A x \in Int : Distance(a, x) \in Nat
      BY <1>0, DistanceType
    <3>6. Distance(a, position'[a]) <= Distance(a, position[a])
      BY <3>2, <3>3, <3>4, <3>5
    <3>7. /\ Near(a)' <=> Distance(a, position'[a]) <= CenterTol
          /\ Closer(a)' <=>
                /\ a \in valid => Distance(a, position'[a]) <= Distance(a, angle[a])
                /\ \A x \in Answers(a) : Distance(a, position'[a]) <= Distance(a, x)
      BY <1>0, AnswersFrame DEF Near, Closer, Distance
    <3>8. Closer(a)'
      BY <3>1, <3>3, <3>4, <3>5, <3>6, <3>7 DEF Closer
    <3>9. Near(a) => Near(a)'
      BY <3>3, <3>4, <3>5, <3>6, <3>7, AngleAssumption DEF Near
    <3>10. a \notin dirty => OnCourse(a)'
      BY <1>0, <3>1, <3>3, <3>9 DEF OnCourse
    <3> QED BY <3>1, <3>8, <3>9, <3>10
  <2> QED BY <1>0, <1>2, <2>1 DEF CourseInv
<1> QED BY <1>1, <1>2

LEMMA ReceiveCourse ==
    ASSUME IInv, NEW a \in Axis, PlantReceive(a) PROVE CourseInv'
<1>0. /\ CourseInv /\ PlantInv /\ pc = "drain"
      /\ UNCHANGED <<position, goal, tx, pc, state, target, dirty, idleStop>>
      /\ angle'[a] \in Answers(a) /\ Answers(a)' \subseteq Answers(a)
      /\ valid' = valid \cup {a}
      /\ \A b \in Axis \ {a} : UNCHANGED <<angle[b], reading[b]>>
  BY ReceivePlant DEF IInv, plant, plan, drive
<1>1. ASSUME NEW b \in Axis, Closer(b) PROVE Closer(b)'
  <2>1. CASE b = a
    BY <1>0, <1>1, <2>1 DEF Closer, Distance
  <2>2. CASE b # a
    <3>1. Answers(b)' = Answers(b)
      BY <1>0, <2>2, AnswersFrame
    <3> QED BY <1>0, <1>1, <2>2, <3>1 DEF Closer, Distance
  <2> QED BY <2>1, <2>2
<1>2. \A b \in Axis : (OnCourse(b)' <=> OnCourse(b)) /\ (Near(b)' <=> Near(b))
  BY <1>0 DEF OnCourse, Near, Distance
<1> QED BY <1>0, <1>1, <1>2 DEF CourseInv

\* A motor that gets its command is sent to its target; one that is told to stop
\* was near it.
LEMMA CompleteCourse ==
    ASSUME IInv, NEW a \in Axis, PlantComplete(a) PROVE CourseInv'
<1>0. /\ CourseInv /\ PlantInv /\ TypeOK /\ PlantTypeOK
      /\ UNCHANGED <<position, pc, state, target, dirty, valid, angle, idleStop>>
      /\ goal'[a] = IF tx[a] = "pos" THEN target[a]
                    ELSE IF tx[a] = "stop" THEN position[a] ELSE goal[a]
      /\ Answers(a)' \subseteq Answers(a) \cup {position[a]}
      /\ tx'[a] = "none"
      /\ \A b \in Axis \ {a} : UNCHANGED <<goal[b], tx[b], reading[b]>>
  BY CompletePlant DEF IInv, PlantInv, CtlInv, plan, drive, feedback
<1>1. CASE ~(state \in Armed /\ pc # "fault")
  BY <1>0, <1>1 DEF CourseInv
<1>2. CASE state \in Armed /\ pc # "fault"
  <2>1. ASSUME NEW b \in Axis \ {a}
        PROVE  Closer(b)' /\ (b \notin dirty => OnCourse(b)') /\ (Near(b)' <=> Near(b))
    BY <1>0, <1>2, CourseKept DEF CourseInv
  <2>2. Closer(a)'
    <3>1. Closer(a)
      BY <1>0, <1>2 DEF CourseInv
    <3>2. position[a] \in Int
      BY <1>0, PlantFacts
    <3>3. Distance(a, position[a]) \in Nat
      BY <1>0, <3>2, DistanceType
    <3>4. \A x \in Answers(a)' : Distance(a, position[a]) <= Distance(a, x)
      BY <1>0, <3>1, <3>3 DEF Closer
    <3> QED BY <1>0, <3>1, <3>4 DEF Closer, Distance
  <2>3. a \notin dirty => OnCourse(a)'
    BY <1>0, <1>2 DEF CourseInv, OnCourse, Near, Distance
  <2>4. Near(a)' <=> Near(a)
    BY <1>0 DEF Near, Distance
  <2> QED BY <1>0, <1>2, <2>1, <2>2, <2>3, <2>4 DEF CourseInv
<1> QED BY <1>1, <1>2

LEMMA NextCourse ==
    ASSUME Patient, Prompt, IInv, [PlantNext]_plantVars PROVE CourseInv'
<1>0. PlantInv /\ CourseInv /\ PromptInv
  BY DEF IInv, PlantInv
<1>1. ASSUME UNCHANGED plantVars \/ PlantPress \/ PlantDrainDone PROVE CourseInv'
  <2>1. /\ UNCHANGED <<position, goal, reading, tx, target, state, dirty, valid,
                       angle, idleStop>>
        /\ pc' = pc \/ pc # "fault"
    BY <1>1 DEF plantVars, vars, plant, PlantPress, PressButton, PlantDrainDone,
                DrainDone, plan, drive, feedback, bus
  <2>2. CASE state \in Armed /\ pc # "fault"
    BY <1>0, <2>1, <2>2, CourseFrame
  <2>3. CASE ~(state \in Armed /\ pc # "fault")
    BY <2>1, <2>3 DEF CourseInv
  <2> QED BY <2>2, <2>3
<1>2. ASSUME NEW a \in Axis, NEW deg \in Slider[a], PlantSetTarget(a, deg)
      PROVE  CourseInv'
  <2>1. /\ UNCHANGED <<position, goal, reading, tx, state, valid, angle, idleStop, pc>>
        /\ Settled(a) /\ pc = "sleep" /\ state \in Armed
        /\ dirty' = dirty \cup {a} /\ PlantInv'
        /\ \A b \in Axis \ {a} : target'[b] = target[b]
    BY <1>0, <1>2, SetTargetPlant, PlantNextInv
    DEF plant, feedback, bus, drive, Armed, PlantNext
  <2>2. \A b \in Axis \ {a} :
            Closer(b)' /\ (b \notin dirty => OnCourse(b)') /\ (Near(b)' <=> Near(b))
    BY <1>0, <2>1, CourseKept DEF CourseInv
  <2>3. Closer(a)'
    <3>1. angle'[a] = position'[a] /\ Answers(a)' \subseteq {position'[a]}
      BY <1>0, <2>1, AnswersFrame DEF Settled, PromptInv
    <3>2. Distance(a, position[a])' \in Nat
      <4>1. position'[a] \in Int /\ target'[a] \in Int
        <5>1. PlantTypeOK' /\ TypeOK'
          BY <2>1 DEF PlantInv, CtlInv
        <5> QED BY <5>1 DEF PlantTypeOK, TypeOK, ControlTypeOK
      <4> QED BY <4>1, DistanceOf DEF Distance
    <3> QED BY <3>1, <3>2 DEF Closer, Distance
  <2> QED BY <1>0, <2>1, <2>2, <2>3 DEF CourseInv
<1> QED
  BY <1>1, <1>2, TickCourse, WakeCourse, ReceiveCourse, CompleteCourse
  DEF PlantNext, PlantMotorThread

\* If the bus is prompt and the user patient, an axis that is not moving in READY,
\* with no command left to send, is within the centering tolerance of its target:
\* no increment was lost, repeated or taken from a position that had gone, and yaw
\* was released only where it belongs (gimbal.c:276-330).
THEOREM GimbalRestsAtTarget ==
    Patient /\ Prompt => (PlantSpec => []RestsAtTarget)
<1> SUFFICES ASSUME Patient, Prompt PROVE PlantSpec => []RestsAtTarget
  OBVIOUS
<1>1. PlantInit => IInv
  BY PlantInitInv DEF PlantInit, Init, IInv, CourseInv, ReleaseInv, Armed
<1>2. IInv /\ [PlantNext]_plantVars => IInv'
  BY PlantNextInv, NextCourse, NextRelease DEF IInv
<1>3. IInv => RestsAtTarget
  <2> SUFFICES ASSUME IInv, state = "READY", pc = "sleep", dirty = {}, BusIdle,
                      NEW a \in Axis, goal[a] = position[a]
               PROVE  Abs(position[a] - target[a]) <= CenterTol
    BY DEF RestsAtTarget
  <2>1. OnCourse(a) /\ tx[a] # "pos"
    BY DEF IInv, CourseInv, Armed, BusIdle, TxPending
  <2>2. CASE goal[a] = target[a]
    <3>1. position[a] \in Int /\ position[a] = target[a] /\ CenterTol \in Nat
      BY <2>2, PlantFacts, AngleAssumption DEF IInv, PlantInv, CtlInv
    <3>2. Abs(position[a] - target[a]) = 0
      BY <3>1 DEF Abs
    <3> QED BY <3>1, <3>2
  <2>3. CASE Near(a)
    BY <2>3 DEF Near, Distance
  <2> QED BY <2>1, <2>2, <2>3 DEF OnCourse
<1> QED BY <1>1, <1>2, <1>3, PTL DEF PlantSpec
=============================================================================
