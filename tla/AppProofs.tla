------------------------------- MODULE AppProofs -------------------------------
(***************************************************************************)
(* The invariants of GimbalApp, for every number of axes, refresh period,  *)
(* number of malformed reports and bound on the requests counted.          *)
(***************************************************************************)
EXTENDS GimbalApp, TLAPS

-----------------------------------------------------------------------------
(* The inductive invariant *)

\* The mutex has one of two owners or none, nobody waits for a free one, and
\* there is no motor thread yet while the system starts.
MutexInv ==
    /\ mutex \in {"ui", "motor", "free"}
    /\ UiWaits => mutex # "free"
    /\ ui \in {"display", "write1", "devices", "write2", "create"} =>
           motor \in {"none", "created"}

\* The driver has not seen the finger, and so the next report will be a press.
Unseen == finger # "up" /\ ~touch.pressed

\* The handler is about to see a press.
Due == ui = "handle" /\ touch.pressed /\ touch.just

Number(b) == IF b THEN 1 ELSE 0

\* The requests made and the ones still to come are paid for: one by the contact
\* and one by each malformed report.
Budget == contact.asks + Number(Unseen) + Number(Due) <= 1 + contact.glitches

Earned == Number(contact.fresh /\ contact.first = "button")

\* Before its first report a contact has asked for nothing; from then on it is
\* seen as pressed, and the press that is due is the first report.
Started ==
    /\ contact.first = "none" =>
           /\ contact.asks = 0 /\ ~Due
           /\ finger # "up" => (touch.pressed <=> ~contact.fresh)
    /\ contact.first # "none" =>
           /\ finger # "up" => touch.pressed
           /\ Due => contact.asks = 0 /\ contact.fresh /\ touch.place = contact.first
           /\ ~Due => contact.asks = Earned

PressInv == Budget /\ (contact.glitches = 0 => Started)

IInv == TypeOK /\ MutexInv /\ PressInv

-----------------------------------------------------------------------------
(* Start-up *)

LEMMA InitInv == Init => IInv
<1> SUFFICES ASSUME Init PROVE IInv
  OBVIOUS
<1>1. TouchTypeOK
  BY TouchAssumption DEF Init, TouchInit, TouchTypeOK, Places
<1>2. TypeOK
  <2>1. /\ ui \in UiPlaces /\ motor \in MotorPlaces /\ mutex = "free"
        /\ motor \notin {"tick", "fault"} /\ ~MotorWaits
    BY DEF Init, UiPlaces, MotorPlaces, MotorWaits
  <2>2. "BOOT" \in ModeNames /\ FALSE \in BOOLEAN
    BY DEF ModeNames
  <2>3. [mode |-> "BOOT", button |-> FALSE] \in [mode : ModeNames, button : BOOLEAN]
    BY <2>2
  <2>4. uiAge \in 0 .. RefreshPeriod
    BY AppAssumption DEF Init
  <2> QED BY <1>1, <2>1, <2>2, <2>3, <2>4 DEF Init, TypeOK
<1>3. MutexInv
  BY DEF Init, MutexInv, UiWaits
<1>4. PressInv
  BY DEF Init, TouchInit, PressInv, Budget, Started, Unseen, Due, Number
<1> QED BY <1>2, <1>3, <1>4 DEF IInv

-----------------------------------------------------------------------------
(* The mutex *)

\* What TypeOK and MutexInv say of the two threads and the mutex.
Owners ==
    /\ ui \in UiPlaces /\ motor \in MotorPlaces
    /\ mutex = "ui" => UiWaits
    /\ mutex = "motor" <=> motor \in {"tick", "fault"} \/ (MotorWaits /\ mutex # "ui")
    /\ MutexInv

LEMMA OwnersKept == ASSUME Owners, [Next]_vars PROVE Owners'
<1> USE DEF Owners, MutexInv, UiWaits, MotorWaits, UiPlaces, MotorPlaces
<1>1. CASE StartUp
  <2>1. CASE StartDisplay
    BY <2>1 DEF StartDisplay
  <2>2. CASE StartDevices
    <3>1. /\ ui = "devices" /\ ui' = "write2" /\ mutex' = mutex
          /\ motor' \in {"created", "none"}
      BY <2>2 DEF StartDevices
    <3> QED BY <3>1
  <2>3. CASE StartThread
    BY <2>3 DEF StartThread
  <2> QED BY <1>1, <2>1, <2>2, <2>3 DEF StartUp
<1>2. CASE Written
  BY <1>2 DEF Written, Writing
<1>3. CASE Poll \/ PollFailed
  BY <1>3 DEF Poll, PollFailed, Lock, Refresh
<1>4. CASE HandleRelease \/ HandleButton \/ HandleSlider \/ CopyAndDraw
  BY <1>4 DEF HandleRelease, HandleButton, HandleSlider, CopyAndDraw, HandledUnderLock,
              Redraw, UnlockToDraw, UiUnlock
<1>5. CASE HandleNothing
  BY <1>5 DEF HandleNothing, HandledUnderLock, Refresh
<1>6. CASE MotorTask
  BY <1>6 DEF MotorTask, MotorWake, Drain, TickAnswer, TickMode, TickStay, MotorFault,
              Lock, MotorUnlock
<1>7. CASE User \/ UNCHANGED vars
  BY <1>7 DEF User, vars
<1> QED BY <1>1, <1>2, <1>3, <1>4, <1>5, <1>6, <1>7 DEF Next, UiLoop

-----------------------------------------------------------------------------
(* Types *)

\* A new contact; a report of the finger.
LEMMA PutDownFacts ==
    ASSUME NEW p \in Places, PutDown(p)
    PROVE  \E b \in BOOLEAN :
               /\ b <=> ~touch.pressed
               /\ contact' = [fresh |-> b, first |-> "none", glitches |-> 0, asks |-> 0]
<1>1. (~touch.pressed) \in BOOLEAN
  OBVIOUS
<1> QED BY <1>1 DEF PutDown

LEMMA PollReportFacts ==
    ASSUME TouchTypeOK, PollReport
    PROVE  /\ finger # "up" /\ finger' = finger /\ finger \in Places
           /\ \E b \in BOOLEAN :
                  (b <=> ~touch.pressed) /\ touch' = [pressed |-> TRUE, just |-> b, place |-> finger]
           /\ \E p \in Places :
                  /\ p = IF contact.first = "none" THEN finger ELSE contact.first
                  /\ contact' = [contact EXCEPT !.first = p]
<1>1. finger # "up" /\ finger' = finger /\ finger \in Places
  BY DEF PollReport, TouchTypeOK
<1>2. Edge \in BOOLEAN /\ (Edge <=> ~touch.pressed)
  BY DEF Edge
<1>3. touch' = [pressed |-> TRUE, just |-> Edge, place |-> finger]
  BY DEF PollReport
<1> DEFINE p == IF contact.first = "none" THEN finger ELSE contact.first
<1>4. p \in Places /\ contact' = [contact EXCEPT !.first = p]
  BY <1>1 DEF PollReport, TouchTypeOK
<1> QED BY <1>1, <1>2, <1>3, <1>4

LEMMA FingerTypes ==
    ASSUME TouchTypeOK, FingerMoves \/ PollOk \/ PollError \/ (CountAsk /\ UNCHANGED <<finger, touch>>)
    PROVE  TouchTypeOK'
<1> USE TouchAssumption DEF TouchTypeOK, Places
<1>1. CASE FingerMoves
  <2>1. CASE Lift
    BY <2>1 DEF Lift
  <2>2. ASSUME NEW p \in Places, Drag(p) PROVE TouchTypeOK'
    BY <2>2 DEF Drag
  <2>3. ASSUME NEW p \in Places, PutDown(p) PROVE TouchTypeOK'
    BY <2>3, PutDownFacts DEF PutDown
  <2> QED BY <1>1, <2>1, <2>2, <2>3 DEF FingerMoves
<1>2. CASE PollOk
  <2>1. CASE PollUp
    BY <2>1 DEF PollUp
  <2>2. CASE PollReport
    <3>1. TouchTypeOK
      OBVIOUS
    <3> HIDE DEF TouchTypeOK
    <3>2. PICK b \in BOOLEAN : touch' = [pressed |-> TRUE, just |-> b, place |-> finger]
      BY <2>2, <3>1, PollReportFacts
    <3>3. PICK p \in Places : contact' = [contact EXCEPT !.first = p]
      BY <2>2, <3>1, PollReportFacts
    <3>4. finger' = finger /\ finger \in Places
      BY <2>2, <3>1, PollReportFacts
    <3> QED BY <3>2, <3>3, <3>4 DEF TouchTypeOK
  <2>3. CASE PollMalformed
    <3>1. contact.glitches + 1 \in 0 .. MaxGlitches
      BY <2>3 DEF PollMalformed
    <3>2. contact' = [contact EXCEPT !.glitches = contact.glitches + 1]
          /\ touch' = [touch EXCEPT !.pressed = FALSE, !.just = FALSE] /\ finger' = finger
      BY <2>3 DEF PollMalformed
    <3> QED BY <3>1, <3>2
  <2> QED BY <1>2, <2>1, <2>2, <2>3 DEF PollOk
<1>3. CASE PollError
  BY <1>3 DEF PollError
<1>4. CASE CountAsk /\ UNCHANGED <<finger, touch>>
  BY <1>4 DEF CountAsk
<1> QED BY <1>1, <1>2, <1>3, <1>4

\* The touch driver is reached by the polls, the user and one handler only.
LEMMA TouchSteps ==
    ASSUME [Next]_vars
    PROVE  \/ UNCHANGED touchVars
           \/ FingerMoves \/ PollOk \/ PollError
           \/ CountAsk /\ UNCHANGED <<finger, touch>>
BY DEF Next, StartUp, StartDisplay, StartDevices, StartThread, Written, UiLoop, Poll,
       PollFailed, CopyAndDraw, HandleRelease, HandleButton, HandleSlider, HandleNothing,
       Redraw, MotorTask, MotorWake, Drain, TickAnswer, TickMode, TickStay, MotorFault,
       User, vars, touchVars

LEMMA ModeTypes ==
    ASSUME TypeOK, [Next]_vars
    PROVE  /\ mode' \in ModeNames /\ asked' \in BOOLEAN /\ supervised' \in BOOLEAN
           /\ pending' \subseteq Axis
<1> USE DEF TypeOK, ModeNames
<1>1. CASE HandleButton \/ HandleSlider
  BY <1>1 DEF HandleButton, HandleSlider, Modes!Ask, Modes!Retarget
<1>2. CASE MotorTask
  BY <1>2 DEF MotorTask, MotorWake, Drain, TickAnswer, TickMode, TickStay, MotorFault,
              Modes!Sense, Modes!Answer, Modes!Arm, Modes!Command, Modes!Arrive,
              Modes!Fail, gimbal
<1>3. CASE StartDevices
  BY <1>3 DEF StartDevices
<1>4. CASE \/ StartDisplay \/ StartThread \/ Written \/ Poll \/ PollFailed \/ CopyAndDraw
           \/ HandleRelease \/ HandleNothing \/ User \/ UNCHANGED vars
  BY <1>4 DEF StartDisplay, StartThread, Written, Poll, PollFailed, CopyAndDraw,
              HandleRelease, HandleNothing, User, vars, gimbal
<1> QED BY <1>1, <1>2, <1>3, <1>4 DEF Next, StartUp, UiLoop

LEMMA ScreenTypes ==
    ASSUME TypeOK, [Next]_vars, mode' \in ModeNames
    PROVE  /\ button' \in BOOLEAN /\ snapshot' \in ModeNames
           /\ shown' \in [mode : ModeNames, button : BOOLEAN]
           /\ uiAge' \in 0 .. RefreshPeriod
<1> USE AppAssumption DEF TypeOK
<1>1. CASE Written
  BY <1>1 DEF Written
<1>2. CASE Poll \/ PollFailed
  BY <1>2 DEF Poll, PollFailed, Aged
<1>3. CASE CopyAndDraw
  BY <1>3 DEF CopyAndDraw, CopySnapshot
<1>4. CASE HandleRelease \/ HandleButton \/ HandleSlider
  <2>1. UNCHANGED shown /\ snapshot' = mode /\ uiAge' = 0
    BY <1>4 DEF HandleRelease, HandleButton, HandleSlider, Redraw
  <2>2. button' \in {button, TRUE, FALSE}
    BY <1>4 DEF HandleRelease, HandleButton, HandleSlider
  <2>3. 0 \in 0 .. RefreshPeriod
    OBVIOUS
  <2>4. button' \in BOOLEAN
    BY <2>2
  <2> QED BY <2>1, <2>3, <2>4
<1>5. CASE HandleNothing
  BY <1>5 DEF HandleNothing
<1>6. CASE StartDevices
  BY <1>6 DEF StartDevices
<1>7. CASE StartDisplay \/ StartThread \/ MotorTask \/ User \/ UNCHANGED vars
  BY <1>7 DEF StartDisplay, StartThread, MotorTask, MotorWake, Drain, TickAnswer,
              TickMode, TickStay, MotorFault, User, vars, screen
<1> QED BY <1>1, <1>2, <1>3, <1>4, <1>5, <1>6, <1>7 DEF Next, StartUp, UiLoop

LEMMA NextType == ASSUME TypeOK, MutexInv, [Next]_vars PROVE TypeOK' /\ MutexInv'
<1>1. Owners'
  BY OwnersKept DEF Owners, TypeOK
<1>2. TouchTypeOK'
  <2>1. UNCHANGED touchVars => TouchTypeOK'
    BY DEF TypeOK, TouchTypeOK, touchVars
  <2> QED BY <2>1, TouchSteps, FingerTypes DEF TypeOK
<1>3. /\ mode' \in ModeNames /\ asked' \in BOOLEAN /\ supervised' \in BOOLEAN
      /\ pending' \subseteq Axis
  BY ModeTypes
<1>4. /\ button' \in BOOLEAN /\ snapshot' \in ModeNames
      /\ shown' \in [mode : ModeNames, button : BOOLEAN] /\ uiAge' \in 0 .. RefreshPeriod
  BY <1>3, ScreenTypes
<1> QED BY <1>1, <1>2, <1>3, <1>4 DEF Owners, TypeOK

-----------------------------------------------------------------------------
(* Presses and requests *)

LEMMA PressTypes ==
    ASSUME TypeOK
    PROVE  /\ touch.pressed \in BOOLEAN /\ touch.just \in BOOLEAN
           /\ contact.fresh \in BOOLEAN /\ contact.asks \in Nat /\ contact.glitches \in Nat
           /\ contact.asks \in 0 .. MaxAsks /\ touch.place \in Places
BY TouchAssumption DEF TypeOK, TouchTypeOK

LEMMA PollPress ==
    ASSUME TypeOK, PressInv, ui = "poll", PollOk, ui' = "handle" PROVE PressInv'
<1> USE PressTypes DEF PressInv, Budget, Started, Unseen, Due, Number, Earned
<1>1. CASE PollUp
  BY <1>1 DEF PollUp, TypeOK, TouchTypeOK
<1>2. CASE PollMalformed
  BY <1>2 DEF PollMalformed, TypeOK, TouchTypeOK
<1>3. CASE PollReport
  <2>1. TouchTypeOK
    BY DEF TypeOK
  <2>2. PICK b \in BOOLEAN :
            (b <=> ~touch.pressed) /\ touch' = [pressed |-> TRUE, just |-> b, place |-> finger]
    BY <1>3, <2>1, PollReportFacts
  <2>3. PICK p \in Places :
            /\ p = IF contact.first = "none" THEN finger ELSE contact.first
            /\ contact' = [contact EXCEPT !.first = p]
    BY <1>3, <2>1, PollReportFacts
  <2>4. /\ touch'.pressed = TRUE /\ touch'.just = b /\ touch'.place = finger
        /\ finger # "up" /\ finger' = finger /\ p # "none"
    BY <1>3, <2>1, <2>2, PollReportFacts DEF Places
  <2>5. /\ contact'.first = p /\ contact'.fresh = contact.fresh
        /\ contact'.glitches = contact.glitches /\ contact'.asks = contact.asks
    BY <2>1, <2>3 DEF TouchTypeOK
  <2>6. ~Due /\ (Unseen <=> ~touch.pressed) /\ ~Unseen' /\ (Due' <=> ~touch.pressed)
    BY <2>2, <2>4
  <2>7. Budget'
    <3> HIDE DEF Unseen, Due
    <3> QED BY <2>5, <2>6
  <2>8. ASSUME contact.glitches = 0 PROVE Started'
    <3>1. CASE contact.first = "none"
      BY <2>3, <2>4, <2>5, <2>6, <2>8, <3>1
    <3>2. CASE contact.first # "none"
      BY <2>3, <2>4, <2>5, <2>6, <2>8, <3>2
    <3> QED BY <3>1, <3>2
  <2> QED BY <2>5, <2>7, <2>8
<1> QED BY <1>1, <1>2, <1>3 DEF PollOk

LEMMA ErrorPress ==
    ASSUME TypeOK, PressInv, ui = "poll", PollError, ui' # "handle" PROVE PressInv'
BY PressTypes DEF PollError, TypeOK, TouchTypeOK, PressInv, Budget, Started, Unseen, Due, Number,
                  Earned

LEMMA UserPress == ASSUME TypeOK, PressInv, User PROVE PressInv'
<1> USE PressTypes DEF PressInv, Budget, Started, Unseen, Due, Number, Earned
<1>1. ui # "handle" /\ ui' = ui
  BY DEF User
<1>2. CASE Lift
  BY <1>1, <1>2 DEF Lift
<1>3. ASSUME NEW p \in Places, Drag(p) PROVE PressInv'
  BY <1>1, <1>3 DEF Drag, Places
<1>4. ASSUME NEW p \in Places, PutDown(p) PROVE PressInv'
  <2>1. PICK b \in BOOLEAN :
            /\ b <=> ~touch.pressed
            /\ contact' = [fresh |-> b, first |-> "none", glitches |-> 0, asks |-> 0]
    BY <1>4, PutDownFacts
  <2>2. finger = "up" /\ touch' = touch
    BY <1>4 DEF PutDown
  <2> QED BY <1>1, <2>1, <2>2
<1> QED BY <1>2, <1>3, <1>4 DEF User, FingerMoves

\* The press that was due is counted, and is not due any more.
LEMMA ButtonPress == ASSUME TypeOK, PressInv, HandleButton PROVE PressInv'
<1>1. /\ ui = "handle" /\ ui' = "write" /\ UNCHANGED <<finger, touch>>
      /\ touch.pressed /\ touch.just /\ touch.place = "button"
  BY DEF HandleButton, HandledUnderLock, OnButton, Redraw
<1>2. contact' = [contact EXCEPT !.asks =
                     IF contact.asks < MaxAsks THEN contact.asks + 1 ELSE contact.asks]
  BY DEF HandleButton, CountAsk
<1>3. /\ contact'.fresh = contact.fresh /\ contact'.first = contact.first
      /\ contact'.glitches = contact.glitches
      /\ contact'.asks \in {contact.asks, contact.asks + 1}
      /\ contact.asks = 0 => contact'.asks = 1
  BY <1>2, TouchAssumption DEF TypeOK, TouchTypeOK
<1>4. Due /\ ~Due' /\ (Unseen' <=> Unseen)
  BY <1>1 DEF Due, Unseen
<1>5. Budget'
  BY <1>3, <1>4, PressTypes DEF PressInv, Budget, Number
<1>6. ASSUME contact.glitches = 0 PROVE Started'
  BY <1>1, <1>3, <1>4, <1>6 DEF PressInv, Started, Earned, Number
<1> QED BY <1>3, <1>5, <1>6 DEF PressInv

\* Another handler leaves a press that was due only if it is not on the button.
LEMMA OtherPress ==
    ASSUME TypeOK, PressInv, HandleRelease \/ HandleSlider \/ HandleNothing PROVE PressInv'
<1>1. UNCHANGED touchVars /\ ui = "handle" /\ ui' # "handle"
  BY DEF HandleRelease, HandleSlider, HandleNothing, HandledUnderLock, Redraw, Refresh,
         touchVars
<1>2. ~(touch.pressed /\ touch.just /\ touch.place = "button")
  BY DEF HandleRelease, HandleSlider, HandleNothing, OnSlider, OnButton
<1>3. ~Due' /\ (Unseen' <=> Unseen) /\ Earned' = Earned
  BY <1>1 DEF Due, Unseen, touchVars, Earned
<1>4. Budget'
  BY <1>1, <1>3, PressTypes DEF PressInv, Budget, Number, touchVars
<1>5. ASSUME contact.glitches = 0 PROVE Started'
  <2>1. Due => touch.place # "button"
    BY <1>2 DEF Due
  <2> QED BY <1>1, <1>3, <1>5, <2>1 DEF PressInv, Started, Earned, Number, touchVars
<1> QED BY <1>1, <1>4, <1>5 DEF PressInv, touchVars

LEMMA NextPress == ASSUME TypeOK, PressInv, [Next]_vars PROVE PressInv'
<1>1. CASE Poll
  BY <1>1, PollPress DEF Poll
<1>2. CASE PollFailed
  BY <1>2, ErrorPress DEF PollFailed, Refresh
<1>3. CASE User
  BY <1>3, UserPress
<1>4. CASE HandleButton
  BY <1>4, ButtonPress
<1>5. CASE HandleRelease \/ HandleSlider \/ HandleNothing
  BY <1>5, OtherPress
<1>6. CASE StartUp \/ Written \/ CopyAndDraw \/ MotorTask \/ UNCHANGED vars
  <2>1. UNCHANGED touchVars /\ (ui' = "handle" <=> ui = "handle")
    BY <1>6 DEF StartUp, StartDisplay, StartDevices, StartThread, Written, Writing,
                CopyAndDraw, MotorTask, MotorWake, Drain, TickAnswer, TickMode, TickStay,
                MotorFault, vars
  <2> QED BY <2>1 DEF PressInv, Budget, Started, Unseen, Due, Earned, touchVars
<1> QED BY <1>1, <1>2, <1>3, <1>4, <1>5, <1>6 DEF Next, UiLoop

LEMMA InvHolds == Spec => []IInv
<1>1. IInv /\ [Next]_vars => IInv'
  BY NextType, NextPress DEF IInv
<1> QED BY <1>1, InitInv, PTL DEF Spec

-----------------------------------------------------------------------------
(* The theorems *)

\* The variables keep their types, and gimbal_mutex is held by the thread that is
\* in its critical section and by no other (main.c).
THEOREM AppTypeCorrect == Spec => []TypeOK
<1>1. IInv => TypeOK
  BY DEF IInv
<1> QED BY <1>1, InvHolds, PTL

\* However polls, moves of the finger, failed reads and slow screens interleave,
\* a press asks once, and a malformed report may add one request (touch.c:85).
THEOREM PressesAskOnce == Spec => []OnePressOneRequest
<1>1. IInv => OnePressOneRequest
  <2> SUFFICES ASSUME IInv PROVE OnePressOneRequest
    OBVIOUS
  <2>1. contact.asks <= 1 + contact.glitches
    BY PressTypes DEF IInv, PressInv, Budget, Number
  <2>2. ASSUME contact.glitches = 0, contact.first # "none", ui = "poll"
        PROVE  contact.asks = IF contact.fresh /\ contact.first = "button" THEN 1 ELSE 0
    BY <2>2 DEF IInv, PressInv, Started, Due, Earned, Number
  <2> QED BY <2>1, <2>2 DEF OnePressOneRequest
<1> QED BY <1>1, InvHolds, PTL
-----------------------------------------------------------------------------
(* What the two threads do to the gimbal *)

\* Every change of app_gimbal is made by the thread that holds gimbal_mutex, and
\* the UI's copy of it is taken under the mutex too; before there is a motor thread,
\* main may do without (main.c l.149-165).
LockedAccess ==
    [][/\ gimbal' # gimbal => \/ mutex = "ui" /\ ui' # ui
                              \/ mutex = "motor" /\ motor' # motor
                              \/ ui = "devices" /\ motor = "none"
       /\ snapshot' # snapshot =>
              mutex = "ui" \/ (ui = "devices" /\ motor = "none")]_vars

\* No request is recorded when FAULT is entered; in FAULT only the UI's handling of
\* a press, under the mutex, records one; and only the motor thread, answering it,
\* leaves FAULT.  The press itself may be older than the fault: one that was polled
\* before it, and waited for the mutex meanwhile (main.c:174), is handled after it.
FaultNeedsRequest ==
    [][/\ mode # "FAULT" /\ mode' = "FAULT" => ~asked'
       /\ mode = "FAULT" /\ ~asked /\ asked' => HandledUnderLock /\ OnButton
       /\ mode = "FAULT" /\ mode' # "FAULT" =>
              asked /\ mode' = "WAITING" /\ mutex = "motor"]_vars

\* While the motor thread is on its way to FAULT it keeps the UI from asking;
\* until the devices are started there is neither a motor thread nor a request.
AnsweredInv ==
    /\ motor = "fault" => ~asked
    /\ ui \in {"display", "write1", "devices"} => ~asked /\ motor = "none"

LEMMA MotorOwns ==
    ASSUME IInv, motor \in {"tick", "fault"} PROVE mutex = "motor"
BY DEF IInv, TypeOK

LEMMA NextAnswered == IInv /\ AnsweredInv /\ [Next]_vars => AnsweredInv'
<1> SUFFICES ASSUME IInv, AnsweredInv, [Next]_vars PROVE AnsweredInv'
  OBVIOUS
<1>1. CASE StartUp
  BY <1>1 DEF StartUp, StartDisplay, StartDevices, StartThread, gimbal, AnsweredInv
<1>2. CASE Written
  BY <1>2 DEF Written, Writing, gimbal, AnsweredInv
<1>3. CASE Poll \/ PollFailed \/ CopyAndDraw
  BY <1>3 DEF Poll, PollFailed, CopyAndDraw, Refresh, gimbal, AnsweredInv
<1>4. CASE HandleRelease \/ HandleButton \/ HandleSlider \/ HandleNothing
  <2>1. mutex = "ui" /\ motor # "fault"
    BY <1>4, MotorOwns DEF HandleRelease, HandleButton, HandleSlider, HandleNothing,
                           HandledUnderLock
  <2>2. motor' = motor /\ ui' \in {"write", "copy", "poll"}
    BY <1>4 DEF HandleRelease, HandleButton, HandleSlider, HandleNothing, Redraw, Refresh
  <2> QED BY <2>1, <2>2 DEF AnsweredInv
<1>5. CASE MotorTask
  <2>1. motor # "none" /\ ui' = ui
    BY <1>5 DEF MotorTask, MotorWake, Drain, TickAnswer, TickMode, TickStay, MotorFault
  <2>2. motor' = "fault" => ~asked'
    BY <1>5 DEF MotorTask, MotorWake, Drain, TickAnswer, TickMode, TickStay, MotorFault,
                Modes!Answer, gimbal
  <2> QED BY <2>1, <2>2 DEF AnsweredInv
<1>6. CASE User \/ UNCHANGED vars
  BY <1>6 DEF User, vars, gimbal, AnsweredInv
<1> QED BY <1>1, <1>2, <1>3, <1>4, <1>5, <1>6 DEF Next, UiLoop

LEMMA AnsweredHolds == Spec => [](IInv /\ AnsweredInv)
<1>1. Init => AnsweredInv
  BY DEF Init, AnsweredInv
<1> QED BY <1>1, InvHolds, NextAnswered, PTL DEF Spec

\* The gimbal is changed under gimbal_mutex only (main.c).
THEOREM GimbalIsLocked == Spec => LockedAccess
<1> DEFINE Locked ==
      /\ gimbal' # gimbal => \/ mutex = "ui" /\ ui' # ui
                             \/ mutex = "motor" /\ motor' # motor
                             \/ ui = "devices" /\ motor = "none"
      /\ snapshot' # snapshot =>
             mutex = "ui" \/ (ui = "devices" /\ motor = "none")
<1>1. IInv /\ AnsweredInv /\ [Next]_vars => [Locked]_vars
  <2> SUFFICES ASSUME IInv, AnsweredInv, Next PROVE Locked
    OBVIOUS
  <2>1. CASE StartDevices
    BY <2>1 DEF StartDevices, AnsweredInv
  <2>2. CASE StartDisplay \/ StartThread \/ Written \/ Poll \/ PollFailed \/ User
    BY <2>2 DEF StartDisplay, StartThread, Written, Poll, PollFailed, User, gimbal, screen
  <2>3. CASE HandleRelease \/ HandleButton \/ HandleSlider \/ HandleNothing \/ CopyAndDraw
    <3>1. mutex = "ui" /\ ui \in {"handle", "copy"} /\ (gimbal' # gimbal => ui = "handle")
      BY <2>3 DEF HandleRelease, HandleButton, HandleSlider, HandleNothing, CopyAndDraw,
                  HandledUnderLock
    <3>2. ui = "handle" => ui' # ui
      BY <2>3 DEF HandleRelease, HandleButton, HandleSlider, HandleNothing, CopyAndDraw,
                  Redraw, Refresh
    <3> QED BY <3>1, <3>2
  <2>4. CASE MotorWake
    BY <2>4 DEF MotorWake, screen
  <2>5. CASE Drain \/ TickAnswer \/ TickMode \/ TickStay \/ MotorFault
    <3>1. mutex = "motor"
      BY <2>5, MotorOwns DEF Drain, TickAnswer, TickMode, TickStay, MotorFault
    <3>2. motor' # motor /\ snapshot' = snapshot
      BY <2>5 DEF Drain, TickAnswer, TickMode, TickStay, MotorFault, screen
    <3> QED BY <3>1, <3>2
  <2> QED BY <2>1, <2>2, <2>3, <2>4, <2>5 DEF Next, StartUp, UiLoop, MotorTask
<1> QED BY <1>1, AnsweredHolds, PTL DEF Spec, LockedAccess

\* No request slips in between the turn's look at it and the fault the turn ends
\* in, although the UI may ask at any other time: a request that ends a fault was
\* recorded during it, by a handler that ran after the fault's turn.
THEOREM FaultWaitsForRequest == Spec => FaultNeedsRequest
<1> DEFINE Requested ==
      /\ mode # "FAULT" /\ mode' = "FAULT" => ~asked'
      /\ mode = "FAULT" /\ ~asked /\ asked' => HandledUnderLock /\ OnButton
      /\ mode = "FAULT" /\ mode' # "FAULT" =>
             asked /\ mode' = "WAITING" /\ mutex = "motor"
<1>1. IInv /\ AnsweredInv /\ [Next]_vars => [Requested]_vars
  <2> SUFFICES ASSUME IInv, AnsweredInv, Next PROVE Requested
    OBVIOUS
  <2>1. CASE StartDevices
    BY <2>1 DEF StartDevices, AnsweredInv
  <2>2. CASE TickAnswer
    BY <2>2, MotorOwns DEF TickAnswer, Modes!Answer
  <2>3. CASE MotorFault
    BY <2>3 DEF MotorFault, Modes!Fail, AnsweredInv
  <2>4. CASE TickMode
    BY <2>4 DEF TickMode, Modes!Arm, Modes!Command, Modes!Arrive, Modes!Armed
  <2>5. CASE \/ StartDisplay \/ StartThread \/ Written \/ Poll \/ PollFailed \/ User
             \/ HandleRelease \/ HandleNothing \/ CopyAndDraw \/ MotorWake \/ TickStay
    BY <2>5 DEF StartDisplay, StartThread, Written, Poll, PollFailed, User, gimbal,
                HandleRelease, HandleNothing, CopyAndDraw, MotorWake, TickStay
  <2>6. CASE HandleButton
    BY <2>6 DEF HandleButton, Modes!Ask
  <2>7. CASE HandleSlider \/ Drain
    BY <2>7 DEF HandleSlider, Drain, Modes!Retarget, Modes!Sense
  <2> QED BY <2>1, <2>2, <2>3, <2>4, <2>5, <2>6, <2>7 DEF Next, StartUp, UiLoop, MotorTask
<1> QED BY <1>1, AnsweredHolds, PTL DEF Spec, FaultNeedsRequest
=============================================================================
