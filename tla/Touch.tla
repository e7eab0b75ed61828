-------------------------------- MODULE Touch --------------------------------
(***************************************************************************)
(* The touch driver, touch_poll of touch.c, and the finger it watches.     *)
(* The controller chip pulls its interrupt line while a finger is down;    *)
(* every poll reads the line and, if it is pulled, one report over I2C.    *)
(* Either read may fail, and a report may be malformed.  The finger moves  *)
(* at any time, polls are as far apart as the UI thread makes them, so a   *)
(* short contact may be missed and so may a short lift between two.        *)
(***************************************************************************)
EXTENDS Naturals

CONSTANTS
    MaxGlitches,    \* bound: malformed reports during one contact
    MaxAsks         \* bound: requests counted during one contact

ASSUME TouchAssumption == MaxGlitches \in Nat /\ MaxAsks \in Nat \ {0}

VARIABLES
    finger,         \* external: where the finger is, "up" if nowhere
    touch,          \* struct touch_state
    contact         \* history of the present or last contact

touchVars == <<finger, touch, contact>>

Places == {"button", "slider"}

TouchInit ==
    /\ finger = "up"
    /\ touch = [pressed |-> FALSE, just |-> FALSE, place |-> "slider"]
    /\ contact = [fresh |-> FALSE, first |-> "none", glitches |-> 0, asks |-> 0]

-----------------------------------------------------------------------------
(* The finger.  A contact is fresh if the driver has seen the lift before it. *)

PutDown(p) ==
    /\ finger = "up"
    /\ finger' = p
    /\ contact' = [fresh |-> ~touch.pressed, first |-> "none",
                   glitches |-> 0, asks |-> 0]
    /\ UNCHANGED touch

Drag(p) ==
    /\ finger \in Places \ {p}
    /\ finger' = p
    /\ UNCHANGED <<touch, contact>>

Lift ==
    /\ finger # "up"
    /\ finger' = "up"
    /\ UNCHANGED <<touch, contact>>

FingerMoves == Lift \/ \E p \in Places : PutDown(p) \/ Drag(p)

-----------------------------------------------------------------------------
(* touch_poll *)

\* Mutant: a press counts for as long as it lasts.
PressedAtAll == TRUE
\* just_pressed: a press that the previous poll did not see.
Edge == ~touch.pressed

\* The line is not pulled.
PollUp ==
    /\ finger = "up"
    /\ touch' = [touch EXCEPT !.pressed = FALSE, !.just = FALSE]
    /\ UNCHANGED <<finger, contact>>

PollReport ==
    /\ finger # "up"
    /\ touch' = [pressed |-> TRUE, just |-> Edge, place |-> finger]
    /\ contact' = [contact EXCEPT !.first = IF @ = "none" THEN finger ELSE @]
    /\ UNCHANGED finger

\* point[0] is not 1: taken for a lift.
PollMalformed ==
    /\ finger # "up" /\ contact.glitches < MaxGlitches
    /\ touch' = [touch EXCEPT !.pressed = FALSE, !.just = FALSE]
    /\ contact' = [contact EXCEPT !.glitches = @ + 1]
    /\ UNCHANGED finger

\* A poll that returns 0.
PollOk == PollUp \/ PollReport \/ PollMalformed

\* The line or the report cannot be read.
PollError ==
    /\ touch' = [touch EXCEPT !.just = FALSE]
    /\ UNCHANGED <<finger, contact>>

\* A request is made.
CountAsk ==
    contact' = [contact EXCEPT !.asks = IF @ < MaxAsks THEN @ + 1 ELSE @]

-----------------------------------------------------------------------------
TouchTypeOK ==
    /\ finger \in Places \cup {"up"}
    /\ touch \in [pressed : BOOLEAN, just : BOOLEAN, place : Places]
    /\ contact \in [fresh : BOOLEAN, first : Places \cup {"none"},
                    glitches : 0 .. MaxGlitches, asks : 0 .. MaxAsks]
=============================================================================
