----------------------------- MODULE EncoderMap -----------------------------
(***************************************************************************)
(* The arithmetic of the circular encoder, shared by the calibration       *)
(* firmware, which derives the map of an axis from three captured counts,  *)
(* and by the controller, which decodes counts with that map.              *)
(*                                                                         *)
(* Degrees are left out: an angle is a number of counts away from the      *)
(* middle of the axis, and a test of degrees is multiplied out.            *)
(***************************************************************************)
EXTENDS Integers

CONSTANTS
    Rev,        \* ENCODER_COUNTS_PER_REV
    Word        \* 2^32: what an int32_t is reduced by when it meets Rev, unsigned

ASSUME RevAssumption ==
    /\ Rev \in Nat \ {0} /\ Rev % 2 = 0
    /\ Word \in Nat \ {0} /\ Word % Rev = 0

Half == Rev \div 2
Counts == 0 .. Rev - 1

Magnitude(x) == IF x < 0 THEN -x ELSE x

\* Mutant: no wrap for a path through the zero of the encoder downwards.
WrappedDeltaUp(from, to) == IF to - from > Half THEN to - from - Rev ELSE to - from
\* The shortest signed way from one count to another.
WrappedDelta(from, to) ==
    LET delta == to - from
    IN  CASE delta > Half -> delta - Rev
          [] delta < -Half -> delta + Rev
          [] OTHER -> delta

\* A count from any int32_t.
WrappedCount(value) == (value % Word) % Rev

\* raw_to_deg: counts away from the middle of the axis.
Decode(map, raw) == map.direction * WrappedDelta(map.center, raw)

-----------------------------------------------------------------------------
(* print_axis_result: the map that three captured counts give *)

\* Half of the span, rounded away from zero; C division truncates.
RoundedHalf(span) ==
    IF span >= 0 THEN (span + 1) \div 2 ELSE -((1 - span) \div 2)

\* Mutant: every encoder counts upwards.
DirectionUp(span) == 1
Direction(span) == IF span >= 0 THEN 1 ELSE -1

Derived(min, mid, max) ==
    LET span == WrappedDelta(min, mid) + WrappedDelta(mid, max)
    IN  [center |-> WrappedCount(min + RoundedHalf(span)),
         direction |-> Direction(span),
         span |-> Magnitude(span)]

\* Both halves run in the same direction.
OneWay(min, mid, max) ==
    (WrappedDelta(min, mid) > 0) = (WrappedDelta(mid, max) > 0)

\* Mutant: the captured middle is not compared with the derived one.
CenteredAny(min, mid, max, travel, tol) == TRUE
\* The captured middle is at most tol degrees from the derived one; with no
\* span at all the code calls the error zero.
CenteredWithin(min, mid, max, travel, tol) ==
    LET span == Derived(min, mid, max).span
        twice == Magnitude(WrappedDelta(min, mid) - WrappedDelta(mid, max))
    IN  span > 0 => twice * travel <= 2 * tol * span

\* The samples are consistent: no CAL WARNING.
Consistent(min, mid, max, travel, minCounts, tol) ==
    /\ OneWay(min, mid, max)
    /\ Derived(min, mid, max).span >= minCounts * travel
    /\ CenteredWithin(min, mid, max, travel, tol)
=============================================================================
