----------------------------- MODULE EncoderProofs -----------------------------
(***************************************************************************)
(* Facts about the arithmetic of EncoderMap, for every encoder and every   *)
(* mounting: what wrapping does, when decoding undoes it, and what the     *)
(* consistency test of the calibration can and cannot tell.                *)
(***************************************************************************)
EXTENDS EncoderMap, TLAPS

-----------------------------------------------------------------------------
(* Integers *)

LEMMA TimesMonotonic ==
    ASSUME NEW x \in Int, NEW y \in Int, NEW t \in Nat, x <= y
    PROVE  x * t <= y * t
OBVIOUS

LEMMA TimesCancels ==
    ASSUME NEW x \in Int, NEW y \in Int, NEW t \in Nat, x * t < y * t
    PROVE  x < y
BY TimesMonotonic

LEMMA Division ==
    ASSUME NEW v \in Int, NEW n \in Nat \ {0}
    PROVE  /\ v \div n \in Int /\ v % n \in 0 .. n - 1
           /\ v = n * (v \div n) + (v % n)
OBVIOUS

-----------------------------------------------------------------------------
(* Wrapping *)

LEMMA HalfOfRev == Half \in Nat \ {0} /\ Rev = 2 * Half
BY RevAssumption DEF Half

LEMMA CountsAreIntegers == \A c \in Counts : c \in Int
BY RevAssumption DEF Counts

\* A multiple of Rev less than two turns away from zero.
LEMMA FewTurns ==
    ASSUME NEW k \in Int, -2 * Rev < k * Rev, k * Rev < 2 * Rev
    PROVE  k \in {-1, 0, 1}
BY RevAssumption

\* Two counts have a shortest way between them, of at most half a turn; it leads
\* from the one to the other, perhaps through the zero of the encoder.
LEMMA WrappedDeltaFacts ==
    ASSUME NEW from \in Counts, NEW to \in Counts
    PROVE  /\ WrappedDelta(from, to) \in -Half .. Half
           /\ \E k \in {-1, 0, 1} : WrappedDelta(from, to) = to - from + k * Rev
<1>1. from \in Int /\ to \in Int /\ -Rev < to - from /\ to - from < Rev
  BY RevAssumption DEF Counts
<1> DEFINE d == to - from
<1>2. CASE d > Half
  BY <1>1, <1>2, HalfOfRev DEF WrappedDelta
<1>3. CASE d < -Half
  BY <1>1, <1>3, HalfOfRev DEF WrappedDelta
<1>4. CASE ~(d > Half) /\ ~(d < -Half)
  BY <1>1, <1>4, HalfOfRev DEF WrappedDelta
<1> QED BY <1>2, <1>3, <1>4

\* Any integer becomes a count a whole number of turns away: the unsigned
\* arithmetic of the code does no harm, because 2^32 is a number of turns.
LEMMA WrappedCountFacts ==
    ASSUME NEW v \in Int
    PROVE  WrappedCount(v) \in Counts /\ \E k \in Int : WrappedCount(v) = v + k * Rev
<1>1. Word \in Nat \ {0} /\ Rev \in Nat \ {0} /\ Word = Rev * (Word \div Rev)
      /\ Word \div Rev \in Int
  BY RevAssumption, Division
<1> DEFINE w == Word \div Rev
           q == v \div Word
           u == v % Word
           r == u \div Rev
<1>2. q \in Int /\ u \in Int /\ v = Word * q + u
  BY <1>1, Division
<1>3. r \in Int /\ u % Rev \in 0 .. Rev - 1 /\ u = Rev * r + (u % Rev)
  BY <1>1, <1>2, Division
<1>4. WrappedCount(v) = u % Rev
  BY DEF WrappedCount
<1> HIDE DEF w, q, u, r
<1>5. (u % Rev) = v + (-(w * q) - r) * Rev
  <2> DEFINE turns == w * q * Rev
             rest == Rev * r
  <2>1. w \in Int
    BY <1>1 DEF w
  <2>2. Word * q = turns /\ turns \in Int /\ rest \in Int
    BY <1>1, <1>2, <1>3, <2>1 DEF w
  <2>3. (-(w * q) - r) * Rev = -turns - rest
    BY <1>1, <1>2, <1>3, <2>1
  <2> HIDE DEF turns, rest
  <2>4. u = rest + (u % Rev) /\ u % Rev \in Int /\ v = turns + u
    BY <1>2, <1>3, <2>2 DEF rest
  <2> QED BY <1>2, <2>2, <2>3, <2>4
<1>6. -(w * q) - r \in Int
  BY <1>1, <1>2, <1>3 DEF w
<1> QED BY <1>3, <1>4, <1>5, <1>6 DEF Counts

\* Going x counts on from one count leads to another, perhaps after some turns.
Leads(from, x, to) == \E k \in Int : to = from + x + k * Rev

\* Whoever knows the true way x between two counts, less than a turn, knows what
\* WrappedDelta makes of it: x, or x less one turn.
LEMMA WayOfWrappedDelta ==
    ASSUME NEW from \in Counts, NEW to \in Counts, NEW x \in Int,
           Leads(from, x, to), -Rev < x, x < Rev
    PROVE  WrappedDelta(from, to) \in {x - Rev, x, x + Rev}
<1>1. PICK k \in Int : to = from + x + k * Rev
  BY DEF Leads
<1>2. PICK j \in {-1, 0, 1} : WrappedDelta(from, to) = to - from + j * Rev
  BY WrappedDeltaFacts
<1>3. from \in Int /\ to \in Int /\ Rev \in Int
  BY RevAssumption DEF Counts
<1>4. WrappedDelta(from, to) = x + (k + j) * Rev
  BY <1>1, <1>2, <1>3
<1>5. -2 * Rev < (k + j) * Rev /\ (k + j) * Rev < 2 * Rev
  <2> DEFINE turns == (k + j) * Rev
  <2>1. turns \in Int /\ WrappedDelta(from, to) = x + turns
    BY <1>3, <1>4
  <2> HIDE DEF turns
  <2>2. -2 * Rev < turns /\ turns < 2 * Rev
    BY <2>1, WrappedDeltaFacts, HalfOfRev
  <2> QED BY <2>2 DEF turns
<1>6. k + j \in {-1, 0, 1}
  BY <1>5, FewTurns
<1> QED BY <1>3, <1>4, <1>6

\* Less than half a turn, it is the way itself.
LEMMA ShortWay ==
    ASSUME NEW from \in Counts, NEW to \in Counts, NEW x \in Int,
           Leads(from, x, to), -Half < x, x < Half
    PROVE  WrappedDelta(from, to) = x
<1>1. -Rev < x /\ x < Rev
  BY HalfOfRev
<1> QED BY <1>1, WayOfWrappedDelta, WrappedDeltaFacts, HalfOfRev

\* Decoding undoes a mounting, through the zero of the encoder or not, for every
\* position less than half a turn from the middle of the axis (raw_to_deg).
THEOREM DecodeUndoesMounting ==
    ASSUME NEW map, map.center \in Counts, map.direction \in {1, -1},
           NEW p \in Int, -Half < p, p < Half
    PROVE  Decode(map, WrappedCount(map.center + map.direction * p)) = p
<1> DEFINE x == map.direction * p
           raw == WrappedCount(map.center + x)
<1>1. x \in Int /\ -Half < x /\ x < Half /\ map.direction * x = p
  BY HalfOfRev
<1>2. map.center + x \in Int
  BY <1>1 DEF Counts
<1>3. raw \in Counts /\ Leads(map.center, x, raw)
  BY <1>2, WrappedCountFacts DEF Leads
<1>4. WrappedDelta(map.center, raw) = x
  BY <1>1, <1>3, ShortWay
<1> QED BY <1>1, <1>4 DEF Decode


-----------------------------------------------------------------------------
(* What three counts tell of a path *)

\* The test of the calibration in terms of the two ways it measures.
LEMMA ConsistentWays ==
    ASSUME NEW min, NEW mid, NEW max, NEW travel, NEW minCounts, NEW tol,
           NEW e \in Int, NEW f \in Int,
           WrappedDelta(min, mid) = e, WrappedDelta(mid, max) = f
    PROVE  Consistent(min, mid, max, travel, minCounts, tol) <=>
               /\ (e > 0) = (f > 0)
               /\ Magnitude(e + f) >= minCounts * travel
               /\ Magnitude(e + f) > 0 =>
                      Magnitude(e - f) * travel <= 2 * tol * Magnitude(e + f)
BY DEF Consistent, OneWay, Derived, CenteredWithin

\* A tolerance of less than half of the travel cannot hide an empty half.
LEMMA EmptyHalf ==
    ASSUME NEW travel \in Nat, NEW minCounts \in Nat \ {0}, NEW tol \in Nat,
           travel > 2 * tol, NEW n \in Nat, n >= minCounts * travel
    PROVE  n > 0 /\ ~(n * travel <= 2 * tol * n)
<1>1. minCounts * travel > 0
  OBVIOUS
<1>2. n > 0
  BY <1>1
<1>3. n * (2 * tol) < n * travel
  BY <1>2
<1>4. n * (2 * tol) = 2 * tol * n
  OBVIOUS
<1> QED BY <1>2, <1>3, <1>4

\* Two equal samples are never consistent, whatever the third one is
\* (print_axis_result), even where the samples are no counts of the encoder.
THEOREM RepeatNeverConsistent ==
    ASSUME NEW min \in Int, NEW mid \in Int, NEW max \in Int,
           NEW travel \in Nat, NEW minCounts \in Nat \ {0}, NEW tol \in Nat,
           travel > 2 * tol, min = mid \/ mid = max
    PROVE  ~Consistent(min, mid, max, travel, minCounts, tol)
<1> DEFINE e == WrappedDelta(min, mid)
           f == WrappedDelta(mid, max)
<1>1. e \in Int /\ f \in Int
  BY HalfOfRev DEF WrappedDelta
<1>2. e = 0 \/ f = 0
  BY HalfOfRev DEF WrappedDelta
<1> HIDE DEF e, f
<1> SUFFICES ASSUME (e > 0) = (f > 0), Magnitude(e + f) >= minCounts * travel,
                    Magnitude(e + f) > 0 =>
                        Magnitude(e - f) * travel <= 2 * tol * Magnitude(e + f)
             PROVE  FALSE
  BY <1>1, ConsistentWays DEF e, f
<1>3. Magnitude(e + f) \in Nat /\ Magnitude(e - f) = Magnitude(e + f)
  BY <1>1, <1>2 DEF Magnitude
<1> QED BY <1>3, EmptyHalf

\* On a path of less than a turn, two halves that run the same way are both
\* measured the short way round: a half of more than half a turn shows.
THEOREM OneWayIsContinuous ==
    ASSUME NEW min \in Counts, NEW mid \in Counts, NEW max \in Counts,
           NEW x \in Int, NEW y \in Int, (x > 0 /\ y > 0) \/ (x < 0 /\ y < 0),
           -Rev < x + y, x + y < Rev,
           Leads(min, x, mid), Leads(mid, y, max), OneWay(min, mid, max)
    PROVE  WrappedDelta(min, mid) = x /\ WrappedDelta(mid, max) = y
<1> DEFINE e == WrappedDelta(min, mid)
           f == WrappedDelta(mid, max)
<1>1. e \in -Half .. Half /\ f \in -Half .. Half
  BY WrappedDeltaFacts
<1>2. -Rev < x /\ x < Rev /\ -Rev < y /\ y < Rev
  BY HalfOfRev
<1>3. e \in {x - Rev, x, x + Rev} /\ f \in {y - Rev, y, y + Rev}
  BY <1>2, WayOfWrappedDelta
<1>4. e > 0 <=> f > 0
  BY <1>1 DEF OneWay
<1> HIDE DEF e, f
<1>5. e = x /\ f = y
  BY <1>1, <1>2, <1>3, <1>4, HalfOfRev
<1> QED BY <1>5 DEF e, f

\* The map derived from two halves that add up to n counts in one direction.
LEMMA DerivedMap ==
    ASSUME NEW min \in Counts, NEW mid, NEW max, NEW dir \in {1, -1},
           NEW n \in Nat \ {0}, WrappedDelta(min, mid) + WrappedDelta(mid, max) = dir * n
    PROVE  /\ Derived(min, mid, max).direction = dir
           /\ Derived(min, mid, max).span = n
           /\ Derived(min, mid, max).center \in Counts
           /\ Leads(min, dir * ((n + 1) \div 2), Derived(min, mid, max).center)
<1> DEFINE half == (n + 1) \div 2
<1>1. half \in Int /\ min \in Int
  BY DEF Counts
<1>2. RoundedHalf(dir * n) = dir * half /\ Direction(dir * n) = dir
      /\ Magnitude(dir * n) = n
  BY DEF RoundedHalf, Direction, Magnitude
<1>3. Derived(min, mid, max) = [center |-> WrappedCount(min + dir * half),
                                direction |-> dir, span |-> n]
  BY <1>2 DEF Derived
<1>4. min + dir * half \in Int
  BY <1>1
<1> HIDE DEF half
<1>5. /\ WrappedCount(min + dir * half) \in Counts
      /\ Leads(min, dir * half, WrappedCount(min + dir * half))
  BY <1>4, WrappedCountFacts DEF Leads
<1> QED BY <1>3, <1>5 DEF half

\* That map decodes the count of every position on the path, counted from the
\* minimum, into its distance from the middle.
LEMMA DerivedMapDecodes ==
    ASSUME NEW map, map.center \in Counts, map.direction \in {1, -1},
           NEW min \in Counts, NEW n \in Nat \ {0}, n + 1 < Rev,
           Leads(min, map.direction * ((n + 1) \div 2), map.center),
           NEW p \in 0 .. n, NEW raw \in Counts, Leads(min, map.direction * p, raw)
    PROVE  Decode(map, raw) = p - (n + 1) \div 2
<1> DEFINE half == (n + 1) \div 2
           x == map.direction * (p - half)
<1>1. half \in Nat /\ half < Half /\ n <= 2 * half
  BY HalfOfRev
<1> HIDE DEF half
<1>2. x \in Int /\ -Half < x /\ x < Half /\ map.direction * x = p - half
  BY <1>1, HalfOfRev
<1>3. PICK j \in Int : map.center = min + map.direction * half + j * Rev
  BY DEF half, Leads
<1>4. PICK k \in Int : raw = min + map.direction * p + k * Rev
  BY DEF Leads
<1>5. raw = map.center + x + (k - j) * Rev
  <2>1. min \in Int /\ Rev \in Int
    BY HalfOfRev DEF Counts
  <2>2. (k - j) * Rev = k * Rev - j * Rev /\ k * Rev \in Int /\ j * Rev \in Int
    BY <2>1
  <2>3. x = map.direction * p - map.direction * half
    BY <1>1
  <2> QED BY <1>1, <1>3, <1>4, <2>1, <2>2, <2>3
<1>6. WrappedDelta(map.center, raw) = x
  <2>1. k - j \in Int
    OBVIOUS
  <2> HIDE DEF x
  <2>2. Leads(map.center, x, raw)
    BY <1>5, <2>1 DEF Leads
  <2> QED BY <1>2, <2>2, ShortWay
<1> QED BY <1>2, <1>6 DEF Decode, half

=============================================================================
