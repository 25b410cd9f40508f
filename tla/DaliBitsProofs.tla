--------------------------- MODULE DaliBitsProofs ---------------------------
(***************************************************************************)
(* What calculate_counts and the sequence commands make of every frame of  *)
(* up to 32 bits and of every sequence: the phases of a frame lie on a     *)
(* grid of half bits, those of a sequence have the lengths that were asked *)
(* for, each compensated for the level it has.                             *)
(***************************************************************************)
EXTENDS DaliBits, TLAPS, SequenceTheorems

\* The compensation of a phase that is added after n others.
Shift(n) == IF n % 2 = 1 THEN 24 ELSE -24

\* The length of the i-th phase.
Length(c, i) == IF i = 1 THEN c[1] ELSE c[i] - c[i - 1]

\* What is asked of add_signal_phase for a frame, and what no phase exceeds with
\* its compensation.
Durations == 25..2450
Longest   == 2500

\* How many phases an array holds that has room for one more.
Room == 0..66

\* Counts that increase, and that no phase carries beyond the modulus.
Fit(c) ==
  /\ c \in Seq(Nat) /\ Len(c) <= COUNT_ARRAY_SIZE
  /\ \A i \in 1..Len(c) : 0 < c[i] /\ c[i] <= Longest * i
  /\ \A i \in 1..Len(c) - 1 : c[i] < c[i + 1]

Holds(c, n) == Fit(c) /\ Len(c) = n

Encoders(S) == [count : S, state_now : BOOLEAN, full : BOOLEAN]

\* Parities alternate; stated once, for the provers.
LEMMA Parity ==
  \A n \in Nat : n % 2 \in {0, 1} /\ (n + 1) % 2 = 1 - (n % 2)
  OBVIOUS

\* A count below the modulus is kept as it is.
LEMMA NoWrap == \A n, m \in Nat : n < m => n % m = n
  OBVIOUS

\* The sum of m + 1 short phases, for the provers.
LEMMA Sums ==
  \A x \in Nat, p \in 1..Longest, m \in Nat :
    x <= Longest * m => /\ x + p \in Nat /\ 0 < x + p /\ x < x + p
                     /\ x + p <= Longest * (m + 1)
  BY DEF Longest

\* Taking the last phase back leaves the others.
LEMMA PhasesKept ==
  ASSUME NEW c \in Seq(Nat), Len(c) > 0
  PROVE  LET kept == SubSeq(c, 1, Len(c) - 1)
         IN /\ kept \in Seq(Nat) /\ Len(kept) = Len(c) - 1
            /\ \A i \in 1..Len(c) - 1 : kept[i] = c[i]
<1> DEFINE n    == Len(c) - 1
           kept == SubSeq(c, 1, n)
<1>1. n \in Nat /\ \A i \in 1..n : c[i] \in Nat
  OBVIOUS
<1>2. /\ kept \in Seq(Nat)
      /\ Len(kept) = IF 1 <= n THEN n - 1 + 1 ELSE 0
      /\ \A i \in 1..n - 1 + 1 : kept[i] = c[1 + i - 1]
  BY <1>1, SubSeqProperties
<1> HIDE DEF kept
<1>3. Len(kept) = n /\ \A i \in 1..n : kept[i] = c[i]
  <2>1. n - 1 + 1 = n /\ \A i \in 1..n : 1 + i - 1 = i
    BY <1>1
  <2> HIDE DEF n
  <2> QED BY <1>1, <1>2, <2>1
<1> QED BY <1>2, <1>3 DEF kept

\* A phase of up to Longest us is added to counts that fit.
LEMMA CountsGrow ==
  ASSUME NEW c, NEW m \in 0..COUNT_ARRAY_SIZE - 1, Fit(c), m <= Len(c),
         NEW kept \in Seq(Nat), Len(kept) = m, \A i \in 1..m : kept[i] = c[i],
         NEW p \in 1..Longest
  PROVE  LET new == Append(kept, End(kept) + p)
         IN /\ Fit(new) /\ Len(new) = m + 1
            /\ \A i \in 1..m : new[i] = c[i]
            /\ Length(new, m + 1) = p
            /\ End(kept) \in Nat /\ End(kept) <= Longest * m
<1> DEFINE t   == End(kept) + p
           new == Append(kept, t)
<1>1. /\ c \in Seq(Nat)
      /\ \A i \in 1..m : c[i] \in Nat /\ 0 < c[i] /\ c[i] <= Longest * i
      /\ \A i \in 1..m - 1 : c[i] < c[i + 1]
      /\ m \in 0..66
  BY DEF Fit, COUNT_ARRAY_SIZE, DALI_MAX_DATA_LENGTH
<1>2. End(kept) = IF m = 0 THEN 0 ELSE c[m]
  <2>1. CASE m = 0
    <3>1. kept = <<>>
      BY <2>1
    <3> QED BY <2>1, <3>1 DEF End
  <2>2. CASE m # 0
    <3>1. kept # <<>> /\ kept[Len(kept)] = c[m]
      BY <1>1, <2>2
    <3> QED BY <2>2, <3>1 DEF End
  <2> QED BY <2>1, <2>2
<1>3. End(kept) \in Nat /\ End(kept) <= Longest * m
  <2>1. CASE m = 0
    BY <1>2, <2>1 DEF Longest
  <2>2. CASE m # 0
    <3>1. m \in 1..m
      BY <1>1, <2>2
    <3> QED BY <1>1, <1>2, <2>2, <3>1
  <2> QED BY <2>1, <2>2
<1>4. t \in Nat /\ 0 < t /\ End(kept) < t /\ t <= Longest * (m + 1) /\ t = End(kept) + p
  <2>1. m \in Nat
    BY <1>1
  <2>2. p \in 1..Longest
    OBVIOUS
  <2>3. /\ End(kept) + p \in Nat /\ 0 < End(kept) + p /\ End(kept) < End(kept) + p
        /\ End(kept) + p <= Longest * (m + 1)
    BY <1>3, <2>1, <2>2, Sums
  <2> QED BY <2>3
<1> HIDE DEF t
<1>5. /\ new \in Seq(Nat) /\ Len(new) = m + 1
      /\ \A i \in 1..m : new[i] = c[i]
      /\ new[m + 1] = t
  BY <1>1, <1>4
<1> HIDE DEF new
<1>6. Fit(new)
  <2>1. Len(new) <= COUNT_ARRAY_SIZE
    BY <1>1, <1>5 DEF COUNT_ARRAY_SIZE, DALI_MAX_DATA_LENGTH
  <2>2. ASSUME NEW i \in 1..Len(new) PROVE 0 < new[i] /\ new[i] <= Longest * i
    <3>1. CASE i <= m
      <4>1. i \in 1..m
        BY <1>1, <1>5, <3>1
      <4>2. new[i] = c[i]
        BY <1>5, <4>1
      <4> QED BY <1>1, <4>1, <4>2
    <3>2. CASE i = m + 1
      BY <1>4, <1>5, <3>2
    <3> QED BY <1>1, <1>5, <3>1, <3>2
  <2>3. ASSUME NEW i \in 1..Len(new) - 1 PROVE new[i] < new[i + 1]
    <3>1. CASE i < m
      BY <1>1, <1>5, <3>1
    <3>2. CASE i = m
      BY <1>1, <1>2, <1>4, <1>5, <3>2
    <3> QED BY <1>5, <3>1, <3>2
  <2> QED BY <1>5, <2>1, <2>2, <2>3 DEF Fit
<1>7. Length(new, m + 1) = p
  <2>1. CASE m = 0
    BY <1>2, <1>4, <1>5, <2>1 DEF Length
  <2>2. CASE m # 0
    BY <1>1, <1>2, <1>4, <1>5, <2>2 DEF Length
  <2> QED BY <2>1, <2>2
<1> QED BY <1>3, <1>5, <1>6, <1>7 DEF new, t

\* The array of counts has 67 elements.
LEMMA ArraySize == COUNT_ARRAY_SIZE = 67
  BY DEF COUNT_ARRAY_SIZE, DALI_MAX_DATA_LENGTH

\* A phase with its compensation is neither empty nor too long.
LEMMA Compensated ==
  ASSUME NEW d \in Durations, NEW n \in Room
  PROVE  d \in Nat /\ d + Shift(n) \in 1..Longest
  BY DEF Durations, Shift, Longest, Room

\* No count of an array that has room for it exceeds the modulus.
LEMMA Countable ==
  ASSUME NEW x \in Nat, NEW m \in Room, x <= Longest * (m + 1)
  PROVE  x < CountModulus /\ x % CountModulus = x
<1>1. x <= 167500
  BY DEF Longest, Room
<1>2. CountModulus \in Nat /\ x < CountModulus
  BY <1>1, ArraySize, BitsAssumption
<1> QED BY <1>2, NoWrap

\* Of n phases, the last may be taken back: m are left.
Leaves(n, change, m) ==
  (change => n > 0) /\ m = IF change THEN n - 1 ELSE n

WithCount(e, new) == [e EXCEPT !.count = new]

Kept(c, change) == IF change THEN SubSeq(c, 1, Len(c) - 1) ELSE c
Added(c, change, p) ==
  Append(Kept(c, change), (End(Kept(c, change)) + p) % CountModulus)

\* Adding a phase to counts with room for it, or replacing the last one: the
\* phases before stay, and the counts still increase.
LEMMA CountAdded ==
  ASSUME NEW c, NEW n \in Room, Holds(c, n),
         NEW change \in BOOLEAN, NEW m \in Room, Leaves(n, change, m), NEW p \in 1..Longest
  PROVE  /\ Added(c, change, p) \in Seq(Nat) /\ Holds(Added(c, change, p), m + 1)
         /\ \A i \in 1..m : Added(c, change, p)[i] = c[i]
         /\ Length(Added(c, change, p), m + 1) = p
<1> DEFINE kept == Kept(c, change)
           new  == Append(kept, End(kept) + p)
<1>0. Fit(c) /\ Len(c) = n
  BY DEF Holds
<1>1. c \in Seq(Nat) /\ m <= Len(c)
  BY <1>0 DEF Fit, Room, Leaves
<1>2. kept \in Seq(Nat) /\ Len(kept) = m /\ \A i \in 1..m : kept[i] = c[i]
  <2>1. CASE change
    <3>1. Len(c) > 0 /\ Len(c) - 1 = m
      BY <1>0, <2>1 DEF Room, Leaves
    <3> QED BY <1>1, <2>1, <3>1, PhasesKept DEF Kept
  <2>2. CASE ~change
    BY <1>0, <1>1, <2>2 DEF Leaves, Kept
  <2> QED BY <2>1, <2>2
<1> HIDE DEF kept
<1>3. m \in 0..COUNT_ARRAY_SIZE - 1 /\ m \in Nat
  BY ArraySize DEF Room
<1>4. /\ Fit(new) /\ Len(new) = m + 1
      /\ \A i \in 1..m : new[i] = c[i]
      /\ Length(new, m + 1) = p
      /\ End(kept) \in Nat /\ End(kept) <= Longest * m
  BY <1>0, <1>1, <1>2, <1>3, CountsGrow
<1>5. End(kept) + p \in Nat /\ End(kept) + p <= Longest * (m + 1)
  BY <1>3, <1>4, Sums
<1>6. (End(kept) + p) % CountModulus = End(kept) + p
  BY <1>5, Countable
<1>7. new \in Seq(Nat)
  BY <1>4 DEF Fit
<1> QED BY <1>4, <1>6, <1>7 DEF kept, Holds, Added

\* The result r is e with a phase after the first m, its length d compensated as
\* one that comes after n.
Adds(e, r, n, m, d) ==
  \E new \in Seq(Nat) :
    /\ r = WithCount(e, new)
    /\ Holds(new, m + 1)
    /\ \A i \in 1..m : new[i] = e.count[i]
    /\ Length(new, m + 1) = d + Shift(n)

\* add_signal_phase does this to the counts.
LEMMA PhaseAdded ==
  ASSUME NEW e, NEW n \in Room, Holds(e.count, n),
         NEW d \in Nat, d + Shift(n) \in 1..Longest, NEW change \in BOOLEAN,
         NEW m \in Room, Leaves(n, change, m)
  PROVE  Adds(e, add_signal_phase(e, d, change), n, m, d)
<1> DEFINE p    == d + Shift(n)
           new  == Added(e.count, change, p)
<1>1. /\ p \in 1..Longest
      /\ p = IF n % 2 = 1 THEN d + (DALI_TX_RISE_US + DALI_TX_FALL_US)
                          ELSE d - (DALI_TX_RISE_US + DALI_TX_FALL_US)
  BY DEF Shift, DALI_TX_RISE_US, DALI_TX_FALL_US
<1> HIDE DEF p
<1>2. /\ new \in Seq(Nat) /\ Holds(new, m + 1)
      /\ \A i \in 1..m : new[i] = e.count[i]
      /\ Length(new, m + 1) = p
  BY <1>1, CountAdded
<1>3. ~(Len(e.count) >= COUNT_ARRAY_SIZE)
  BY ArraySize DEF Room, Holds
<1>4. add_signal_phase(e, d, change) = WithCount(e, new)
  BY <1>1, <1>3 DEF add_signal_phase, Kept, Added, Holds, WithCount
<1> HIDE DEF new
<1> QED BY <1>2, <1>4 DEF p, Adds

\* Its two uses: a phase is appended ...
LEMMA PhaseAppended ==
  ASSUME NEW e, NEW n \in Room, Holds(e.count, n),
         NEW d \in Nat, d + Shift(n) \in 1..Longest
  PROVE  \E new \in Seq(Nat) :
           /\ add_signal_phase(e, d, FALSE) = WithCount(e, new)
           /\ Holds(new, n + 1)
           /\ \A i \in 1..n : new[i] = e.count[i]
           /\ Length(new, n + 1) = d + Shift(n)
<1>1. Leaves(n, FALSE, n)
  BY DEF Leaves
<1>2. Adds(e, add_signal_phase(e, d, FALSE), n, n, d)
  BY <1>1, PhaseAdded
<1> QED BY <1>2 DEF Adds

\* ... or replaces the last one, with the compensation of the other level.
LEMMA PhaseReplaced ==
  ASSUME NEW e, NEW n \in Room, Holds(e.count, n), n > 0,
         NEW d \in Nat, d + Shift(n) \in 1..Longest
  PROVE  \E new \in Seq(Nat) :
           /\ add_signal_phase(e, d, TRUE) = WithCount(e, new)
           /\ Holds(new, n)
           /\ \A i \in 1..n - 1 : new[i] = e.count[i]
           /\ Length(new, n) = d + Shift(n)
<1>1. n - 1 \in Room /\ (n - 1) + 1 = n
  BY DEF Room
<1>2. Leaves(n, TRUE, n - 1)
  BY <1>1 DEF Leaves
<1>3. Adds(e, add_signal_phase(e, d, TRUE), n, n - 1, d)
  BY <1>1, <1>2, PhaseAdded
<1> QED BY <1>1, <1>3 DEF Adds

-----------------------------------------------------------------------------
(* The phases of a frame lie on a grid of half bits.  Phase i begins at the  *)
(* edge i: at the beginning of the bit bit[i] when half[i] is 0, and in its   *)
(* middle when half[i] is 1.  The start bit is bit 0, and the stop condition *)
(* follows the last bit as an idle level would.                              *)

Value(s, b) == IF b = 0 THEN TRUE
               ELSE IF b <= Len(s.bits) THEN s.bits[b] ELSE FALSE

Grids(bit, half) == bit \in [Nat -> Nat] /\ half \in [Nat -> {0, 1}]

\* The level at each edge, and which bits there are.
Placed(s, bit, half, i) ==
  /\ Value(s, bit[i]) = (i % 2 # half[i])
  /\ bit[i] <= Len(s.bits) + 1 - half[i]

\* The edge after that, and how far away it is.
HalfBit(i) == 417 - Shift(i)
FullBit(i) == 833 + Shift(i)

Follows(s, c, bit, half, i) ==
  IF half[i] = 1 /\ Value(s, bit[i] + 1) # Value(s, bit[i])
  THEN bit[i + 1] = bit[i] + 1 /\ half[i + 1] = 1 /\ Length(c, i) = FullBit(i)
  ELSE /\ bit[i + 1] = bit[i] + half[i]
       /\ half[i + 1] = 1 - half[i]
       /\ Length(c, i) = HalfBit(i)

OnGrid(s, c, bit, half) ==
  /\ Grids(bit, half)
  /\ Len(c) > 0 => bit[1] = 0 /\ half[1] = 0
  /\ \A i \in 1..Len(c) : Placed(s, bit, half, i)
  /\ \A i \in 1..Len(c) - 1 : Follows(s, c, bit, half, i)

\* The bits up to b are there, and nothing else.
Reaches(s, c, bit, half, b) ==
  /\ Len(c) > 0 /\ half[Len(c)] = 1 /\ bit[Len(c)] = b
  /\ Length(c, Len(c)) = HalfBit(Len(c))

\* All bits are there, and so is the stop condition.
Ended(s, c, bit, half) ==
  /\ Len(c) > 0 /\ Len(c) % 2 = 0
  /\ bit[Len(c)] = Len(s.bits) + 1 - half[Len(c)]

\* Compensations alternate.
LEMMA Shifts ==
  \A i \in Nat : /\ Shift(i) \in {24, -24} /\ Shift(i + 1) = -Shift(i)
                 /\ HalfBit(i + 1) = 417 + Shift(i)
<1> SUFFICES ASSUME NEW i \in Nat
             PROVE  /\ Shift(i) \in {24, -24} /\ Shift(i + 1) = -Shift(i)
                    /\ HalfBit(i + 1) = 417 + Shift(i)
  OBVIOUS
<1>1. Shift(i) \in {24, -24} /\ Shift(i + 1) = -Shift(i)
  BY Parity DEF Shift
<1> QED BY <1>1 DEF HalfBit

\* Counts that stay keep the lengths of their phases.
LEMMA LengthKept ==
  ASSUME NEW c, NEW new, NEW m \in Nat, \A i \in 1..m : new[i] = c[i],
         NEW i \in 1..m
  PROVE  Length(new, i) = Length(c, i)
<1>1. CASE i = 1
  BY <1>1 DEF Length
<1>2. CASE i # 1
  <2>1. i - 1 \in 1..m
    BY <1>2
  <2> QED BY <1>2, <2>1 DEF Length
<1> QED BY <1>1, <1>2

\* What is placed before the (m + 1)-th edge stays so, whatever comes there.
LEMMA GridKept ==
  ASSUME NEW s, NEW c, NEW new, NEW bit, NEW half, NEW bit2, NEW half2,
         NEW m \in Nat, \A i \in 1..m : new[i] = c[i],
         \A i \in 1..m + 1 : bit2[i] = bit[i] /\ half2[i] = half[i],
         NEW i \in 1..m
  PROVE  /\ Placed(s, bit, half, i) => Placed(s, bit2, half2, i)
         /\ Follows(s, c, bit, half, i) => Follows(s, new, bit2, half2, i)
<1>1. i \in 1..m + 1 /\ i + 1 \in 1..m + 1
  OBVIOUS
<1>2. Length(new, i) = Length(c, i)
  BY LengthKept
<1> QED BY <1>1, <1>2 DEF Placed, Follows

Sized(c, n) == Len(c) = n
Prefix(c, new, n) == \A i \in 1..n : new[i] = c[i]

FrameSource(s) == s.bits \in Seq(BOOLEAN) /\ Len(s.bits) \in 0..32

\* There are 32 bits at most.
LEMMA BitCount ==
  ASSUME NEW s, FrameSource(s)
  PROVE  Len(s.bits) \in Nat /\ Len(s.bits) <= 32
<1>1. Len(s.bits) \in 0..32
  BY DEF FrameSource
<1> HIDE DEF FrameSource
<1>2. \A k \in 0..32 : k \in Nat /\ k <= 32
  OBVIOUS
<1> QED BY <1>1, <1>2

\* A bit has a value.
LEMMA ValueTyped ==
  ASSUME NEW s, FrameSource(s), NEW b \in Nat
  PROVE  Value(s, b) \in BOOLEAN
<1>1. CASE b \in 1..Len(s.bits)
  <2>1. s.bits[b] \in BOOLEAN
    BY <1>1 DEF FrameSource
  <2> QED BY <1>1, <2>1 DEF Value, FrameSource
<1>2. CASE b = 0
  BY <1>2 DEF Value
<1>3. CASE b # 0 /\ ~(b <= Len(s.bits))
  BY <1>3 DEF Value
<1>4. Len(s.bits) \in Nat
  BY DEF FrameSource
<1> QED BY <1>1, <1>2, <1>3, <1>4

\* The edge after the n-th is where the grid wants it.
Joined(s, c, bit, half, n) ==
  IF n = 0 THEN bit[1] = 0 /\ half[1] = 0 ELSE Follows(s, c, bit, half, n)

\* One more phase whose edge is placed where it belongs, after counts that stay
\* but for the length of the last phase: the grid grows.
LEMMA GridGrows ==
  ASSUME NEW s, NEW c, NEW new, NEW n \in Nat, c \in Seq(Nat), new \in Seq(Nat),
         Sized(c, n), Sized(new, n + 1), Prefix(c, new, n - 1),
         NEW bit, NEW half, OnGrid(s, c, bit, half),
         NEW bit2, NEW half2, Grids(bit2, half2),
         Prefix(bit, bit2, n), Prefix(half, half2, n),
         Joined(s, new, bit2, half2, n), Placed(s, bit2, half2, n + 1)
  PROVE  OnGrid(s, new, bit2, half2)
<1>0. /\ Len(c) = n /\ Len(new) = n + 1
      /\ \A i \in 1..n - 1 : new[i] = c[i]
      /\ \A i \in 1..n : bit2[i] = bit[i] /\ half2[i] = half[i]
      /\ n > 0 => Follows(s, new, bit2, half2, n)
      /\ n = 0 => bit2[1] = 0 /\ half2[1] = 0
  BY DEF Sized, Prefix, Joined
<1> USE <1>0
<1>1. ASSUME NEW i \in 1..n PROVE Placed(s, bit2, half2, i)
  BY <1>1 DEF OnGrid, Placed
<1>2. ASSUME NEW i \in 1..n - 1 PROVE Follows(s, new, bit2, half2, i)
  <2>1. Follows(s, c, bit, half, i)
    BY DEF OnGrid
  <2>2. PICK m \in Nat : m = n - 1 /\ m + 1 = n
    BY <1>2
  <2>3. i \in 1..m /\ \A j \in 1..m : new[j] = c[j]
    BY <1>2, <2>2
  <2>4. \A j \in 1..m + 1 : bit2[j] = bit[j] /\ half2[j] = half[j]
    BY <2>2
  <2> QED BY <2>1, <2>3, <2>4, GridKept
<1>3. \A i \in 1..n + 1 : Placed(s, bit2, half2, i)
  <2>1. \A i \in 1..n + 1 : i \in 1..n \/ i = n + 1
    OBVIOUS
  <2> QED BY <1>1, <2>1
<1>4. \A i \in 1..n + 1 - 1 : Follows(s, new, bit2, half2, i)
  <2>1. \A i \in 1..n + 1 - 1 : i \in 1..n - 1 \/ (i = n /\ n > 0)
    OBVIOUS
  <2> QED BY <1>2, <2>1
<1>5. bit2[1] = 0 /\ half2[1] = 0
  <2>1. CASE n = 0
    BY <2>1
  <2>2. CASE n > 0
    <3>1. 1 \in 1..n /\ bit[1] = 0 /\ half[1] = 0
      BY <2>2 DEF OnGrid
    <3> QED BY <3>1
  <2> QED BY <2>1, <2>2
<1> QED BY <1>3, <1>4, <1>5 DEF OnGrid

\* Functions get a value for one more edge.
LEMMA EdgePlaced ==
  ASSUME NEW bit, NEW half, Grids(bit, half), NEW n \in Nat, NEW b \in Nat, NEW h \in {0, 1}
  PROVE  \E bit2, half2 :
           /\ Grids(bit2, half2) /\ bit2[n + 1] = b /\ half2[n + 1] = h
           /\ \A i \in 1..n : bit2[i] = bit[i] /\ half2[i] = half[i]
<1> DEFINE bit2  == [bit EXCEPT ![n + 1] = b]
           half2 == [half EXCEPT ![n + 1] = h]
<1>1. Grids(bit2, half2) /\ bit2[n + 1] = b /\ half2[n + 1] = h
  BY DEF Grids
<1>2. \A i \in 1..n : bit2[i] = bit[i] /\ half2[i] = half[i]
  BY DEF Grids
<1> HIDE DEF bit2, half2
<1> QED BY <1>1, <1>2

\* A bit that differs from the one before has its edge in the middle only, and
\* the last half bit becomes a full one.
LEMMA DifferentBitAdded ==
  ASSUME NEW s, FrameSource(s), NEW b \in 1..Len(s.bits),
         NEW c \in Seq(Nat), NEW n \in Nat, Len(c) = n,
         NEW bit, NEW half, OnGrid(s, c, bit, half), Reaches(s, c, bit, half, b - 1),
         Value(s, b) # Value(s, b - 1),
         NEW new \in Seq(Nat), Len(new) = n + 1, \A i \in 1..n - 1 : new[i] = c[i],
         Length(new, n) = FullBit(n), Length(new, n + 1) = HalfBit(n + 1)
  PROVE  \E bit2, half2 : OnGrid(s, new, bit2, half2) /\ Reaches(s, new, bit2, half2, b)
<1>1. b \in Nat /\ b - 1 \in Nat /\ b - 1 + 1 = b /\ b <= Len(s.bits) + 1 - 1 /\ Len(s.bits) \in Nat
  BY DEF FrameSource
<1>2. n \in 1..n /\ half[n] = 1 /\ bit[n] = b - 1 /\ n > 0
  BY DEF Reaches
<1>3. PICK bit2, half2 :
        /\ Grids(bit2, half2) /\ bit2[n + 1] = b /\ half2[n + 1] = 1
        /\ \A i \in 1..n : bit2[i] = bit[i] /\ half2[i] = half[i]
  <2>1. Grids(bit, half)
    BY DEF OnGrid
  <2> QED BY <1>1, <2>1, EdgePlaced
<1>4. Value(s, b) \in BOOLEAN /\ Value(s, b - 1) \in BOOLEAN
  BY <1>1, ValueTyped
<1>5. Placed(s, bit2, half2, n + 1)
  <2>1. (n + 1) % 2 # 1 <=> ~(n % 2 # 1)
    BY Parity
  <2>2. Value(s, b - 1) = (n % 2 # 1)
    BY <1>2 DEF OnGrid, Placed
  <2>3. Value(s, b) = ((n + 1) % 2 # 1)
    BY <1>4, <2>1, <2>2
  <2> QED BY <1>1, <1>3, <2>3 DEF Placed
<1>6. Follows(s, new, bit2, half2, n)
  <2>1. half2[n] = 1 /\ bit2[n] = b - 1 /\ bit2[n] + 1 = b
    BY <1>1, <1>2, <1>3
  <2>2. Value(s, bit2[n] + 1) # Value(s, bit2[n])
    BY <2>1
  <2> QED BY <1>3, <2>1, <2>2 DEF Follows
<1>7. OnGrid(s, new, bit2, half2)
  <2>1. /\ Sized(c, n) /\ Sized(new, n + 1) /\ Prefix(c, new, n - 1)
        /\ Prefix(bit, bit2, n) /\ Prefix(half, half2, n)
        /\ Joined(s, new, bit2, half2, n) /\ Grids(bit2, half2)
    BY <1>2, <1>3, <1>6 DEF Sized, Prefix, Joined
  <2> QED BY <1>5, <2>1, GridGrows
<1> QED BY <1>2, <1>3, <1>7 DEF Reaches

\* What comes next, the start bit or bit b, begins with an edge.
AtBoundary(s, c, bit, half, b) ==
  IF b = 0 THEN Len(c) = 0
  ELSE Reaches(s, c, bit, half, b - 1) /\ Value(s, b) = Value(s, b - 1)

\* A bit like the one before, the stop condition after an active level, or the
\* start bit: its first phase begins with an edge of its own.
LEMMA BitBegun ==
  ASSUME NEW s, FrameSource(s), NEW b \in Nat, b <= Len(s.bits) + 1,
         NEW c \in Seq(Nat), NEW n \in Nat, Sized(c, n),
         NEW bit, NEW half, OnGrid(s, c, bit, half),
         AtBoundary(s, c, bit, half, b),
         NEW new \in Seq(Nat), Sized(new, n + 1), Prefix(c, new, n)
  PROVE  \E bit2, half2 : /\ OnGrid(s, new, bit2, half2)
                          /\ bit2[n + 1] = b /\ half2[n + 1] = 0
<1>0. Len(c) = n /\ Len(new) = n + 1 /\ \A i \in 1..n : new[i] = c[i]
  BY DEF Sized, Prefix
<1> USE <1>0
<1>1. Len(s.bits) \in Nat /\ b <= Len(s.bits) + 1 - 0
  BY DEF FrameSource
<1>2. PICK bit2, half2 :
        /\ Grids(bit2, half2) /\ bit2[n + 1] = b /\ half2[n + 1] = 0
        /\ \A i \in 1..n : bit2[i] = bit[i] /\ half2[i] = half[i]
  <2>1. Grids(bit, half)
    BY DEF OnGrid
  <2>2. 0 \in {0, 1}
    OBVIOUS
  <2> QED BY <2>1, <2>2, EdgePlaced
<1>3. \A i \in 1..n - 1 : new[i] = c[i]
  OBVIOUS
<1>4. CASE b = 0
  <2>1. n = 0 /\ bit2[1] = 0 /\ half2[1] = 0 /\ 1 % 2 = 1
    BY <1>2, <1>4 DEF AtBoundary
  <2>2. Placed(s, bit2, half2, n + 1)
    <3>1. n + 1 = 1 /\ ((n + 1) % 2 # 0) = TRUE
      BY <2>1
    <3>2. Value(s, 0) = TRUE
      BY DEF Value
    <3> QED BY <1>1, <1>2, <1>4, <3>1, <3>2 DEF Placed
  <2>3. OnGrid(s, new, bit2, half2)
    <3>1. /\ Prefix(c, new, n - 1) /\ Prefix(bit, bit2, n) /\ Prefix(half, half2, n)
          /\ Joined(s, new, bit2, half2, n) /\ Grids(bit2, half2)
      BY <1>2, <1>3, <2>1 DEF Prefix, Joined
    <3> QED BY <2>2, <3>1, GridGrows
  <2> QED BY <1>2, <2>3
<1>5. CASE b # 0
  <2>1. n \in 1..n /\ half[n] = 1 /\ bit[n] = b - 1 /\ n > 0 /\ Length(c, n) = HalfBit(n)
    BY <1>5 DEF Reaches, AtBoundary
  <2>2. b - 1 \in Nat /\ b - 1 + 1 = b
    BY <1>5
  <2>3. Value(s, b) \in BOOLEAN /\ Value(s, b - 1) = Value(s, b)
    BY <1>5, ValueTyped DEF AtBoundary
  <2>4. Placed(s, bit2, half2, n + 1)
    <3>1. (n + 1) % 2 # 0 <=> n % 2 # 1
      BY Parity
    <3>2. Value(s, b - 1) = (n % 2 # 1)
      BY <2>1 DEF OnGrid, Placed
    <3>3. Value(s, b) = ((n + 1) % 2 # 0)
      BY <2>3, <3>1, <3>2
    <3> QED BY <1>1, <1>2, <3>3 DEF Placed
  <2>5. Follows(s, new, bit2, half2, n)
    <3>1. half2[n] = 1 /\ bit2[n] = b - 1 /\ bit2[n] + 1 = b
      BY <1>2, <2>1, <2>2
    <3>2. Length(new, n) = HalfBit(n)
      BY <2>1, LengthKept
    <3>3. Value(s, bit2[n] + 1) = Value(s, bit2[n])
      BY <2>3, <3>1
    <3>4. bit2[n + 1] = bit2[n] + half2[n] /\ half2[n + 1] = 1 - half2[n]
      BY <1>2, <3>1
    <3> QED BY <3>2, <3>3, <3>4 DEF Follows
  <2>6. OnGrid(s, new, bit2, half2)
    <3>1. /\ Prefix(c, new, n - 1) /\ Prefix(bit, bit2, n) /\ Prefix(half, half2, n)
          /\ Joined(s, new, bit2, half2, n) /\ Grids(bit2, half2)
      BY <1>2, <1>3, <2>1, <2>5 DEF Prefix, Joined
    <3> QED BY <2>4, <3>1, GridGrows
  <2> QED BY <1>2, <2>6
<1> QED BY <1>4, <1>5

\* The second phase of such a bit begins in its middle.
LEMMA BitTurned ==
  ASSUME NEW s, FrameSource(s), NEW b \in Nat, b <= Len(s.bits),
         NEW c \in Seq(Nat), NEW n \in Nat, Len(c) = n, n > 0,
         NEW bit, NEW half, OnGrid(s, c, bit, half),
         bit[n] = b, half[n] = 0, Length(c, n) = HalfBit(n),
         NEW new \in Seq(Nat), Len(new) = n + 1, \A i \in 1..n : new[i] = c[i],
         Length(new, n + 1) = HalfBit(n + 1)
  PROVE  \E bit2, half2 : OnGrid(s, new, bit2, half2) /\ Reaches(s, new, bit2, half2, b)
<1>1. Len(s.bits) \in Nat /\ b <= Len(s.bits) + 1 - 1 /\ n \in 1..n
  BY DEF FrameSource
<1>2. PICK bit2, half2 :
        /\ Grids(bit2, half2) /\ bit2[n + 1] = b /\ half2[n + 1] = 1
        /\ \A i \in 1..n : bit2[i] = bit[i] /\ half2[i] = half[i]
  <2>1. Grids(bit, half)
    BY DEF OnGrid
  <2> QED BY <2>1, EdgePlaced
<1>3. \A i \in 1..n - 1 : new[i] = c[i]
  OBVIOUS
<1>4. Placed(s, bit2, half2, n + 1)
  <2>1. (n + 1) % 2 # 1 <=> n % 2 # 0
    BY Parity
  <2>2. Value(s, b) = (n % 2 # 0)
    BY <1>1 DEF OnGrid, Placed
  <2>3. Value(s, b) = ((n + 1) % 2 # 1)
    BY <2>1, <2>2
  <2> QED BY <1>1, <1>2, <2>3 DEF Placed
<1>5. Follows(s, new, bit2, half2, n)
  <2>1. half2[n] = 0 /\ bit2[n] = b
    BY <1>1, <1>2
  <2>2. Length(new, n) = HalfBit(n)
    BY <1>1, LengthKept
  <2>3. bit2[n + 1] = bit2[n] + half2[n] /\ half2[n + 1] = 1 - half2[n]
    BY <1>2, <2>1
  <2> QED BY <2>1, <2>2, <2>3 DEF Follows
<1>6. OnGrid(s, new, bit2, half2)
  <2>1. /\ Sized(c, n) /\ Sized(new, n + 1) /\ Prefix(c, new, n - 1)
        /\ Prefix(bit, bit2, n) /\ Prefix(half, half2, n)
        /\ Joined(s, new, bit2, half2, n) /\ Grids(bit2, half2)
    BY <1>2, <1>3, <1>5 DEF Sized, Prefix, Joined
  <2> QED BY <1>4, <2>1, GridGrows
<1> QED BY <1>2, <1>6 DEF Reaches

\* What the encoder asks of add_signal_phase.
LEMMA Asked ==
  /\ dali_timing.half_bit_us \in Durations /\ dali_timing.full_bit_us \in Durations
  /\ dali_timing.stop_condition_us \in Durations
  /\ \A n \in Nat : /\ dali_timing.half_bit_us + Shift(n) = HalfBit(n + 1)
                    /\ dali_timing.full_bit_us + Shift(n) = FullBit(n)
<1>1. /\ dali_timing.half_bit_us = 417 /\ dali_timing.full_bit_us = 833
      /\ dali_timing.stop_condition_us = 2450
  BY DEF dali_timing
<1>2. /\ 417 \in Durations /\ 833 \in Durations /\ 2450 \in Durations
  BY DEF Durations
<1>3. ASSUME NEW n \in Nat
      PROVE  417 + Shift(n) = HalfBit(n + 1) /\ 833 + Shift(n) = FullBit(n)
  BY Shifts DEF FullBit
<1> QED BY <1>1, <1>2, <1>3

\* The encoder is where bit b is to be added.
Preceded(s, e, bit, half, b) ==
  IF b = 0 THEN Len(e.count) = 0 /\ e.state_now = TRUE
  ELSE Reaches(s, e.count, bit, half, b - 1) /\ e.state_now = Value(s, b - 1)

\* Both phases together.
LEMMA SameBitOnGrid ==
  ASSUME NEW s, FrameSource(s), NEW b \in Nat, b <= Len(s.bits),
         NEW c \in Seq(Nat), NEW n \in Nat, Sized(c, n),
         NEW bit, NEW half, OnGrid(s, c, bit, half), AtBoundary(s, c, bit, half, b),
         NEW c1 \in Seq(Nat), Sized(c1, n + 1), Prefix(c, c1, n),
         Length(c1, n + 1) = HalfBit(n + 1),
         NEW new \in Seq(Nat), Sized(new, n + 1 + 1), Prefix(c1, new, n + 1),
         Length(new, n + 1 + 1) = HalfBit(n + 1 + 1)
  PROVE  \E bit2, half2 : OnGrid(s, new, bit2, half2) /\ Reaches(s, new, bit2, half2, b)
<1>1. b <= Len(s.bits) + 1
  BY DEF FrameSource
<1>2. PICK bit1, half1 : /\ OnGrid(s, c1, bit1, half1)
                         /\ bit1[n + 1] = b /\ half1[n + 1] = 0
  BY <1>1, BitBegun
<1>3. PICK m \in Nat : m = n + 1 /\ m > 0
  OBVIOUS
<1>4. Len(c1) = m /\ Len(new) = m + 1 /\ \A i \in 1..m : new[i] = c1[i]
  BY <1>3 DEF Sized, Prefix
<1> QED BY <1>2, <1>3, <1>4, BitTurned

\* add_bit for a bit like the one before: two phases.
LEMMA SameBitAdded ==
  ASSUME NEW s, FrameSource(s), NEW b \in Nat, b <= Len(s.bits),
         NEW e \in Encoders(Seq(Nat)), NEW n \in Nat, n <= 65, Holds(e.count, n),
         NEW bit, NEW half, OnGrid(s, e.count, bit, half),
         Preceded(s, e, bit, half, b), e.state_now = Value(s, b)
  PROVE  \E new, bit2, half2 :
           /\ new \in Seq(Nat)
           /\ add_bit(e, Value(s, b)) = [e EXCEPT !.count = new, !.state_now = Value(s, b)]
           /\ Fit(new) /\ Len(new) <= n + 2
           /\ OnGrid(s, new, bit2, half2) /\ Reaches(s, new, bit2, half2, b)
<1> DEFINE t == dali_timing.half_bit_us
<1>1. t \in Durations /\ t + Shift(n) = HalfBit(n + 1) /\ t + Shift(n + 1) = HalfBit(n + 1 + 1)
  <2>1. n \in Nat /\ n + 1 \in Nat
    OBVIOUS
  <2> QED BY <2>1, Asked
<1> HIDE DEF t
<1>2. n \in Room /\ n + 1 \in Room /\ e.count \in Seq(Nat)
  BY DEF Room, Encoders
<1>3. PICK c1 \in Seq(Nat) :
        /\ add_signal_phase(e, t, FALSE) = WithCount(e, c1)
        /\ Holds(c1, n + 1)
        /\ \A i \in 1..n : c1[i] = e.count[i]
        /\ Length(c1, n + 1) = t + Shift(n)
  BY <1>1, <1>2, Compensated, PhaseAppended
<1> DEFINE e1 == WithCount(e, c1)
<1>4. e1.count = c1 /\ e1 \in Encoders(Seq(Nat))
  BY DEF Encoders, WithCount
<1>5. PICK new \in Seq(Nat) :
        /\ add_signal_phase(e1, t, FALSE) = WithCount(e1, new)
        /\ Holds(new, n + 1 + 1)
        /\ \A i \in 1..n + 1 : new[i] = c1[i]
        /\ Length(new, n + 1 + 1) = t + Shift(n + 1)
  <2> HIDE DEF e1
  <2> QED BY <1>1, <1>2, <1>3, <1>4, Compensated, PhaseAppended
<1>6. add_bit(e, Value(s, b)) = [e EXCEPT !.count = new, !.state_now = Value(s, b)]
  <2>1. add_bit(e, Value(s, b))
          = [add_signal_phase(e1, t, FALSE) EXCEPT !.state_now = Value(s, b)]
    BY <1>3 DEF add_bit, t
  <2>2. add_bit(e, Value(s, b)) = [WithCount(e1, new) EXCEPT !.state_now = Value(s, b)]
    BY <2>1, <1>5
  <2> QED BY <2>2 DEF Encoders, WithCount
<1>7. AtBoundary(s, e.count, bit, half, b)
  BY DEF AtBoundary, Preceded
<1>8. /\ Sized(e.count, n) /\ Sized(c1, n + 1) /\ Sized(new, n + 1 + 1)
      /\ Length(c1, n + 1) = HalfBit(n + 1) /\ Length(new, n + 1 + 1) = HalfBit(n + 1 + 1)
  BY <1>1, <1>3, <1>5 DEF Holds, Sized
<1>9. PICK bit2, half2 : OnGrid(s, new, bit2, half2) /\ Reaches(s, new, bit2, half2, b)
  <2>1. Prefix(e.count, c1, n)
    BY <1>3 DEF Prefix
  <2>2. Prefix(c1, new, n + 1)
    BY <1>5 DEF Prefix
  <2>3. c1 \in Seq(Nat) /\ new \in Seq(Nat)
    BY <1>3, <1>5
  <2> QED BY <1>2, <1>7, <1>8, <2>1, <2>2, <2>3, SameBitOnGrid
<1>10. Fit(new) /\ Len(new) <= n + 2
  BY <1>5 DEF Holds
<1> QED BY <1>5, <1>6, <1>9, <1>10

\* add_bit for a bit that differs: the last half bit becomes a full one.
LEMMA OtherBitAdded ==
  ASSUME NEW s, FrameSource(s), NEW b \in Nat, b <= Len(s.bits),
         NEW e \in Encoders(Seq(Nat)), NEW n \in Nat, n <= 65, Holds(e.count, n),
         NEW bit, NEW half, OnGrid(s, e.count, bit, half),
         Preceded(s, e, bit, half, b), e.state_now # Value(s, b)
  PROVE  \E new, bit2, half2 :
           /\ new \in Seq(Nat)
           /\ add_bit(e, Value(s, b)) = [e EXCEPT !.count = new, !.state_now = Value(s, b)]
           /\ Fit(new) /\ Len(new) <= n + 2
           /\ OnGrid(s, new, bit2, half2) /\ Reaches(s, new, bit2, half2, b)
<1> DEFINE t == dali_timing.half_bit_us
           u == dali_timing.full_bit_us
<1>1. t \in Durations /\ u \in Durations
      /\ t + Shift(n) = HalfBit(n + 1) /\ u + Shift(n) = FullBit(n)
  BY Asked
<1> HIDE DEF t, u
<1>2. b # 0
  <2>1. Value(s, 0) = TRUE
    BY DEF Value
  <2> QED BY <2>1 DEF Preceded
<1>3. Reaches(s, e.count, bit, half, b - 1) /\ Value(s, b) # Value(s, b - 1)
  BY <1>2 DEF Preceded
<1>4. n > 0 /\ b \in 1..Len(s.bits)
  BY <1>2, <1>3 DEF Reaches, FrameSource, Holds
<1>5. n \in Room /\ n - 1 \in Room /\ e.count \in Seq(Nat) /\ n - 1 + 1 = n
  BY <1>4 DEF Room, Encoders
<1>6. PICK c1 \in Seq(Nat) :
        /\ add_signal_phase(e, u, TRUE) = WithCount(e, c1)
        /\ Holds(c1, n)
        /\ \A i \in 1..n - 1 : c1[i] = e.count[i]
        /\ Length(c1, n) = u + Shift(n)
  BY <1>1, <1>4, <1>5, Compensated, PhaseReplaced
<1> DEFINE e1 == WithCount(e, c1)
<1>7. e1.count = c1 /\ e1 \in Encoders(Seq(Nat))
  BY DEF Encoders, WithCount
<1>8. PICK new \in Seq(Nat) :
        /\ add_signal_phase(e1, t, FALSE) = WithCount(e1, new)
        /\ Holds(new, n + 1)
        /\ \A i \in 1..n : new[i] = c1[i]
        /\ Length(new, n + 1) = t + Shift(n)
  <2> HIDE DEF e1
  <2> QED BY <1>1, <1>5, <1>6, <1>7, Compensated, PhaseAppended
<1>9. add_bit(e, Value(s, b)) = [e EXCEPT !.count = new, !.state_now = Value(s, b)]
  <2>1. add_bit(e, Value(s, b))
          = [add_signal_phase(e1, t, FALSE) EXCEPT !.state_now = Value(s, b)]
    BY <1>6 DEF add_bit, t, u
  <2>2. add_bit(e, Value(s, b)) = [WithCount(e1, new) EXCEPT !.state_now = Value(s, b)]
    BY <2>1, <1>8
  <2> QED BY <2>2 DEF Encoders, WithCount
<1>10. PICK bit2, half2 : OnGrid(s, new, bit2, half2) /\ Reaches(s, new, bit2, half2, b)
  <2>1. \A i \in 1..n - 1 : new[i] = e.count[i]
    <3>1. ASSUME NEW i \in 1..n - 1 PROVE i \in 1..n
      OBVIOUS
    <3> QED BY <1>6, <1>8, <3>1
  <2>2. Length(new, n) = FullBit(n)
    <3>1. n \in 1..n
      BY <1>4
    <3>2. \A i \in 1..n : new[i] = c1[i]
      BY <1>8
    <3>3. Length(new, n) = Length(c1, n)
      BY <3>1, <3>2, LengthKept
    <3> QED BY <1>1, <1>6, <3>3
  <2>3. Length(new, n + 1) = HalfBit(n + 1) /\ Len(e.count) = n /\ Len(new) = n + 1
    BY <1>1, <1>8 DEF Holds
  <2> QED BY <1>3, <1>4, <1>5, <1>8, <2>1, <2>2, <2>3, DifferentBitAdded
<1>11. Fit(new) /\ Len(new) <= n + 2
  BY <1>8 DEF Holds
<1> QED BY <1>8, <1>9, <1>10, <1>11

\* add_bit, for any bit.
LEMMA BitAdded ==
  ASSUME NEW s, FrameSource(s), NEW b \in Nat, b <= Len(s.bits),
         NEW e \in Encoders(Seq(Nat)), NEW n \in Nat, n <= 65, Holds(e.count, n),
         NEW bit, NEW half, OnGrid(s, e.count, bit, half), Preceded(s, e, bit, half, b)
  PROVE  \E new, bit2, half2 :
           /\ new \in Seq(Nat)
           /\ add_bit(e, Value(s, b)) = [e EXCEPT !.count = new, !.state_now = Value(s, b)]
           /\ Fit(new) /\ Len(new) <= n + 2
           /\ OnGrid(s, new, bit2, half2) /\ Reaches(s, new, bit2, half2, b)
<1>1. CASE e.state_now = Value(s, b)
  BY <1>1, SameBitAdded
<1>2. CASE e.state_now # Value(s, b)
  BY <1>2, OtherBitAdded
<1> QED BY <1>1, <1>2

\* The encoder after bit b, and after the stop condition.
Coded(s, e, b) ==
  /\ e \in Encoders(Seq(Nat)) /\ ~e.full /\ e.state_now = Value(s, b)
  /\ Fit(e.count) /\ Len(e.count) <= 2 * (b + 1)
  /\ \E bit, half : /\ OnGrid(s, e.count, bit, half)
                    /\ Reaches(s, e.count, bit, half, b)

Complete(s, e) ==
  /\ e \in Encoders(Seq(Nat)) /\ ~e.full /\ Fit(e.count)
  /\ \E bit, half : OnGrid(s, e.count, bit, half) /\ Ended(s, e.count, bit, half)

\* What add_bit leaves behind is the encoder after the bit.
LEMMA CodedAfter ==
  ASSUME NEW s, FrameSource(s), NEW b \in Nat, b <= Len(s.bits),
         NEW e \in Encoders(Seq(Nat)), ~e.full, NEW n \in Nat, n <= 65, n <= 2 * b,
         Holds(e.count, n),
         NEW bit, NEW half, OnGrid(s, e.count, bit, half), Preceded(s, e, bit, half, b)
  PROVE  Coded(s, add_bit(e, Value(s, b)), b)
<1> DEFINE e2 == add_bit(e, Value(s, b))
<1>1. PICK new, bit2, half2 :
        /\ new \in Seq(Nat)
        /\ e2 = [e EXCEPT !.count = new, !.state_now = Value(s, b)]
        /\ Fit(new) /\ Len(new) <= n + 2
        /\ OnGrid(s, new, bit2, half2) /\ Reaches(s, new, bit2, half2, b)
  BY BitAdded
<1>2. Value(s, b) \in BOOLEAN
  BY ValueTyped
<1>3. /\ e2 \in Encoders(Seq(Nat)) /\ ~e2.full
      /\ e2.state_now = Value(s, b) /\ e2.count = new
  BY <1>1, <1>2 DEF Encoders
<1>4. Len(new) <= 2 * (b + 1)
  <2>1. Len(new) \in Nat
    BY <1>1
  <2> QED BY <1>1, <2>1
<1> HIDE DEF e2
<1>5. Coded(s, e2, b)
  BY <1>1, <1>3, <1>4 DEF Coded
<1> QED BY <1>5 DEF e2

\* The start bit is the first one.
LEMMA StartCoded ==
  ASSUME NEW s, FrameSource(s)
  PROVE  Coded(s, add_bit(Reset, TRUE), 0)
<1>1. /\ Reset.count = <<>> /\ Reset.state_now = TRUE /\ Reset.full = FALSE
      /\ Reset \in Encoders(Seq(Nat))
  BY DEF Reset, Encoders
<1>2. Holds(Reset.count, 0)
  BY <1>1, ArraySize DEF Holds, Fit
<1>3. PICK bit \in [Nat -> Nat], half \in [Nat -> {0, 1}] : TRUE
  <2>1. /\ [i \in Nat |-> 0] \in [Nat -> Nat]
        /\ [i \in Nat |-> 0] \in [Nat -> {0, 1}]
    OBVIOUS
  <2> QED BY <2>1
<1>4. OnGrid(s, Reset.count, bit, half)
  BY <1>1 DEF OnGrid, Grids
<1>5. Preceded(s, Reset, bit, half, 0)
  BY <1>1 DEF Preceded
<1>6. 0 \in Nat /\ 0 <= Len(s.bits) /\ 0 <= 65 /\ 0 <= 2 * 0
  BY DEF FrameSource
<1>7. Coded(s, add_bit(Reset, Value(s, 0)), 0)
  BY <1>1, <1>2, <1>4, <1>5, <1>6, CodedAfter
<1>8. Value(s, 0) = TRUE
  BY DEF Value
<1> QED BY <1>7, <1>8

\* A data bit follows the bit before.
LEMMA NextCoded ==
  ASSUME NEW s, FrameSource(s), NEW b \in 1..Len(s.bits), NEW e, Coded(s, e, b - 1)
  PROVE  Coded(s, add_bit(e, s.bits[b]), b)
<1>1. PICK bit, half : /\ OnGrid(s, e.count, bit, half)
                       /\ Reaches(s, e.count, bit, half, b - 1)
  BY DEF Coded
<1>2. PICK n \in Nat : n = Len(e.count)
  BY DEF Coded, Encoders
<1>3. /\ b \in Nat /\ b # 0 /\ b <= Len(s.bits) /\ b <= 32 /\ b - 1 + 1 = b
  <2>1. Len(s.bits) \in Nat /\ Len(s.bits) <= 32
    BY BitCount
  <2> QED BY <2>1
<1>4. n <= 2 * b /\ n <= 65
  <2>1. n <= 2 * (b - 1 + 1)
    BY <1>2 DEF Coded
  <2> QED BY <1>2, <1>3, <2>1
<1>5. e \in Encoders(Seq(Nat)) /\ ~e.full /\ Holds(e.count, n)
  BY <1>2 DEF Coded, Holds
<1>6. Preceded(s, e, bit, half, b)
  BY <1>1, <1>3 DEF Coded, Preceded
<1>7. Coded(s, add_bit(e, Value(s, b)), b)
  BY <1>1, <1>3, <1>4, <1>5, <1>6, CodedAfter
<1>8. Value(s, b) = s.bits[b]
  BY <1>3 DEF Value
<1> QED BY <1>7, <1>8

\* The length of the last phase does not matter to the grid.
LEMMA LastReplaced ==
  ASSUME NEW s, NEW c, NEW new, NEW n \in Nat, n > 0, Sized(c, n), Sized(new, n),
         Prefix(c, new, n - 1), NEW bit, NEW half, OnGrid(s, c, bit, half)
  PROVE  OnGrid(s, new, bit, half)
<1>1. /\ Len(c) = n /\ Len(new) = n
      /\ \A i \in 1..n - 1 : new[i] = c[i]
  BY DEF Sized, Prefix
<1>2. ASSUME NEW i \in 1..n - 1 PROVE Follows(s, new, bit, half, i)
  <2>1. Follows(s, c, bit, half, i)
    BY <1>1 DEF OnGrid
  <2>2. n - 1 \in Nat
    OBVIOUS
  <2>3. Length(new, i) = Length(c, i)
    BY <1>1, <2>2, LengthKept
  <2> QED BY <2>1, <2>3 DEF Follows
<1>3. /\ Grids(bit, half) /\ bit[1] = 0 /\ half[1] = 0
      /\ \A i \in 1..n : Placed(s, bit, half, i)
  BY <1>1 DEF OnGrid
<1> QED BY <1>1, <1>2, <1>3 DEF OnGrid

\* The stop condition completes a frame.
LEMMA StopCoded ==
  ASSUME NEW s, FrameSource(s), NEW e, Coded(s, e, Len(s.bits))
  PROVE  Complete(s, add_stop_condition(e))
<1> DEFINE k == Len(s.bits)
           d == dali_timing.stop_condition_us
           r == add_stop_condition(e)
<1>1. PICK bit, half : /\ OnGrid(s, e.count, bit, half)
                       /\ Reaches(s, e.count, bit, half, k)
  BY DEF Coded
<1>2. /\ e \in Encoders(Seq(Nat)) /\ ~e.full /\ e.state_now = Value(s, k)
      /\ Fit(e.count) /\ e.count \in Seq(Nat)
  BY DEF Coded, Encoders
<1>3. k \in Nat /\ k <= 32 /\ k + 1 \in Nat /\ k + 1 # 0 /\ k + 1 - 1 = k
  <2>1. k \in Nat /\ k <= 32
    BY BitCount
  <2> HIDE DEF k
  <2> QED BY <2>1
<1>4. PICK n \in Nat : n = Len(e.count)
  BY <1>2
<1>5. n > 0 /\ n <= 66 /\ n \in Room
  <2>1. n <= 2 * (k + 1)
    BY <1>4 DEF Coded
  <2>2. n > 0
    BY <1>1, <1>4 DEF Reaches
  <2> HIDE DEF k
  <2> QED BY <1>3, <2>1, <2>2 DEF Room
<1>6. Holds(e.count, n) /\ Sized(e.count, n) /\ d \in Durations
  BY <1>2, <1>4, Asked DEF Holds, Sized
<1>7. half[n] = 1 /\ bit[n] = k /\ Value(s, k) = (n % 2 # 1)
  <2>1. half[n] = 1 /\ bit[n] = k
    BY <1>1, <1>4 DEF Reaches
  <2>2. Placed(s, bit, half, n)
    BY <1>1, <1>4, <1>5 DEF OnGrid
  <2> QED BY <2>1, <2>2 DEF Placed
<1> HIDE DEF d
<1>8. CASE e.state_now = TRUE
  <2>1. r = add_signal_phase(e, d, TRUE)
    BY <1>8 DEF add_stop_condition, d
  <2>2. PICK new \in Seq(Nat) :
          /\ add_signal_phase(e, d, TRUE) = WithCount(e, new)
          /\ Holds(new, n)
          /\ \A i \in 1..n - 1 : new[i] = e.count[i]
          /\ Length(new, n) = d + Shift(n)
    BY <1>5, <1>6, Compensated, PhaseReplaced
  <2>3. OnGrid(s, new, bit, half)
    <3>1. Sized(new, n) /\ Prefix(e.count, new, n - 1)
      BY <2>2 DEF Holds, Sized, Prefix
    <3> QED BY <1>1, <1>5, <1>6, <3>1, LastReplaced
  <2>4. Fit(new) /\ Len(new) = n
    BY <2>2 DEF Holds
  <2>5. n % 2 = 0
    BY <1>2, <1>7, <1>8, Parity
  <2>6. Ended(s, new, bit, half)
    BY <1>3, <1>5, <1>7, <2>4, <2>5 DEF Ended
  <2>7. r \in Encoders(Seq(Nat)) /\ ~r.full /\ r.count = new
    BY <1>2, <2>1, <2>2 DEF Encoders, WithCount
  <2> HIDE DEF r
  <2>8. Complete(s, r)
    BY <2>3, <2>4, <2>6, <2>7 DEF Complete
  <2> QED BY <2>8 DEF r
<1>9. CASE e.state_now = FALSE
  <2>1. r = add_signal_phase(e, d, FALSE)
    BY <1>9 DEF add_stop_condition, d
  <2>2. PICK new \in Seq(Nat) :
          /\ add_signal_phase(e, d, FALSE) = WithCount(e, new)
          /\ Holds(new, n + 1)
          /\ \A i \in 1..n : new[i] = e.count[i]
          /\ Length(new, n + 1) = d + Shift(n)
    BY <1>5, <1>6, Compensated, PhaseAppended
  <2>3. PICK bit2, half2 : /\ OnGrid(s, new, bit2, half2)
                           /\ bit2[n + 1] = k + 1 /\ half2[n + 1] = 0
    <3>1. Sized(new, n + 1) /\ Prefix(e.count, new, n) /\ new \in Seq(Nat)
      BY <2>2 DEF Holds, Sized, Prefix
    <3>2. AtBoundary(s, e.count, bit, half, k + 1)
      <4>1. Value(s, k + 1) = FALSE
        BY <1>3 DEF Value
      <4>2. Value(s, k + 1) = Value(s, k)
        BY <1>2, <1>9, <4>1
      <4> HIDE DEF k
      <4> QED BY <1>1, <1>3, <4>2 DEF AtBoundary
    <3>3. k + 1 <= Len(s.bits) + 1
      BY <1>3
    <3>4. k + 1 \in Nat /\ OnGrid(s, e.count, bit, half) /\ e.count \in Seq(Nat)
          /\ Sized(e.count, n)
      BY <1>1, <1>2, <1>3, <1>6
    <3> HIDE DEF k
    <3> QED BY <3>1, <3>2, <3>3, <3>4, BitBegun
  <2>4. Fit(new) /\ Len(new) = n + 1
    BY <2>2 DEF Holds
  <2>5. (n + 1) % 2 = 0
    <3>1. n % 2 = 1
      BY <1>2, <1>7, <1>9
    <3> QED BY <3>1, Parity
  <2>6. Ended(s, new, bit2, half2)
    BY <1>3, <1>5, <2>3, <2>4, <2>5 DEF Ended
  <2>7. r \in Encoders(Seq(Nat)) /\ ~r.full /\ r.count = new
    BY <1>2, <2>1, <2>2 DEF Encoders, WithCount
  <2> HIDE DEF r
  <2>8. Complete(s, r)
    BY <2>3, <2>4, <2>6, <2>7 DEF Complete
  <2> QED BY <2>8 DEF r
<1>10. e.state_now \in BOOLEAN
  BY <1>2 DEF Encoders
<1> QED BY <1>8, <1>9, <1>10

-----------------------------------------------------------------------------
(* What the encoder has made of a source s by the item i.                    *)

Typed(e) == e \in Encoders(Seq(Nat)) /\ ~e.full

FrameEncoded(s, e, i) ==
  \/ i = 0 /\ e = Reset
  \/ i \in 1..Len(s.bits) + 1 /\ Coded(s, e, i - 1)
  \/ i = Len(s.bits) + 2 /\ Complete(s, e)

CorruptLength(i) == (IF i = 5 THEN 1500 ELSE 417) + Shift(i - 1)

CorruptEncoded(e, i) ==
  \/ i = 0 /\ e = Reset
  \/ /\ i \in 1..17 /\ Typed(e) /\ e.state_now = TRUE /\ Holds(e.count, i + 1)
     /\ \A j \in 1..i + 1 : Length(e.count, j) = CorruptLength(j)
  \/ /\ i = 18 /\ Typed(e) /\ Holds(e.count, 18)
     /\ \A j \in 1..17 : Length(e.count, j) = CorruptLength(j)

SequenceEncoded(s, e, i) ==
  /\ i \in 1..Len(s.periods) + 1 /\ Typed(e) /\ Holds(e.count, i - 1)
  /\ \A j \in 1..i - 1 : Length(e.count, j) = s.periods[j] + Shift(j - 1)

EncodedFor(s, e, i) ==
  /\ s.kind = "frame" => FrameEncoded(s, e, i)
  /\ s.kind = "corrupt" => CorruptEncoded(e, i)
  /\ ~IsFrame(s) => SequenceEncoded(s, e, i)

\* The inductive invariant of the encoder.
Encoded == source \in Sources /\ EncodedFor(source, tx, item)

\* What is known of each source.
LEMMA SourceTyped ==
  ASSUME NEW s \in Sources
  PROVE  /\ FrameSource(s)
         /\ s.periods \in Seq(Nat) /\ Len(s.periods) \in Nat /\ Len(s.periods) <= 67
         /\ \A i \in 1..Len(s.periods) : s.periods[i] \in Periods(i)
         /\ ~IsFrame(s) => Len(s.periods) > 0
         /\ s.kind = "corrupt" => s.bits = <<TRUE>>
         /\ IsFrame(s) <=> s.kind = "frame" \/ s.kind = "corrupt"
<1>1. IsSource(s)
  BY BitsAssumption
<1>2. Len(s.bits) \in Nat /\ Len(s.bits) <= 32 /\ s.bits \in Seq(BOOLEAN)
  BY <1>1 DEF IsSource, DALI_MAX_DATA_LENGTH
<1>3. FrameSource(s)
  <2>1. \A k \in Nat : k <= 32 => k \in 0..32
    OBVIOUS
  <2>2. Len(s.bits) \in 0..32
    BY <1>2, <2>1
  <2> QED BY <1>2, <2>2 DEF FrameSource
<1>4. /\ s.periods \in Seq(Nat) /\ Len(s.periods) <= 67
      /\ \A i \in 1..Len(s.periods) : s.periods[i] \in Periods(i)
  BY <1>1, ArraySize DEF IsSource
<1>5. Len(s.periods) \in Nat
  BY <1>4
<1>6. IsFrame(s) <=> s.kind = "frame" \/ s.kind = "corrupt"
  BY DEF IsFrame
<1>7. (~IsFrame(s) => Len(s.periods) > 0) /\ (s.kind = "corrupt" => s.bits = <<TRUE>>)
  BY <1>1 DEF IsSource
<1> QED BY <1>3, <1>4, <1>5, <1>6, <1>7

\* The encoder before the first item.
LEMMA ResetTyped ==
  /\ Typed(Reset) /\ Reset.count = <<>> /\ Reset.state_now = TRUE
  /\ Holds(Reset.count, 0)
<1>1. /\ Reset.count = <<>> /\ Reset.state_now = TRUE /\ Reset.full = FALSE
      /\ Reset \in Encoders(Seq(Nat))
  BY DEF Reset, Encoders
<1> QED BY <1>1, ArraySize DEF Holds, Fit, Typed

\* Nothing is encoded at first.
LEMMA EncodedFirst ==
  ASSUME NEW s \in Sources, NEW i, i = IF IsFrame(s) THEN 0 ELSE 1
  PROVE  EncodedFor(s, Reset, i)
<1>1. CASE IsFrame(s)
  BY <1>1, SourceTyped DEF EncodedFor, FrameEncoded, CorruptEncoded
<1>2. CASE ~IsFrame(s)
  <2>1. i \in 1..Len(s.periods) + 1 /\ i - 1 = 0 /\ \A j \in 1..i - 1 : FALSE
    BY <1>2, SourceTyped
  <2>2. SequenceEncoded(s, Reset, i)
    BY <2>1, ResetTyped DEF SequenceEncoded
  <2>3. s.kind # "frame" /\ s.kind # "corrupt"
    BY <1>2 DEF IsFrame
  <2> QED BY <2>2, <2>3 DEF EncodedFor
<1> QED BY <1>1, <1>2

\* One more phase appended: the lengths of all of them.
LEMMA PhaseTimed ==
  ASSUME NEW e, Typed(e), NEW n \in Room, Holds(e.count, n),
         NEW d \in Nat, d + Shift(n) \in 1..Longest
  PROVE  LET e2 == add_signal_phase(e, d, FALSE)
         IN /\ Typed(e2) /\ e2.state_now = e.state_now /\ Holds(e2.count, n + 1)
            /\ \A i \in 1..n : Length(e2.count, i) = Length(e.count, i)
            /\ Length(e2.count, n + 1) = d + Shift(n)
<1>1. PICK new \in Seq(Nat) :
        /\ add_signal_phase(e, d, FALSE) = WithCount(e, new)
        /\ Holds(new, n + 1)
        /\ \A i \in 1..n : new[i] = e.count[i]
        /\ Length(new, n + 1) = d + Shift(n)
  BY PhaseAppended
<1> DEFINE e2 == WithCount(e, new)
<1>2. Typed(e2) /\ e2.state_now = e.state_now /\ e2.count = new
  BY DEF Typed, WithCount, Encoders
<1>3. ASSUME NEW i \in 1..n PROVE Length(new, i) = Length(e.count, i)
  <2>1. n \in Nat
    BY DEF Room
  <2> QED BY <1>1, <2>1, LengthKept
<1> HIDE DEF e2
<1> QED BY <1>1, <1>2, <1>3 DEF e2

\* The two halves of the start bit.
LEMMA StartTimed ==
  LET e == add_bit(Reset, TRUE)
  IN /\ Typed(e) /\ e.state_now = TRUE /\ Holds(e.count, 2)
     /\ \A j \in 1..2 : Length(e.count, j) = CorruptLength(j)
<1> DEFINE d  == dali_timing.half_bit_us
           e1 == add_signal_phase(Reset, d, FALSE)
           e2 == add_signal_phase(e1, d, FALSE)
           e  == add_bit(Reset, TRUE)
<1>1. d \in Durations
  BY Asked
<1>9. d = 417
  BY DEF dali_timing
<1> HIDE DEF d
<1>2. PICK m \in Room, n \in Room : m = 0 /\ n = 1 /\ m + 1 = n /\ n + 1 = 2
  BY DEF Room
<1>0. m \in Room /\ n \in Room
  BY <1>2
<1>3. /\ Typed(e1) /\ e1.state_now = TRUE /\ Holds(e1.count, n)
      /\ Length(e1.count, n) = d + Shift(m)
  <2>1. Holds(Reset.count, m) /\ Typed(Reset)
    BY <1>2, ResetTyped
  <2>3. Reset.state_now = TRUE
    BY ResetTyped
  <2>2. /\ Typed(e1) /\ e1.state_now = TRUE /\ Holds(e1.count, m + 1)
        /\ Length(e1.count, m + 1) = d + Shift(m)
    BY <1>0, <1>1, <2>1, <2>3, Compensated, PhaseTimed
  <2> HIDE DEF e1
  <2> QED BY <1>2, <2>2
<1> HIDE DEF e1
<1>4. /\ Typed(e2) /\ e2.state_now = TRUE /\ Holds(e2.count, n + 1)
      /\ \A i \in 1..n : Length(e2.count, i) = Length(e1.count, i)
      /\ Length(e2.count, n + 1) = d + Shift(n)
  BY <1>0, <1>1, <1>3, Compensated, PhaseTimed
<1> HIDE DEF e2
<1>5. e = [e2 EXCEPT !.state_now = TRUE]
  BY ResetTyped DEF add_bit, d, e1, e2
<1>6. Typed(e) /\ e.state_now = TRUE /\ e.count = e2.count
  BY <1>4, <1>5 DEF Typed, Encoders
<1> HIDE DEF e
<1>7. \A j \in 1..2 : Length(e.count, j) = CorruptLength(j)
  <2>1. Length(e.count, 1) = d + Shift(0) /\ Length(e.count, 2) = d + Shift(1)
    BY <1>2, <1>3, <1>4, <1>6
  <2>2. CorruptLength(1) = 417 + Shift(0) /\ CorruptLength(2) = 417 + Shift(1)
    BY DEF CorruptLength
  <2>3. \A j \in 1..2 : j = 1 \/ j = 2
    OBVIOUS
  <2> QED BY <1>9, <2>1, <2>2, <2>3
<1>8. Holds(e.count, 2)
  BY <1>2, <1>4, <1>6
<1> QED BY <1>6, <1>7, <1>8 DEF e

\* Each step of the encoder.
LEMMA EncodedStart ==
  ASSUME NEW s \in Sources, IsFrame(s), NEW e, EncodedFor(s, e, 0)
  PROVE  EncodedFor(s, add_bit(e, TRUE), 1)
<1> DEFINE r == add_bit(e, TRUE)
<1>1. CASE s.kind = "frame"
  <2>1. e = Reset
    <3>1. FrameEncoded(s, e, 0) /\ Len(s.bits) \in Nat
      BY <1>1, SourceTyped, BitCount DEF EncodedFor
    <3> QED BY <3>1 DEF FrameEncoded
  <2>2. Coded(s, r, 1 - 1)
    <3>1. Coded(s, r, 0)
      BY <2>1, SourceTyped, StartCoded
    <3>2. 1 - 1 = 0
      OBVIOUS
    <3> QED BY <3>1, <3>2
  <2> HIDE DEF r
  <2>3. 1 \in 1..Len(s.bits) + 1
    <3>1. Len(s.bits) \in Nat
      BY SourceTyped, BitCount
    <3> QED BY <3>1
  <2>4. FrameEncoded(s, r, 1)
    BY <2>2, <2>3 DEF FrameEncoded
  <2>5. EncodedFor(s, r, 1)
    BY <1>1, <2>4 DEF EncodedFor, IsFrame
  <2> QED BY <2>5 DEF r
<1>2. CASE s.kind = "corrupt"
  <2>1. e = Reset
    BY <1>2 DEF EncodedFor, CorruptEncoded
  <2>2. /\ Typed(r) /\ r.state_now = TRUE /\ Holds(r.count, 1 + 1)
        /\ \A j \in 1..1 + 1 : Length(r.count, j) = CorruptLength(j)
    <3>1. 1 + 1 = 2
      OBVIOUS
    <3> QED BY <2>1, <3>1, StartTimed
  <2> HIDE DEF r
  <2>3. CorruptEncoded(r, 1)
    BY <2>2 DEF CorruptEncoded
  <2>4. EncodedFor(s, r, 1)
    BY <1>2, <2>3 DEF EncodedFor, IsFrame
  <2> QED BY <2>4 DEF r
<1> QED BY <1>1, <1>2, SourceTyped

\* A data bit
LEMMA EncodedBit ==
  ASSUME NEW s \in Sources, s.kind = "frame", NEW i \in 1..Len(s.bits),
         NEW e, EncodedFor(s, e, i)
  PROVE  EncodedFor(s, add_bit(e, s.bits[i]), i + 1)
<1> DEFINE r == add_bit(e, s.bits[i])
<1>1. FrameSource(s) /\ Len(s.bits) \in Nat
  BY SourceTyped, BitCount
<1>2. Coded(s, e, i - 1)
  <2>1. FrameEncoded(s, e, i)
    BY DEF EncodedFor
  <2> QED BY <1>1, <2>1 DEF FrameEncoded
<1>3. Coded(s, r, i)
  BY <1>1, <1>2, NextCoded
<1> HIDE DEF r
<1>4. i + 1 \in 1..Len(s.bits) + 1 /\ i + 1 - 1 = i
  BY <1>1
<1>5. FrameEncoded(s, r, i + 1)
  BY <1>3, <1>4 DEF FrameEncoded
<1>6. EncodedFor(s, r, i + 1)
  BY <1>5 DEF EncodedFor, IsFrame
<1> QED BY <1>6 DEF r

\* A phase of a corrupt frame
LEMMA EncodedCorrupt ==
  ASSUME NEW s \in Sources, s.kind = "corrupt", NEW i \in 1..16,
         NEW e, EncodedFor(s, e, i)
  PROVE  EncodedFor(s, add_signal_phase(e, CorruptPhases[i], FALSE), i + 1)
<1> DEFINE d == CorruptPhases[i]
           r == add_signal_phase(e, d, FALSE)
<1>1. /\ Typed(e) /\ e.state_now = TRUE /\ Holds(e.count, i + 1)
      /\ \A j \in 1..i + 1 : Length(e.count, j) = CorruptLength(j)
  BY DEF EncodedFor, CorruptEncoded
<1>2. d \in Durations /\ d + Shift(i + 1) = CorruptLength(i + 1 + 1) /\ i + 1 \in Room
  <2>1. d = IF i = 3 THEN 1500 ELSE 417
    BY DEF CorruptPhases, dali_timing
  <2>2. d \in Durations /\ i + 1 \in Room
    BY <2>1 DEF Durations, Room
  <2>3. i + 1 + 1 - 1 = i + 1 /\ (i + 1 + 1 = 5 <=> i = 3)
    OBVIOUS
  <2> HIDE DEF d
  <2> QED BY <2>1, <2>2, <2>3 DEF CorruptLength
<1> HIDE DEF d
<1>3. /\ Typed(r) /\ r.state_now = TRUE /\ Holds(r.count, i + 1 + 1)
      /\ \A j \in 1..i + 1 : Length(r.count, j) = Length(e.count, j)
      /\ Length(r.count, i + 1 + 1) = d + Shift(i + 1)
  BY <1>1, <1>2, Compensated, PhaseTimed
<1> HIDE DEF r
<1>4. \A j \in 1..i + 1 + 1 : Length(r.count, j) = CorruptLength(j)
  <2>1. \A j \in 1..i + 1 + 1 : j \in 1..i + 1 \/ j = i + 1 + 1
    OBVIOUS
  <2> QED BY <1>1, <1>2, <1>3, <2>1
<1>5. i + 1 \in 1..17
  OBVIOUS
<1>6. CorruptEncoded(r, i + 1)
  BY <1>3, <1>4, <1>5 DEF CorruptEncoded
<1>7. EncodedFor(s, r, i + 1)
  BY <1>6 DEF EncodedFor, IsFrame
<1> QED BY <1>7 DEF r, d

\* The stop condition, which replaces the idle half bit before it or follows it
LEMMA EncodedStop ==
  ASSUME NEW s \in Sources, IsFrame(s), NEW i,
         i = (IF s.kind = "frame" THEN Len(s.bits) ELSE 16) + 1,
         NEW e, EncodedFor(s, e, i)
  PROVE  EncodedFor(s, add_stop_condition(e), i + 1)
<1> DEFINE r == add_stop_condition(e)
<1>1. FrameSource(s) /\ Len(s.bits) \in Nat
  BY SourceTyped, BitCount
<1>2. CASE s.kind = "frame"
  <2>1. i = Len(s.bits) + 1 /\ i - 1 = Len(s.bits) /\ i # 0 /\ i # Len(s.bits) + 2
    BY <1>1, <1>2
  <2>2. Coded(s, e, Len(s.bits))
    <3>1. FrameEncoded(s, e, i)
      BY <1>2 DEF EncodedFor
    <3> QED BY <2>1, <3>1 DEF FrameEncoded
  <2>3. Complete(s, r)
    BY <1>1, <2>2, StopCoded
  <2> HIDE DEF r
  <2>4. i + 1 = Len(s.bits) + 2
    BY <1>1, <2>1
  <2>5. EncodedFor(s, r, i + 1)
    BY <1>2, <2>3, <2>4 DEF EncodedFor, FrameEncoded, IsFrame
  <2> QED BY <2>5 DEF r
<1>3. CASE s.kind = "corrupt"
  <2>1. i = 17 /\ i + 1 = 18
    BY <1>3
  <2>2. /\ Typed(e) /\ e.state_now = TRUE /\ Holds(e.count, 18)
        /\ \A j \in 1..18 : Length(e.count, j) = CorruptLength(j)
    BY <1>3, <2>1 DEF EncodedFor, CorruptEncoded
  <2>3. 18 \in Room /\ 18 > 0 /\ 18 - 1 = 17
    BY DEF Room
  <2> DEFINE d == dali_timing.stop_condition_us
  <2>4. r = add_signal_phase(e, d, TRUE) /\ d \in Durations
    BY <2>2, Asked DEF add_stop_condition
  <2> HIDE DEF d
  <2>5. PICK new \in Seq(Nat) :
          /\ add_signal_phase(e, d, TRUE) = WithCount(e, new)
          /\ Holds(new, 18)
          /\ \A j \in 1..17 : new[j] = e.count[j]
    <3>1. PICK n \in Room : n = 18 /\ n > 0 /\ n - 1 = 17
      BY <2>3
    <3>2. n \in Room /\ n > 0 /\ Holds(e.count, n)
      BY <2>2, <3>1
    <3>3. PICK new \in Seq(Nat) :
          /\ add_signal_phase(e, d, TRUE) = WithCount(e, new)
          /\ Holds(new, n)
          /\ \A j \in 1..n - 1 : new[j] = e.count[j]
          /\ Length(new, n) = d + Shift(n)
      BY <2>4, <3>2, Compensated, PhaseReplaced
    <3> QED BY <3>1, <3>3
  <2>6. Typed(r) /\ r.count = new
    BY <2>2, <2>4, <2>5 DEF Typed, Encoders, WithCount
  <2>7. \A j \in 1..17 : Length(new, j) = CorruptLength(j)
    <3>1. ASSUME NEW j \in 1..17 PROVE Length(new, j) = Length(e.count, j)
      <4>1. 17 \in Nat /\ \A l \in 1..17 : new[l] = e.count[l]
        BY <2>5
      <4> QED BY <4>1, LengthKept
    <3>2. \A j \in 1..17 : j \in 1..18
      OBVIOUS
    <3> QED BY <2>2, <3>1, <3>2
  <2> HIDE DEF r
  <2>8. CorruptEncoded(r, i + 1)
    BY <2>1, <2>5, <2>6, <2>7 DEF CorruptEncoded
  <2>9. EncodedFor(s, r, i + 1)
    BY <1>3, <2>8 DEF EncodedFor, IsFrame
  <2> QED BY <2>9 DEF r
<1> QED BY <1>2, <1>3, SourceTyped

\* A period of a sequence
LEMMA EncodedPeriod ==
  ASSUME NEW s \in Sources, ~IsFrame(s), NEW i \in 1..Len(s.periods),
         NEW e, EncodedFor(s, e, i)
  PROVE  EncodedFor(s, add_signal_phase(e, s.periods[i], FALSE), i + 1)
<1> DEFINE d == s.periods[i]
           r == add_signal_phase(e, d, FALSE)
<1>1. /\ Typed(e) /\ Holds(e.count, i - 1)
      /\ \A j \in 1..i - 1 : Length(e.count, j) = s.periods[j] + Shift(j - 1)
  BY DEF EncodedFor, SequenceEncoded
<1>2. d \in Periods(i) /\ d \in Nat
  <2>1. /\ s.periods \in Seq(Nat) /\ Len(s.periods) \in Nat
        /\ \A j \in 1..Len(s.periods) : s.periods[j] \in Periods(j)
    BY SourceTyped
  <2> HIDE DEF Periods
  <2> QED BY <2>1
<1> HIDE DEF d
<1>3. PICK n \in Room : n = i - 1 /\ n + 1 = i
  <2>1. Len(s.periods) \in Nat /\ Len(s.periods) <= 67
    BY SourceTyped
  <2> QED BY <2>1 DEF Room
<1>4. /\ Typed(r) /\ Holds(r.count, n + 1)
      /\ \A j \in 1..n : Length(r.count, j) = Length(e.count, j)
      /\ Length(r.count, n + 1) = d + Shift(n)
  <2>1. n \in Room /\ Holds(e.count, n)
    BY <1>1, <1>3
  <2>2. d + Shift(n) \in 1..Longest
    BY <1>2, <1>3, Parity DEF Periods, Shift, Longest, Room
  <2> QED BY <1>1, <1>2, <2>1, <2>2, PhaseTimed
<1> HIDE DEF r
<1>5. \A j \in 1..i + 1 - 1 : Length(r.count, j) = s.periods[j] + Shift(j - 1)
  <2>1. \A j \in 1..i + 1 - 1 : j \in 1..i - 1 \/ j = i
    OBVIOUS
  <2>2. \A j \in 1..i - 1 : Length(r.count, j) = s.periods[j] + Shift(j - 1)
    BY <1>1, <1>3, <1>4
  <2>3. Length(r.count, i) = s.periods[i] + Shift(i - 1)
    BY <1>3, <1>4 DEF d
  <2> QED BY <2>1, <2>2, <2>3
<1>6. i + 1 \in 1..Len(s.periods) + 1 /\ i + 1 - 1 = n + 1
  BY <1>3, SourceTyped
<1>7. SequenceEncoded(s, r, i + 1)
  BY <1>4, <1>5, <1>6 DEF SequenceEncoded
<1>8. EncodedFor(s, r, i + 1)
  BY <1>7 DEF EncodedFor, IsFrame
<1> QED BY <1>8 DEF r, d

\* The encoder starts with nothing written ...
LEMMA EncodedInit == Init => Encoded
<1> SUFFICES ASSUME Init PROVE Encoded
  OBVIOUS
<1>1. /\ source \in Sources /\ tx = Reset
      /\ item = IF IsFrame(source) THEN 0 ELSE 1
  BY DEF Init
<1> QED BY <1>1, EncodedFirst DEF Encoded

\* ... and each step writes the next item.
LEMMA EncodedNext == Encoded /\ [Next]_vars => Encoded'
<1> SUFFICES ASSUME Encoded, [Next]_vars PROVE Encoded'
  OBVIOUS
<1>0. source \in Sources /\ EncodedFor(source, tx, item)
  BY DEF Encoded
<1>1. CASE StartBit
  <2>1. /\ IsFrame(source) /\ item = 0 /\ item' = 0 + 1 /\ source' = source
        /\ tx' = add_bit(tx, TRUE)
    BY <1>1 DEF StartBit, Writes
  <2>2. EncodedFor(source, add_bit(tx, TRUE), 1)
    BY <1>0, <2>1, EncodedStart
  <2>3. item' = 1
    BY <2>1
  <2> QED BY <1>0, <2>1, <2>2, <2>3 DEF Encoded
<1>2. CASE DataBit
  <2>1. /\ source.kind = "frame" /\ item \in 1..Len(source.bits)
        /\ item' = item + 1 /\ source' = source
        /\ tx' = add_bit(tx, source.bits[item])
    BY <1>2 DEF DataBit, Writes, Items
  <2>2. EncodedFor(source, add_bit(tx, source.bits[item]), item + 1)
    BY <1>0, <2>1, EncodedBit
  <2> QED BY <1>0, <2>1, <2>2 DEF Encoded
<1>3. CASE CorruptPhase
  <2>1. /\ source.kind = "corrupt" /\ item \in 1..16
        /\ item' = item + 1 /\ source' = source
        /\ tx' = add_signal_phase(tx, CorruptPhases[item], FALSE)
    BY <1>3 DEF CorruptPhase, Writes, Items
  <2>2. EncodedFor(source, add_signal_phase(tx, CorruptPhases[item], FALSE), item + 1)
    BY <1>0, <2>1, EncodedCorrupt
  <2> QED BY <1>0, <2>1, <2>2 DEF Encoded
<1>4. CASE StopCondition
  <2>1. /\ IsFrame(source) /\ item = Items + 1
        /\ item' = item + 1 /\ source' = source
        /\ tx' = add_stop_condition(tx)
    BY <1>4 DEF StopCondition, Writes
  <2>2. item = (IF source.kind = "frame" THEN Len(source.bits) ELSE 16) + 1
    BY <2>1 DEF Items, IsFrame
  <2>3. EncodedFor(source, add_stop_condition(tx), item + 1)
    BY <1>0, <2>1, <2>2, EncodedStop
  <2> QED BY <1>0, <2>1, <2>3 DEF Encoded
<1>5. CASE Period
  <2>1. /\ ~IsFrame(source) /\ item \in 1..Len(source.periods)
        /\ item' = item + 1 /\ source' = source
        /\ tx' = add_signal_phase(tx, source.periods[item], FALSE)
    BY <1>5 DEF Period, Writes, Items, IsFrame
  <2>2. EncodedFor(source, add_signal_phase(tx, source.periods[item], FALSE), item + 1)
    BY <1>0, <2>1, EncodedPeriod
  <2> QED BY <1>0, <2>1, <2>2 DEF Encoded
<1>6. CASE SendNext
  <2>1. /\ source' \in Sources /\ tx' = Reset
        /\ item' = IF IsFrame(source') THEN 0 ELSE 1
    BY <1>6, BitsAssumption DEF SendNext
  <2> QED BY <2>1, EncodedFirst DEF Encoded
<1>7. CASE UNCHANGED <<source, tx, item>>
  BY <1>0, <1>7 DEF Encoded
<1>8. Edge \/ StopFrame \/ StopError \/ UNCHANGED vars => UNCHANGED <<source, tx, item>>
  BY DEF Edge, StopFrame, StopError, vars
<1> QED BY <1>1, <1>2, <1>3, <1>4, <1>5, <1>6, <1>7, <1>8 DEF Next

\* The encoder encodes.
LEMMA EncodedAlways == Spec => []Encoded
  BY EncodedInit, EncodedNext, PTL DEF Spec

\* What is sent, once it is ready.
LEMMA ReadyEncoded ==
  ASSUME Encoded, Ready
  PROVE  /\ source.kind = "frame" => Complete(source, tx)
         /\ source.kind = "corrupt" =>
              /\ Holds(tx.count, 18)
              /\ \A j \in 1..17 : Length(tx.count, j) = CorruptLength(j)
         /\ ~IsFrame(source) =>
              /\ Holds(tx.count, Len(source.periods))
              /\ \A j \in 1..Len(source.periods) :
                   Length(tx.count, j) = source.periods[j] + Shift(j - 1)
<1>1. source \in Sources /\ EncodedFor(source, tx, item)
  BY DEF Encoded
<1>2. /\ Len(source.bits) \in Nat /\ Len(source.periods) \in Nat
      /\ IsFrame(source) <=> source.kind = "frame" \/ source.kind = "corrupt"
  BY <1>1, SourceTyped, BitCount
<1>3. CASE source.kind = "frame"
  <2>1. item = Len(source.bits) + 2
    BY <1>2, <1>3 DEF Ready, Items
  <2>2. item # 0 /\ ~(item \in 1..Len(source.bits) + 1)
    BY <1>2, <2>1
  <2>3. FrameEncoded(source, tx, item)
    BY <1>1, <1>3 DEF EncodedFor
  <2>4. Complete(source, tx)
    BY <2>2, <2>3 DEF FrameEncoded
  <2> QED BY <1>2, <1>3, <2>4
<1>4. CASE source.kind = "corrupt"
  <2>1. item = 18
    BY <1>2, <1>4 DEF Ready, Items
  <2>2. item # 0 /\ ~(item \in 1..17)
    BY <2>1
  <2>3. CorruptEncoded(tx, item)
    BY <1>1, <1>4 DEF EncodedFor
  <2>4. /\ Holds(tx.count, 18)
        /\ \A j \in 1..17 : Length(tx.count, j) = CorruptLength(j)
    BY <2>2, <2>3 DEF CorruptEncoded
  <2> QED BY <1>2, <1>4, <2>4
<1>5. CASE ~IsFrame(source)
  <2>1. item = Len(source.periods) + 1
    BY <1>2, <1>5 DEF Ready, Items
  <2>2. item - 1 = Len(source.periods)
    BY <1>2, <2>1
  <2>3. SequenceEncoded(source, tx, item)
    BY <1>1, <1>5 DEF EncodedFor
  <2>4. /\ Holds(tx.count, Len(source.periods))
        /\ \A j \in 1..Len(source.periods) :
             Length(tx.count, j) = source.periods[j] + Shift(j - 1)
    BY <2>2, <2>3 DEF SequenceEncoded
  <2> QED BY <1>2, <1>5, <2>4
<1> QED BY <1>2, <1>3, <1>4, <1>5

\* The encoder never meets the end of the array, and what is ready to be sent
\* consists of counts that increase.
LEMMA EncodedFits == ASSUME Encoded PROVE FitsTransmitter
<1>1. source \in Sources /\ EncodedFor(source, tx, item)
  BY DEF Encoded
<1>2. /\ Len(source.periods) \in Nat
      /\ ~IsFrame(source) => Len(source.periods) > 0
      /\ IsFrame(source) <=> source.kind = "frame" \/ source.kind = "corrupt"
  BY <1>1, SourceTyped
<1>3. ~tx.full
  <2>1. ~Reset.full
    BY ResetTyped DEF Typed
  <2>2. source.kind = "frame" => ~tx.full
    BY <1>1, <2>1 DEF EncodedFor, FrameEncoded, Coded, Complete
  <2>3. source.kind = "corrupt" => ~tx.full
    BY <1>1, <2>1 DEF EncodedFor, CorruptEncoded, Typed
  <2>4. ~IsFrame(source) => ~tx.full
    BY <1>1 DEF EncodedFor, SequenceEncoded, Typed
  <2> QED BY <1>2, <2>2, <2>3, <2>4
<1>4. ASSUME Ready
      PROVE  /\ Fit(tx.count) /\ Len(tx.count) > 0
             /\ IsFrame(source) => Len(tx.count) % 2 = 0
  <2>1. CASE source.kind = "frame"
    <3>1. Complete(source, tx)
      BY <1>4, <2>1, ReadyEncoded
    <3> QED BY <3>1 DEF Complete, Ended
  <2>2. CASE source.kind = "corrupt"
    <3>1. Holds(tx.count, 18)
      BY <1>4, <2>2, ReadyEncoded
    <3> QED BY <3>1 DEF Holds
  <2>3. CASE ~IsFrame(source)
    <3>1. Holds(tx.count, Len(source.periods))
      BY <1>4, <2>3, ReadyEncoded
    <3> QED BY <1>2, <2>3, <3>1 DEF Holds
  <2> QED BY <1>2, <2>1, <2>2, <2>3
<1>5. ASSUME Ready
      PROVE  /\ Len(tx.count) \in 1..COUNT_ARRAY_SIZE
             /\ tx.count[1] > 0
             /\ \A i \in 1..Len(tx.count) - 1 : tx.count[i] < tx.count[i + 1]
  <2>1. /\ Len(tx.count) \in Nat /\ Len(tx.count) > 0 /\ Len(tx.count) <= 67
        /\ 0 < tx.count[1]
        /\ \A i \in 1..Len(tx.count) - 1 : tx.count[i] < tx.count[i + 1]
    BY <1>4, <1>5, ArraySize DEF Fit
  <2>2. tx.count[1] \in Nat
    BY <1>4, <1>5, <2>1 DEF Fit
  <2>3. Len(tx.count) \in 1..COUNT_ARRAY_SIZE
    <3>1. \A k \in Nat : k > 0 /\ k <= 67 => k \in 1..67
      OBVIOUS
    <3>2. Len(tx.count) \in 1..67
      BY <2>1, <3>1
    <3> QED BY <3>2, ArraySize
  <2>4. tx.count[1] > 0
    BY <2>1, <2>2
  <2> QED BY <2>1, <2>3, <2>4
<1> QED BY <1>3, <1>4, <1>5 DEF FitsTransmitter

\* What calculate_counts and the sequence commands hand to the transmitter is
\* what its interrupt relies on: the array is never too small, the times of the
\* matches increase, and the last phase of a frame is idle.  This is so for
\* every frame of up to 32 bits and every sequence of up to 67 periods.
THEOREM EncoderFits == Spec => []FitsTransmitter
<1>1. Encoded => FitsTransmitter
  BY EncodedFits
<1> QED BY <1>1, EncodedAlways, PTL
=============================================================================
