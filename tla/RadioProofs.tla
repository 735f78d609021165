---------------------------- MODULE RadioProofs ----------------------------
(***************************************************************************)
(* Proofs about Radio, for any timer period, code length, latency, gaps and  *)
(* noise: the types; and for remotes whose jitter stays within a quarter of   *)
(* their sync pulse, that a frame is reported which comes undisturbed, none  *)
(* of its halves being longer than twice its sync pulse, and that nothing    *)
(* but the code of the frame that just ended is ever reported, unless noise  *)
(* was measured like a half of that frame.                                   *)
(***************************************************************************)
EXTENDS Radio, TLAPS

\* The jitter ProcessPeriod allows for, but that it takes no half of more than
\* twice the sync pulse.
Tolerated == \A s \in Syncs : 4 * Jitter <= s

\* An overflow is left over only at an edge that closely followed it: the next
\* half is then unfit, however long it is.
Late == overflow # 0 => lastCapture < Latency

DecoderInv == TypeOK /\ Late

\* The decoder has followed the frame from its sync pulse on.
Received == {b \in frame : b < numBits}
Aligned ==
  /\ syncLength = unit /\ numBits = (sent - 1) \div 2 /\ bits = Received
  /\ ~IsHigh(sent - 1) => lowLong = IsLong(sent - 1)

Followed == clean =>
  /\ overflow = 0
  /\ sent = 0 => syncLength = 0 /\ lastLength = Overlong
  /\ sent \in 1..Halves => Aligned
  /\ sent = Halves + 1 => report = frame

CleanInv == DecoderInv /\ Followed

\* A decoder that took a pulse inside the frame for a sync pulse is behind, and
\* the gap comes before it has its last bit.
Behind ==
  /\ sent = 0 /\ overflow = 0 => syncLength = 0
  /\ sent \in 1..Halves /\ overflow = 0 /\ syncLength # 0 =>
       numBits < (sent - 1) \div 2 \/ Aligned

FrameInv == DecoderInv /\ (~disguised => Behind) /\ OnlySentCodes

-----------------------------------------------------------------------------
(* Arithmetic.                                                              *)

LEMMA TimerWraps ==
  ASSUME NEW M \in Nat, M > 0, NEW t \in Nat
  PROVE  /\ t % M \in 0..(M - 1) /\ t \div M \in Nat
         /\ t < M => t % M = t /\ t \div M = 0
         /\ M <= t /\ t < 2 * M => t % M = t - M /\ t \div M = 1
         /\ 2 * M <= t /\ t < 3 * M => t % M = t - 2 * M /\ t \div M = 2
         /\ 3 * M <= t => t \div M >= 3
OBVIOUS

LEMMA Shifted ==
  ASSUME NEW M \in Nat, M > 0, NEW n \in 0..(M - 1)
  PROVE  n % M = n /\ (n - M) % M = n /\ 0 % M = 0
OBVIOUS

LEMMA ShiftedBelow ==
  ASSUME NEW M \in Nat, M > 0, NEW d \in Int, -M < d, d < 0
  PROVE  d % M = d + M
OBVIOUS

LEMMA Parity ==
  ASSUME NEW k \in Nat, k >= 1
  PROVE  /\ k % 2 = 0 => /\ k \div 2 = ((k - 1) \div 2) + 1 /\ k >= 2
                         /\ (k - 2) \div 2 = (k - 1) \div 2 /\ (k - 1) % 2 # 0
         /\ k % 2 # 0 => k \div 2 = (k - 1) \div 2 /\ (k - 1) % 2 = 0
         /\ (k - 1) \div 2 \in Nat /\ 2 * ((k - 1) \div 2) <= k - 1 /\ k \div 2 \in Nat
         /\ 2 * (k \div 2) <= k
OBVIOUS

LEMMA Bounds == /\ Modulus \in Nat /\ Modulus > 0 /\ Overlong \in 0..(Modulus - 1)
                /\ NumBits \in Nat /\ NumBits > 0 /\ Latency \in Nat
                /\ MaxOverflow \in Nat /\ MaxOverflow > 1
                /\ SyncMin \in Nat /\ SyncMin > 0 /\ SyncMax \in Nat
                /\ Overlong = Modulus - 1 /\ Halves = 2 * NumBits
                /\ 2 * SyncMax <= Overlong /\ 2 * SyncMax <= Modulus - Latency
                /\ 2 * SyncMax + SyncMin <= Modulus /\ 2 * Latency <= SyncMin
                /\ Jitter \in Nat /\ Jitter <= SyncMin
BY RadioAssumption DEF Overlong, Halves

\* The bounds of ProcessPeriod lie in this order.
LEMMA Ranges ==
  ASSUME NEW s \in Nat, s > 1, NEW j \in Nat, 4 * j <= s
  PROVE  /\ s \div 2 <= s - j /\ s + j <= s + (s \div 4)
         /\ s + (s \div 4) < s + (s \div 2) - (s \div 8)
         /\ s + (s \div 2) - (s \div 8) <= 2 * s - j
OBVIOUS

-----------------------------------------------------------------------------
(* CaptureCallback.                                                         *)

\* What a half of length n leaves: it is measured right where it is short and no
\* overflow is left over; as overlong where it is longer than a period, but for an
\* overflow handled late; and never as a fitting half where an overflow is left
\* over, or still waits.
HalfMeasured(n, u) ==
  /\ lastCapture' \in 0..(Modulus - 1) /\ lastLength' \in 0..(Modulus - 1)
  /\ overflow' \in 0..MaxOverflow /\ Late'
  /\ clean' \in BOOLEAN /\ (clean' => u /\ overflow' = 0)
  /\ n < Modulus /\ overflow = 0 => lastLength' = n
  /\ n > Modulus /\ overflow' = 0 => lastLength' = Overlong
  /\ overflow # 0 => Unfit(lastLength')

\* The overflow that was late still waits: the half is very short.
LEMMA HalfWaiting ==
  ASSUME DecoderInv, NEW n \in Nat, NEW u \in BOOLEAN, overflow # 0,
         (lastCapture + n) \div Modulus = 0, (lastCapture + n) % Modulus < Latency,
         lastCapture' = (lastCapture + n) % Modulus,
         lastLength' = Measured((lastCapture + n) % Modulus, 0),
         overflow' = overflow, clean' = FALSE
  PROVE  HalfMeasured(n, u)
<1>1. lastCapture \in 0..(Modulus - 1) /\ overflow \in 0..MaxOverflow
  BY DEF DecoderInv, TypeOK
<1>2. lastCapture + n \in Nat
  BY <1>1, Bounds
<1>3. lastCapture + n < Modulus
  BY <1>1, <1>2, Bounds, TimerWraps
<1>4. lastCapture' = lastCapture + n /\ lastCapture' \in 0..(Modulus - 1) /\ lastCapture' < Latency
  BY <1>1, <1>2, <1>3, Bounds, TimerWraps
<1>5. n \in 0..(Modulus - 1) /\ lastCapture' - lastCapture = n /\ n < Latency
  BY <1>1, <1>3, <1>4, Bounds
<1>6. lastLength' = n
  <2>1. lastLength' = (lastCapture' - lastCapture) % Modulus
    BY <1>1, <1>4 DEF Measured
  <2>. QED  BY <2>1, <1>5, Bounds, Shifted
<1>7. Unfit(lastLength')
  BY <1>5, <1>6, Bounds DEF Unfit
<1>8. ~(n > Modulus)
  BY <1>5, Bounds
<1>. QED  BY <1>1, <1>4, <1>5, <1>6, <1>7, <1>8 DEF HalfMeasured, Late

\* All overflows have been counted, or all but the last one.
LEMMA HalfCounted ==
  ASSUME DecoderInv, NEW n \in Nat, NEW u \in BOOLEAN, NEW pending \in {0, 1},
         pending = 1 => /\ (lastCapture + n) \div Modulus > 0
                        /\ (lastCapture + n) % Modulus < Latency,
         lastCapture' = (lastCapture + n) % Modulus,
         lastLength' = Measured((lastCapture + n) % Modulus,
                         Counted(overflow + ((lastCapture + n) \div Modulus) - pending)),
         overflow' \in IF pending = 1
           THEN CountedLate(Counted(overflow + ((lastCapture + n) \div Modulus) - pending))
           ELSE {0},
         clean' = IF pending = 1 THEN FALSE ELSE u
  PROVE  HalfMeasured(n, u)
<1>. DEFINE time == lastCapture + n
            capture == time % Modulus
            wraps == time \div Modulus
<1>1. lastCapture \in 0..(Modulus - 1) /\ overflow \in 0..MaxOverflow
      /\ (overflow # 0 => lastCapture < Latency)
  BY DEF DecoderInv, TypeOK, Late
<1>2. time \in Nat
  BY <1>1, Bounds
<1>3. /\ capture \in 0..(Modulus - 1) /\ wraps \in Nat
      /\ time < Modulus => capture = time /\ wraps = 0
      /\ Modulus <= time /\ time < 2 * Modulus => capture = time - Modulus /\ wraps = 1
      /\ 2 * Modulus <= time /\ time < 3 * Modulus => capture = time - 2 * Modulus /\ wraps = 2
      /\ 3 * Modulus <= time => wraps >= 3
  BY <1>2, Bounds, TimerWraps
<1>. DEFINE seen == Counted(overflow + wraps - pending)
<1>4. /\ seen \in 0..MaxOverflow
      /\ overflow + wraps - pending \in {0, 1} => seen = overflow + wraps - pending
      /\ overflow + wraps - pending >= 2 => seen >= 2
  BY <1>1, <1>3, Bounds DEF Counted
<1>5. lastLength' = Measured(capture, seen) /\ lastCapture' = capture
      /\ overflow' \in (IF pending = 1 THEN CountedLate(seen) ELSE {0})
  OBVIOUS
<1>. HIDE DEF seen, capture, wraps
<1>6. /\ (capture - lastCapture) % Modulus \in 0..(Modulus - 1)
      /\ seen > 1 \/ (seen = 1 /\ capture > lastCapture) => lastLength' = Overlong
      /\ ~(seen > 1 \/ (seen = 1 /\ capture > lastCapture)) =>
           lastLength' = (capture - lastCapture) % Modulus
  <2>1. capture - lastCapture \in Int
    BY <1>1, <1>3, Bounds
  <2>2. (capture - lastCapture) % Modulus \in 0..(Modulus - 1)
    BY <2>1, Bounds
  <2>. QED  BY <2>2, <1>5 DEF Measured
<1>7. lastLength' \in 0..(Modulus - 1)
  BY <1>6, Bounds
<1>8. /\ overflow' \in 0..MaxOverflow
      /\ pending = 0 => overflow' = 0
      /\ pending = 1 /\ overflow' = 0 => seen >= 2
  <2>1. CASE pending = 0
    BY <2>1, <1>5, Bounds
  <2>2. CASE pending = 1
    <3>1. overflow' \in CountedLate(seen)
      BY <2>2, <1>5
    <3>2. overflow' = 1 \/ overflow' = 2 \/ (seen < MaxOverflow /\ overflow' = seen + 1)
          \/ (seen >= MaxOverflow /\ overflow' = 0)
      BY <3>1, <1>4, Bounds DEF CountedLate
    <3>. QED  BY <2>2, <3>2, <1>4, Bounds
  <2>. QED  BY <2>1, <2>2
<1>9. overflow' # 0 => lastCapture' < Latency
  BY <1>5, <1>8
<1>10. (pending = 1 => clean' = FALSE) /\ (pending # 1 => clean' = u)
  OBVIOUS
<1>11. clean' \in BOOLEAN /\ (clean' => u /\ overflow' = 0)
  BY <1>10, <1>8
<1>12. ASSUME n < Modulus, overflow = 0
       PROVE  lastLength' = n
  <2>1. ~(seen > 1 \/ (seen = 1 /\ capture > lastCapture))
    BY <1>1, <1>3, <1>4, <1>12, Bounds
  <2>2. capture - lastCapture = n \/ capture - lastCapture = n - Modulus
    BY <1>1, <1>3, <1>12, Bounds
  <2>3. n \in 0..(Modulus - 1)
    BY <1>12, Bounds
  <2>4. n % Modulus = n /\ (n - Modulus) % Modulus = n
    BY <2>3, Bounds, Shifted
  <2>. QED  BY <2>1, <2>2, <2>4, <1>6
<1>13. ASSUME n > Modulus, overflow' = 0
       PROVE  lastLength' = Overlong
  <2>1. wraps >= 1
    <3>1. time >= Modulus
      BY <1>1, <1>13, Bounds
    <3>. HIDE DEF time
    <3>. QED  BY <3>1, <1>2, <1>3, Bounds
  <2>2. seen >= 1
    <3>. HIDE DEF time
    <3>1. CASE pending = 0
      BY <2>1, <3>1, <1>1, <1>3, <1>4
    <3>2. CASE pending = 1
      BY <3>2, <1>4, <1>8, <1>13
    <3>. QED  BY <3>1, <3>2
  <2>3. CASE seen > 1
    BY <2>3, <1>6
  <2>4. CASE seen = 1
    <3>1. wraps = 1
      <4>. HIDE DEF time
      <4>1. pending = 0
        BY <2>4, <1>8, <1>13
      <4>2. ~(overflow + wraps >= 2)
        BY <4>1, <2>4, <1>1, <1>3, <1>4
      <4>. QED  BY <4>2, <2>1, <1>1, <1>3, Bounds
    <3>2. capture > lastCapture
      BY <3>1, <1>1, <1>3, <1>13, Bounds
    <3>. QED  BY <2>4, <3>2, <1>6
  <2>. QED  BY <2>2, <2>3, <2>4, <1>4, Bounds
<1>14. ASSUME overflow # 0
       PROVE  Unfit(lastLength')
  <2>1. seen >= 1 /\ lastCapture < Latency
    BY <1>1, <1>3, <1>4, <1>14, Bounds
  <2>2. CASE seen > 1 \/ capture > lastCapture
    <3>1. lastLength' = Overlong
      BY <2>1, <2>2, <1>4, <1>6, Bounds
    <3>. QED  BY <3>1, Bounds DEF Unfit
  <2>3. CASE ~(seen > 1 \/ capture > lastCapture)
    <3>1. lastLength' = (capture - lastCapture) % Modulus
      BY <2>3, <1>6
    <3>2. CASE capture = lastCapture
      <4>1. capture - lastCapture = 0 /\ 0 % Modulus = 0
        BY <3>2, <1>1, Bounds
      <4>. QED  BY <4>1, <3>1, Bounds DEF Unfit
    <3>3. CASE capture < lastCapture
      <4>1. capture - lastCapture \in Int /\ -Modulus < capture - lastCapture
            /\ capture - lastCapture < 0
        BY <3>3, <1>1, <1>3, Bounds
      <4>2. (capture - lastCapture) % Modulus = capture - lastCapture + Modulus
        BY <4>1, Bounds, ShiftedBelow
      <4>3. lastLength' = capture - lastCapture + Modulus
        BY <4>2, <3>1
      <4>. QED  BY <4>3, <2>1, <1>1, <1>3, Bounds DEF Unfit
    <3>. QED  BY <2>3, <3>2, <3>3, <1>1, <1>3, Bounds
  <2>. QED  BY <2>2, <2>3
<1>15. lastCapture' \in 0..(Modulus - 1) /\ Late'
  BY <1>3, <1>5, <1>9 DEF Late
<1>. QED
  BY <1>7, <1>8, <1>11, <1>12, <1>13, <1>14, <1>15 DEF HalfMeasured

\* An edge that ends a half.
LEMMA HalfCases ==
  ASSUME DecoderInv, NEW level \in BOOLEAN, NEW n \in Nat, NEW u \in BOOLEAN, Half(level, n, u)
  PROVE  /\ lastCapture' \in 0..(Modulus - 1) /\ lastLength' \in 0..(Modulus - 1)
         /\ overflow' \in 0..MaxOverflow /\ Late'
         /\ clean' \in BOOLEAN /\ (clean' => u /\ overflow' = 0)
         /\ ProcessPeriod(level, lastLength')
         /\ n < Modulus /\ overflow = 0 => lastLength' = n
         /\ n > Modulus /\ overflow' = 0 => lastLength' = Overlong
         /\ overflow # 0 => Unfit(lastLength')
<1>. DEFINE capture == (lastCapture + n) % Modulus
            wraps == (lastCapture + n) \div Modulus
<1>1. ProcessPeriod(level, lastLength') /\ lastCapture' = capture
  BY DEF Half
<1>2. overflow \in Int /\ wraps \in Int
  BY Bounds DEF DecoderInv, TypeOK
<1>3. overflow + wraps - 0 = overflow + wraps
  BY <1>2
<1>4. CASE lastLength' = Measured(capture, Counted(overflow + wraps)) /\ overflow' = 0 /\ clean' = u
  <2>. DEFINE pending == 0
  <2>1. /\ lastLength' = Measured(capture, Counted(overflow + wraps - pending))
        /\ overflow' \in IF pending = 1 THEN CountedLate(Counted(overflow + wraps - pending))
                                        ELSE {0}
        /\ pending \in {0, 1} /\ (pending = 1 => wraps > 0 /\ capture < Latency)
    BY <1>3, <1>4
  <2>2. clean' = IF pending = 1 THEN FALSE ELSE u
    BY <1>4
  <2>. HIDE DEF pending
  <2>3. HalfMeasured(n, u)
    BY <2>1, <2>2, <1>1, HalfCounted
  <2>. QED  BY <2>3, <1>1 DEF HalfMeasured
<1>5. CASE /\ wraps > 0 /\ capture < Latency /\ clean' = FALSE
           /\ LET seen == Counted(overflow + wraps - 1)
              IN lastLength' = Measured(capture, seen) /\ overflow' \in CountedLate(seen)
  <2>. DEFINE pending == 1
  <2>1. /\ lastLength' = Measured(capture, Counted(overflow + wraps - pending))
        /\ overflow' \in IF pending = 1 THEN CountedLate(Counted(overflow + wraps - pending))
                                        ELSE {0}
        /\ pending \in {0, 1} /\ (pending = 1 => wraps > 0 /\ capture < Latency)
    BY <1>5
  <2>2. clean' = IF pending = 1 THEN FALSE ELSE u
    BY <1>5
  <2>. HIDE DEF pending
  <2>3. HalfMeasured(n, u)
    BY <2>1, <2>2, <1>1, HalfCounted
  <2>. QED  BY <2>3, <1>1 DEF HalfMeasured
<1>6. CASE /\ wraps = 0 /\ capture < Latency /\ overflow # 0
           /\ lastLength' = Measured(capture, 0) /\ overflow' = overflow /\ clean' = FALSE
  <2>1. HalfMeasured(n, u)
    BY <1>1, <1>6, HalfWaiting
  <2>. QED  BY <2>1, <1>1 DEF HalfMeasured
<1>. QED  BY <1>4, <1>5, <1>6 DEF Half

-----------------------------------------------------------------------------
(* ProcessPeriod.                                                           *)

\* The types of what ProcessPeriod sets.
DecoderTypes ==
  /\ syncLength \in {0} \cup (SyncMin + 1)..(SyncMax - 1)
  /\ lowLong \in BOOLEAN /\ bits \in Codes /\ numBits \in 0..NumBits
  /\ syncLength # 0 => numBits < NumBits
  /\ report \in Codes \cup {NoCode}

\* The branches of ProcessPeriod.
LEMMA ProcessCases ==
  ASSUME NEW level \in BOOLEAN, NEW length, ProcessPeriod(level, length)
  PROVE  /\ syncLength = 0 => SeekSync(level, length)
         /\ syncLength # 0 /\ Invalid(length) => DropCode
         /\ syncLength # 0 /\ ~Invalid(length) /\ ~level => LowHalf(length)
         /\ syncLength # 0 /\ ~Invalid(length) /\ level =>
              IF lowLong = (length >= MinLong) THEN DropCode ELSE HighHalf
BY DEF ProcessPeriod

\* A high half adds one bit; with the last one the code is reported.
LEMMA HighHalfTypes ==
  ASSUME DecoderTypes, syncLength # 0, HighHalf
  PROVE  /\ DecoderTypes'
         /\ numBits' = numBits + 1
         /\ numBits' < NumBits => report' = NoCode /\ syncLength' = syncLength
         /\ numBits' = NumBits => report' = bits' /\ syncLength' = 0
<1>1. /\ numBits \in 0..(NumBits - 1) /\ numBits' = numBits + 1
      /\ numBits' \in 0..NumBits
  BY Bounds DEF HighHalf, DecoderTypes
<1>2. bits' = bits \/ bits' = bits \cup {numBits}
  BY DEF HighHalf
<1>3. bits' \in Codes
  BY <1>1, <1>2 DEF DecoderTypes, Codes
<1>4. numBits' = NumBits => report' = bits' /\ syncLength' = 0
  BY DEF HighHalf
<1>5. numBits' # NumBits => report' = NoCode /\ syncLength' = syncLength
  BY DEF HighHalf
<1>6. numBits' < NumBits => numBits' # NumBits
  BY Bounds
<1>7. numBits' # NumBits => numBits' < NumBits
  BY <1>1, Bounds
<1>8. lowLong' = lowLong
  BY DEF HighHalf
<1>9. DecoderTypes'
  <2>1. CASE numBits' = NumBits
    BY <2>1, <1>1, <1>3, <1>4, <1>8 DEF DecoderTypes
  <2>2. CASE numBits' # NumBits
    BY <2>2, <1>1, <1>3, <1>5, <1>7, <1>8 DEF DecoderTypes
  <2>. QED  BY <2>1, <2>2
<1>. QED  BY <1>1, <1>4, <1>5, <1>6, <1>9

LEMMA ProcessTypes ==
  ASSUME DecoderTypes, NEW level \in BOOLEAN, NEW length \in 0..(Modulus - 1),
         ProcessPeriod(level, length)
  PROVE  DecoderTypes'
<1>1. CASE syncLength = 0
  <2>1. SeekSync(level, length)
    BY <1>1, ProcessCases
  <2>2. CASE level /\ SyncMin < length /\ length < SyncMax /\ lastLength = Overlong
    <3>1. syncLength' = length /\ bits' = {} /\ numBits' = 0 /\ report' = NoCode
          /\ lowLong' = lowLong
      BY <2>1, <2>2 DEF SeekSync
    <3>2. length \in (SyncMin + 1)..(SyncMax - 1) /\ 0 \in 0..NumBits /\ 0 < NumBits
      BY <2>2, Bounds
    <3>3. {} \in Codes
      BY DEF Codes
    <3>. QED  BY <3>1, <3>2, <3>3 DEF DecoderTypes
  <2>3. CASE ~(level /\ SyncMin < length /\ length < SyncMax /\ lastLength = Overlong)
    <3>1. UNCHANGED <<syncLength, bits, numBits, lowLong>> /\ report' = NoCode
      BY <2>1, <2>3 DEF SeekSync
    <3>. QED  BY <3>1 DEF DecoderTypes
  <2>. QED  BY <2>2, <2>3
<1>2. CASE syncLength # 0
  <2>1. CASE DropCode
    BY <2>1 DEF DropCode, DecoderTypes
  <2>2. CASE LowHalf(length)
    <3>1. (length > MaxShort) \in BOOLEAN
      OBVIOUS
    <3>2. lowLong' \in BOOLEAN /\ report' = NoCode /\ UNCHANGED <<syncLength, bits, numBits>>
      BY <2>2, <3>1, Zenon DEF LowHalf
    <3>. QED  BY <3>2 DEF DecoderTypes
  <2>3. CASE HighHalf
    BY <2>3, <1>2, HighHalfTypes
  <2>. QED  BY <1>2, <2>1, <2>2, <2>3, ProcessCases
<1>. QED  BY <1>1, <1>2

\* Behind an unfit half the decoder looks for a sync pulse.
LEMMA UnfitDropped ==
  ASSUME DecoderTypes, NEW level \in BOOLEAN, NEW length \in 0..(Modulus - 1),
         Unfit(length), ProcessPeriod(level, length)
  PROVE  syncLength' = 0 /\ report' = NoCode
<1>1. CASE syncLength = 0
  <2>1. ~(SyncMin < length /\ length < SyncMax)
    BY Bounds DEF Unfit
  <2>. QED  BY <1>1, <2>1, ProcessCases DEF SeekSync
<1>2. CASE syncLength # 0
  <2>1. syncLength \in (SyncMin + 1)..(SyncMax - 1)
    BY <1>2 DEF DecoderTypes
  <2>2. length < MinShort \/ length > MaxLong
    <3>1. 2 * length < SyncMin => length < syncLength \div 2
      BY <2>1, Bounds
    <3>2. length >= 2 * SyncMax - 1 => length > 2 * syncLength
      BY <2>1, Bounds
    <3>. QED  BY <3>1, <3>2 DEF MinShort, MaxLong, Unfit
  <2>. QED  BY <1>2, <2>2, ProcessCases DEF DropCode, Invalid
<1>. QED  BY <1>1, <1>2

-----------------------------------------------------------------------------
(* The types.                                                               *)

\* A half a remote sends is shorter than the timer's period.
LEMMA SentLengths ==
  ASSUME TypeOK,
         NEW n \in Near(IF IsLong(sent) THEN 2 * unit ELSE unit)
  PROVE  n \in Nat /\ n < Modulus
<1>1. unit \in (SyncMin + 1)..(SyncMax - 1)
  BY RadioAssumption DEF TypeOK
<1>2. n \in (2 * unit - Jitter)..(2 * unit + Jitter) \/ n \in (unit - Jitter)..(unit + Jitter)
  BY DEF Near
<1>. QED  BY <1>1, <1>2, Bounds

LEMMA UnitLength ==
  ASSUME TypeOK
  PROVE  unit \in Nat /\ unit < Modulus /\ unit > 1 /\ SyncMin < unit /\ unit < SyncMax
<1>1. unit \in (SyncMin + 1)..(SyncMax - 1)
  BY RadioAssumption DEF TypeOK
<1>. QED  BY <1>1, Bounds

LEMMA TypesOfDecoder == TypeOK => DecoderTypes
BY DEF TypeOK, DecoderTypes

\* What an edge leaves of the decoder is well typed.
LEMMA HalfTypes ==
  ASSUME DecoderInv, NEW level \in BOOLEAN, NEW n \in Nat, NEW u \in BOOLEAN, Half(level, n, u)
  PROVE  /\ lastCapture' \in 0..(Modulus - 1) /\ lastLength' \in 0..(Modulus - 1)
         /\ overflow' \in 0..MaxOverflow /\ clean' \in BOOLEAN
         /\ DecoderTypes' /\ Late'
<1>1. /\ lastCapture' \in 0..(Modulus - 1) /\ lastLength' \in 0..(Modulus - 1)
      /\ overflow' \in 0..MaxOverflow /\ clean' \in BOOLEAN /\ Late'
      /\ ProcessPeriod(level, lastLength')
  BY HalfCases
<1>2. DecoderTypes
  BY TypesOfDecoder DEF DecoderInv
<1>3. DecoderTypes'
  BY <1>1, <1>2, ProcessTypes
<1>. QED  BY <1>1, <1>3

\* Each step of a remote but BreakOff is one half, and so is noise.
LEMMA RemoteSteps ==
  ASSUME DecoderInv
  PROVE  /\ Gap => \E g \in Gaps : g \in Nat /\ g > Modulus /\ Half(FALSE, g, TRUE)
         /\ SendSync => unit \in Nat /\ Half(TRUE, unit, clean)
         /\ SendHalf => \E n \in Nat :
              /\ n \in Near(IF IsLong(sent) THEN 2 * unit ELSE unit) /\ n < Modulus
              /\ (n <= 2 * unit) \in BOOLEAN
              /\ Half(IsHigh(sent), n, clean /\ n <= 2 * unit)
         /\ Spoilt => \E level \in BOOLEAN, n \in Nat : Half(level, n, FALSE)
         /\ IsHigh(sent) \in BOOLEAN /\ clean \in BOOLEAN
<1>1. TypeOK
  BY DEF DecoderInv
<1>2. IsHigh(sent) \in BOOLEAN /\ clean \in BOOLEAN
  BY <1>1 DEF IsHigh, TypeOK
<1>3. ASSUME Gap
      PROVE  \E g \in Gaps : g \in Nat /\ g > Modulus /\ Half(FALSE, g, TRUE)
  BY <1>3, RadioAssumption DEF Gap
<1>4. SendSync => unit \in Nat /\ Half(TRUE, unit, clean)
  BY <1>1, UnitLength DEF SendSync
<1>5. ASSUME SendHalf
      PROVE  \E n \in Nat :
               /\ n \in Near(IF IsLong(sent) THEN 2 * unit ELSE unit) /\ n < Modulus
               /\ (n <= 2 * unit) \in BOOLEAN
               /\ Half(IsHigh(sent), n, clean /\ n <= 2 * unit)
  <2>1. PICK n \in Near(IF IsLong(sent) THEN 2 * unit ELSE unit) :
             Half(IsHigh(sent), n, clean /\ n <= 2 * unit)
    BY <1>5 DEF SendHalf
  <2>2. n \in Nat /\ n < Modulus /\ (n <= 2 * unit) \in BOOLEAN
    BY <1>1, SentLengths
  <2>. QED  BY <2>1, <2>2
<1>6. ASSUME Spoilt
      PROVE  \E level \in BOOLEAN, n \in Nat : Half(level, n, FALSE)
  BY <1>6, RadioAssumption DEF Spoilt
<1>. QED  BY <1>2, <1>3, <1>4, <1>5, <1>6

\* Two captures served in the wrong order are measured as almost a whole period.
LEMMA WrongOrder ==
  ASSUME DecoderInv, OutOfOrder
  PROVE  /\ lastCapture' \in 0..(Modulus - 1) /\ lastLength' \in 0..(Modulus - 1)
         /\ overflow' \in 0..MaxOverflow /\ Late'
         /\ Unfit(lastLength') /\ ProcessPeriod(FALSE, lastLength')
<1>1. PICK ago \in 1..Latency :
        /\ lastLength' = (Modulus - ago) % Modulus
        /\ lastCapture' = (lastCapture - ago) % Modulus
        /\ overflow' = IF lastCapture < ago THEN 0 ELSE overflow
  BY DEF OutOfOrder
<1>2. /\ lastCapture \in 0..(Modulus - 1) /\ overflow \in 0..MaxOverflow
      /\ (overflow # 0 => lastCapture < Latency)
  BY DEF DecoderInv, TypeOK, Late
<1>3. ago \in Nat /\ ago >= 1 /\ ago <= Latency /\ Modulus - ago \in 0..(Modulus - 1)
  BY Bounds
<1>4. lastLength' = Modulus - ago /\ lastLength' \in 0..(Modulus - 1)
  BY <1>1, <1>3, Bounds, Shifted
<1>5. Unfit(lastLength')
  BY <1>3, <1>4, Bounds DEF Unfit
<1>6. CASE lastCapture < ago
  <2>1. lastCapture - ago \in Int /\ -Modulus < lastCapture - ago /\ lastCapture - ago < 0
    BY <1>2, <1>3, <1>6, Bounds
  <2>2. lastCapture' = lastCapture - ago + Modulus
    BY <1>1, <2>1, Bounds, ShiftedBelow
  <2>3. lastCapture' \in 0..(Modulus - 1) /\ overflow' = 0 /\ overflow' \in 0..MaxOverflow
    BY <2>2, <1>1, <1>2, <1>3, <1>6, Bounds
  <2>. QED  BY <2>3, <1>4, <1>5 DEF Late, OutOfOrder
<1>7. CASE lastCapture >= ago
  <2>1. lastCapture - ago \in 0..(Modulus - 1) /\ lastCapture - ago < lastCapture
    BY <1>2, <1>3, <1>7, Bounds
  <2>2. lastCapture' = lastCapture - ago
    BY <1>1, <2>1, Bounds, Shifted
  <2>3. overflow' = overflow
    BY <1>1, <1>2, <1>3, <1>7
  <2>4. overflow' # 0 => lastCapture' < Latency
    BY <2>1, <2>2, <2>3, <1>2, Bounds
  <2>5. lastCapture' \in 0..(Modulus - 1) /\ overflow' \in 0..MaxOverflow
    BY <2>1, <2>2, <2>3, <1>2
  <2>. QED  BY <2>4, <2>5, <1>4, <1>5 DEF Late, OutOfOrder
<1>8. lastCapture < ago \/ lastCapture >= ago
  BY <1>2, <1>3, Bounds
<1>. QED  BY <1>6, <1>7, <1>8

LEMMA InitDecoder == Init => DecoderInv
<1>. SUFFICES ASSUME Init
              PROVE  DecoderInv
  OBVIOUS
<1>1. /\ 0 \in 0..(Modulus - 1) /\ 0 \in 0..MaxOverflow /\ 0 \in 0..NumBits
      /\ Halves + 1 \in 0..(Halves + 1)
  BY Bounds
<1>2. {} \in Codes
  BY DEF Codes
<1>. QED  BY <1>1, <1>2 DEF Init, DecoderInv, TypeOK, Late

LEMMA NextDecoder ==
  ASSUME DecoderInv, [Next]_vars
  PROVE  DecoderInv'
<1>1. TypeOK
  BY DEF DecoderInv
<1>2. sent \in 0..(Halves + 1) /\ Halves \in Nat /\ frame \in Codes /\ unit \in Syncs
      /\ disguised \in BOOLEAN
  BY <1>1, Bounds DEF TypeOK
<1>3. ASSUME NEW level \in BOOLEAN, NEW n \in Nat, NEW u \in BOOLEAN, Half(level, n, u),
             frame' \in Codes, unit' \in Syncs, sent' \in 0..(Halves + 1), disguised' \in BOOLEAN
      PROVE  DecoderInv'
  <2>1. /\ lastCapture' \in 0..(Modulus - 1) /\ lastLength' \in 0..(Modulus - 1)
        /\ overflow' \in 0..MaxOverflow /\ clean' \in BOOLEAN
        /\ DecoderTypes' /\ Late'
    BY <1>3, HalfTypes
  <2>2. TypeOK'
    BY <2>1, <1>3, SMTT(30) DEF DecoderTypes, TypeOK
  <2>. QED  BY <2>1, <2>2 DEF DecoderInv
<1>4. CASE Gap
  <2>1. sent' \in 0..(Halves + 1) /\ frame' \in Codes /\ unit' \in Syncs
    BY <1>2, <1>4 DEF Gap
  <2>3. disguised' \in BOOLEAN
    BY <1>4, Zenon DEF Gap
  <2>2. PICK g \in Gaps : g \in Nat /\ Half(FALSE, g, TRUE)
    BY <1>4, RemoteSteps
  <2>. QED  BY <2>1, <2>2, <2>3, <1>3
<1>5. CASE BreakOff
  <2>1. Halves + 1 \in 0..(Halves + 1)
    BY <1>2
  <2>2. sent' \in 0..(Halves + 1) /\ clean' \in BOOLEAN
    BY <1>5, <2>1, Zenon DEF BreakOff
  <2>. QED
    BY <1>5, <2>2 DEF BreakOff, DecoderInv, TypeOK, Late, decoderVars
<1>6. CASE SendSync
  <2>1. sent' \in 0..(Halves + 1) /\ frame' \in Codes /\ unit' \in Syncs
        /\ disguised' \in BOOLEAN
    BY <1>2, <1>6, Bounds DEF SendSync
  <2>. QED  BY <2>1, <1>3, <1>6, RemoteSteps
<1>7. CASE SendHalf
  <2>1. sent' \in 0..(Halves + 1) /\ frame' \in Codes /\ unit' \in Syncs
        /\ disguised' \in BOOLEAN
    BY <1>2, <1>7 DEF SendHalf
  <2>2. PICK n \in Nat :
          (n <= 2 * unit) \in BOOLEAN /\ Half(IsHigh(sent), n, clean /\ n <= 2 * unit)
    BY <1>7, RemoteSteps
  <2>3. (clean /\ n <= 2 * unit) \in BOOLEAN
    OBVIOUS
  <2>. QED  BY <2>1, <2>2, <2>3, <1>3, RemoteSteps
<1>8. CASE Spoilt
  <2>1. sent' \in 0..(Halves + 1) /\ frame' \in Codes /\ unit' \in Syncs
        /\ disguised' \in BOOLEAN
    BY <1>2, <1>8 DEF Spoilt
  <2>2. PICK level \in BOOLEAN, n \in Nat : Half(level, n, FALSE)
    BY <1>8, RemoteSteps
  <2>. QED  BY <2>1, <2>2, <1>3
<1>9. CASE OutOfOrder
  <2>1. /\ lastCapture' \in 0..(Modulus - 1) /\ lastLength' \in 0..(Modulus - 1)
        /\ overflow' \in 0..MaxOverflow /\ Late' /\ ProcessPeriod(FALSE, lastLength')
    BY <1>9, WrongOrder
  <2>2. DecoderTypes'
    BY <2>1, <1>1, TypesOfDecoder, ProcessTypes
  <2>3. UNCHANGED <<frame, unit, sent, clean, disguised>>
    BY <1>9 DEF OutOfOrder
  <2>4. TypeOK'
    BY <2>1, <2>2, <2>3, <1>1, SMTT(30) DEF DecoderTypes, TypeOK
  <2>. QED  BY <2>1, <2>4 DEF DecoderInv
<1>10. CASE UNCHANGED vars
  BY <1>10 DEF vars, decoderVars, DecoderInv, TypeOK, Late
<1>. QED  BY <1>4, <1>5, <1>6, <1>7, <1>8, <1>9, <1>10 DEF Next

\* An overflow is left over only at an edge that closely followed it, and the
\* decoder never waits for a bit of a code it already has.
THEOREM DecoderTyped == Spec => []DecoderInv
<1>1. Init => DecoderInv
  BY InitDecoder
<1>2. DecoderInv /\ [Next]_vars => DecoderInv'
  BY NextDecoder
<1>. QED  BY <1>1, <1>2, PTL DEF Spec

\* The types of the decoder: in particular m_bits stays below twelve while a code
\* is put together, so that 1 << m_bits stays within the code.
THEOREM RadioTypes == Spec => []TypeOK
<1>1. DecoderInv => TypeOK
  BY DEF DecoderInv
<1>. QED  BY <1>1, DecoderTyped, PTL

-----------------------------------------------------------------------------
(* The halves of a frame.                                                   *)

\* A low and a high half make a bit.
LEMMA HalvesOfBits ==
  ASSUME sent \in 1..Halves
  PROVE  /\ sent \in Nat /\ sent + 1 - 1 = sent
         /\ BitOf(sent) = (sent - 1) \div 2 /\ BitOf(sent) \in 0..(NumBits - 1)
         /\ sent \div 2 \in Nat
         /\ IsHigh(sent) => /\ sent \div 2 = BitOf(sent) + 1 /\ BitOf(sent - 1) = BitOf(sent)
                            /\ ~IsHigh(sent - 1)
                            /\ sent = Halves <=> sent \div 2 = NumBits
         /\ ~IsHigh(sent) => /\ sent \div 2 = BitOf(sent) /\ sent # Halves
                             /\ IsHigh(sent - 1)
<1>1. sent \in Nat /\ sent >= 1 /\ sent <= 2 * NumBits
  BY Bounds
<1>2. /\ sent % 2 = 0 => /\ sent \div 2 = ((sent - 1) \div 2) + 1 /\ sent >= 2
                         /\ (sent - 2) \div 2 = (sent - 1) \div 2 /\ (sent - 1) % 2 # 0
      /\ sent % 2 # 0 => sent \div 2 = (sent - 1) \div 2 /\ (sent - 1) % 2 = 0
      /\ (sent - 1) \div 2 \in Nat /\ 2 * ((sent - 1) \div 2) <= sent - 1
      /\ sent \div 2 \in Nat /\ 2 * (sent \div 2) <= sent
  BY <1>1, Parity
<1>3. BitOf(sent) = (sent - 1) \div 2 /\ BitOf(sent - 1) = (sent - 2) \div 2
  BY <1>1 DEF BitOf
<1>4. (sent - 1) \div 2 \in 0..(NumBits - 1)
  BY <1>1, <1>2, Bounds
<1>5. sent % 2 = 0 => sent = 2 * (sent \div 2)
  BY <1>1
<1>6. sent % 2 = 0 => (sent = Halves <=> sent \div 2 = NumBits)
  BY <1>1, <1>2, <1>5, Bounds
<1>7. sent % 2 # 0 => sent # Halves
  BY <1>1, Bounds
<1>. QED  BY <1>1, <1>2, <1>3, <1>4, <1>6, <1>7 DEF IsHigh

\* A remote's half is one of the two lengths ProcessPeriod tells apart, unless it
\* is longer than twice the sync pulse.
LEMMA SentFits ==
  ASSUME TypeOK, Tolerated, syncLength = unit,
         NEW n \in Near(IF IsLong(sent) THEN 2 * unit ELSE unit), n <= 2 * unit
  PROVE  ~Invalid(n) /\ ((n > MaxShort) <=> IsLong(sent)) /\ ((n >= MinLong) <=> IsLong(sent))
<1>1. unit \in Nat /\ unit > 1 /\ 4 * Jitter <= unit /\ Jitter \in Nat
  BY UnitLength, Bounds DEF Tolerated, TypeOK
<1>2. /\ MinShort <= unit - Jitter /\ unit + Jitter <= MaxShort
      /\ MaxShort < MinLong /\ MinLong <= 2 * unit - Jitter /\ MaxLong = 2 * unit
  BY <1>1, Ranges DEF MinShort, MaxShort, MinLong, MaxLong
<1>3. MinShort \in Int /\ MaxShort \in Int /\ MinLong \in Int
  BY <1>1 DEF MinShort, MaxShort, MinLong
<1>. HIDE DEF MinShort, MaxShort, MinLong, MaxLong
<1>4. CASE IsLong(sent)
  <2>1. n \in (2 * unit - Jitter)..(2 * unit + Jitter)
    BY <1>4 DEF Near
  <2>2. n <= MaxLong /\ n >= MinLong /\ n > MaxShort /\ ~(n < MinShort) /\ ~(n < MinLong)
        /\ ~(n > MaxLong)
    BY <2>1, <1>1, <1>2, <1>3
  <2>. QED  BY <2>2, <1>4 DEF Invalid
<1>5. CASE ~IsLong(sent)
  <2>1. n \in (unit - Jitter)..(unit + Jitter)
    BY <1>5 DEF Near
  <2>2. ~(n >= MinLong) /\ ~(n > MaxShort) /\ ~(n < MinShort) /\ ~(n > MaxLong)
    BY <2>1, <1>1, <1>2, <1>3
  <2>. QED  BY <2>2, <1>5 DEF Invalid
<1>. QED  BY <1>4, <1>5

\* A decoder that has followed the frame goes on following it with the next sound
\* half, and reports the frame with the last one.
LEMMA HalfFollowed ==
  ASSUME DecoderInv, Tolerated, sent \in 1..Halves, Aligned,
         NEW n \in Near(IF IsLong(sent) THEN 2 * unit ELSE unit), n <= 2 * unit,
         ProcessPeriod(IsHigh(sent), n), frame' = frame, unit' = unit, sent' = sent + 1
  PROVE  /\ sent # Halves => Aligned' /\ report' = NoCode
         /\ sent = Halves => report' = frame /\ syncLength' = 0
<1>1. TypeOK /\ DecoderTypes /\ IsHigh(sent) \in BOOLEAN
  BY TypesOfDecoder DEF DecoderInv, IsHigh
<1>2. syncLength = unit /\ numBits = BitOf(sent) /\ bits = Received /\ syncLength # 0
  BY <1>1, HalvesOfBits, UnitLength DEF Aligned
<1>3. ~Invalid(n) /\ ((n > MaxShort) <=> IsLong(sent)) /\ ((n >= MinLong) <=> IsLong(sent))
  BY <1>1, <1>2, SentFits
<1>4. sent' - 1 = sent
  BY HalvesOfBits
<1>5. CASE ~IsHigh(sent)
  <2>1. LowHalf(n)
    BY <1>1, <1>2, <1>3, <1>5, ProcessCases
  <2>2. /\ syncLength' = unit' /\ numBits' = (sent' - 1) \div 2 /\ Received' = Received
        /\ bits' = Received' /\ report' = NoCode
    BY <2>1, <1>2, <1>4, <1>5, HalvesOfBits DEF LowHalf, Received
  <2>3. lowLong' = (n > MaxShort)
    BY <2>1 DEF LowHalf
  <2>4. IsLong(sent) \in BOOLEAN /\ (n > MaxShort) \in BOOLEAN
    BY DEF IsLong
  <2>5. IsLong(sent - 1)' <=> IsLong(sent)
    BY <1>4 DEF IsLong, IsHigh, BitOf
  <2>6. lowLong' = IsLong(sent - 1)'
    BY <2>3, <2>4, <2>5, <1>3 DEF IsLong
  <2>. QED  BY <2>2, <2>6, <1>5, HalvesOfBits DEF Aligned
<1>6. CASE IsHigh(sent)
  <2>1. BitOf(sent) \in 0..(NumBits - 1) /\ BitOf(sent - 1) = BitOf(sent) /\ ~IsHigh(sent - 1)
        /\ sent \div 2 = BitOf(sent) + 1
    BY <1>6, HalvesOfBits
  <2>2. (IsLong(sent) <=> BitOf(sent) \in frame) /\ (IsLong(sent - 1) <=> BitOf(sent) \notin frame)
        /\ IsLong(sent) \in BOOLEAN /\ IsLong(sent - 1) \in BOOLEAN
    <3>1. IsHigh(sent - 1) \in BOOLEAN /\ IsHigh(sent) \in BOOLEAN
      BY DEF IsHigh
    <3>2. IsLong(sent) <=> (IsHigh(sent) <=> BitOf(sent) \in frame)
      BY <3>1 DEF IsLong
    <3>3. IsLong(sent - 1) <=> (IsHigh(sent - 1) <=> BitOf(sent - 1) \in frame)
      BY <3>1 DEF IsLong
    <3>4. IsLong(sent) \in BOOLEAN /\ IsLong(sent - 1) \in BOOLEAN
      BY DEF IsLong
    <3>. QED  BY <3>2, <3>3, <3>4, <2>1, <1>6
  <2>3. lowLong <=> BitOf(sent) \notin frame
    BY <2>1, <2>2, Zenon DEF Aligned
  <2>4. lowLong \in BOOLEAN /\ (n >= MinLong) \in BOOLEAN
    BY <1>1 DEF DecoderTypes
  <2>5. ~(lowLong = (n >= MinLong))
    BY <2>2, <2>3, <2>4, <1>3, Zenon
  <2>6. HighHalf
    BY <2>5, <1>1, <1>2, <1>3, <1>6, ProcessCases
  <2>7. /\ numBits' = numBits + 1
        /\ numBits' < NumBits => report' = NoCode /\ syncLength' = syncLength
        /\ numBits' = NumBits => report' = bits' /\ syncLength' = 0
    BY <2>6, <1>1, <1>2, HighHalfTypes
  <2>8. bits' = IF BitOf(sent) \in frame THEN bits \cup {numBits} ELSE bits
    BY <2>3, <2>6 DEF HighHalf
  <2>9. frame \subseteq 0..(NumBits - 1)
    BY <1>1 DEF TypeOK, Codes
  <2>10. bits' = Received'
    <3>1. numBits \in 0..(NumBits - 1) /\ bits \subseteq 0..(NumBits - 1)
      BY <2>1, <2>9, <1>2 DEF Received
    <3>2. \A b \in 0..(NumBits - 1) : b < numBits + 1 <=> b < numBits \/ b = numBits
      BY <3>1, Bounds
    <3>3. \A b \in 0..(NumBits - 1) : b \in bits' <=> b \in frame /\ b < numBits + 1
      BY <3>1, <3>2, <2>8, <1>2 DEF Received
    <3>4. bits' \subseteq 0..(NumBits - 1)
      BY <3>1, <2>8
    <3>5. Received' = {b \in frame : b < numBits + 1}
      BY <2>7 DEF Received
    <3>. QED  BY <3>3, <3>4, <3>5, <2>9
  <2>11. numBits' = (sent' - 1) \div 2 /\ IsHigh(sent - 1)'
    BY <2>1, <2>7, <1>2, <1>4, <1>6 DEF IsHigh
  <2>12. CASE sent = Halves
    <3>1. numBits' = NumBits
      BY <2>1, <2>7, <2>12, <1>2, <1>6, HalvesOfBits
    <3>2. Received' = {b \in frame : b < NumBits}
      BY <3>1 DEF Received
    <3>3. \A b \in frame : b < NumBits
      BY <2>9, Bounds
    <3>. QED  BY <3>1, <3>2, <3>3, <2>7, <2>10, <2>12
  <2>13. CASE sent # Halves
    <3>1. numBits' < NumBits
      BY <2>1, <2>7, <2>13, <1>2, <1>6, HalvesOfBits, Bounds
    <3>. QED  BY <3>1, <2>7, <2>10, <2>11, <2>13, <1>2 DEF Aligned
  <2>. QED  BY <2>12, <2>13
<1>. QED  BY <1>1, <1>5, <1>6

\* A half longer than twice the sync pulse is dropped, with what came before it.
LEMMA OverlongDropped ==
  ASSUME TypeOK, syncLength = unit, NEW level \in BOOLEAN, NEW n \in Nat, n > 2 * unit,
         ProcessPeriod(level, n)
  PROVE  syncLength' = 0 /\ report' = NoCode
<1>1. syncLength # 0
  BY UnitLength
<1>2. Invalid(n)
  BY DEF Invalid, MaxLong
<1>. QED  BY <1>1, <1>2, ProcessCases DEF DropCode

-----------------------------------------------------------------------------
(* Undisturbed frames.                                                      *)

\* While the decoder looks for a sync pulse it only ever starts a code.
LEMMA Seeking ==
  ASSUME syncLength = 0, NEW level \in BOOLEAN, NEW length, ProcessPeriod(level, length)
  PROVE  /\ report' = NoCode
         /\ syncLength' # 0 => level /\ syncLength' = length /\ bits' = {} /\ numBits' = 0
         /\ /\ level /\ SyncMin < length /\ length < SyncMax /\ lastLength = Overlong
            => syncLength' = length /\ bits' = {} /\ numBits' = 0
BY ProcessCases DEF SeekSync

\* A code started at the frame's own sync pulse.
LEMMA StartedAligned ==
  ASSUME TypeOK, frame' = frame, unit' = unit, sent = 0, sent' = sent + 1,
         syncLength' = unit, bits' = {}, numBits' = 0
  PROVE  Aligned'
<1>1. sent' - 1 = 0 /\ 0 \div 2 = 0 /\ 0 % 2 = 0
  OBVIOUS
<1>2. IsHigh(sent - 1)' /\ numBits' = (sent' - 1) \div 2
  BY <1>1 DEF IsHigh
<1>3. frame \subseteq 0..(NumBits - 1)
  BY DEF TypeOK, Codes
<1>4. \A b \in frame : ~(b < 0)
  BY <1>3, Bounds
<1>5. Received' = {b \in frame : b < 0}
  BY DEF Received
<1>6. bits' = Received'
  BY <1>4, <1>5
<1>. QED  BY <1>2, <1>6 DEF Aligned

LEMMA InitClean == Init => CleanInv
BY InitDecoder DEF Init, CleanInv, Followed

LEMMA NextClean ==
  ASSUME CleanInv, [Next]_vars, Tolerated
  PROVE  CleanInv'
<1>1. DecoderInv /\ TypeOK /\ DecoderTypes /\ IsHigh(sent) \in BOOLEAN /\ clean \in BOOLEAN
  BY TypesOfDecoder DEF CleanInv, DecoderInv, TypeOK, IsHigh
<1>2. DecoderInv'
  BY <1>1, NextDecoder
<1>3. Halves \in Nat /\ Halves >= 2
  BY Bounds
<1>4. CASE Gap
  <2>1. PICK g \in Gaps : g \in Nat /\ g > Modulus /\ Half(FALSE, g, TRUE)
    BY <1>1, <1>4, RemoteSteps
  <2>2. /\ clean' => overflow' = 0
        /\ overflow' = 0 => lastLength' = Overlong
        /\ ProcessPeriod(FALSE, lastLength') /\ lastLength' \in 0..(Modulus - 1)
    BY <1>1, <2>1, HalfCases
  <2>3. Unfit(Overlong)
    BY Bounds DEF Unfit
  <2>4. clean' => syncLength' = 0
    BY <2>2, <2>3, <1>1, UnfitDropped
  <2>5. sent' = 0
    BY <1>4 DEF Gap
  <2>6. sent' \notin 1..Halves /\ sent' # Halves + 1
    BY <2>5, <1>3
  <2>. QED  BY <1>2, <2>2, <2>4, <2>5, <2>6 DEF CleanInv, Followed
<1>5. CASE BreakOff
  <2>1. ~clean'
    BY <1>5 DEF BreakOff
  <2>. QED  BY <2>1, <1>2 DEF CleanInv, Followed
<1>6. CASE SendSync
  <2>1. unit \in Nat /\ unit < Modulus /\ SyncMin < unit /\ unit < SyncMax
    BY <1>1, UnitLength
  <2>2. sent = 0 /\ sent' = 1 /\ Half(TRUE, unit, clean) /\ frame' = frame /\ unit' = unit
    BY <1>6 DEF SendSync
  <2>3. sent' = sent + 1
    BY <2>2
  <2>4. /\ clean' => clean /\ overflow' = 0
        /\ overflow = 0 => lastLength' = unit
        /\ ProcessPeriod(TRUE, lastLength')
    BY <1>1, <2>1, <2>2, HalfCases
  <2>5. ASSUME clean'
        PROVE  Aligned' /\ overflow' = 0
    <3>1. clean /\ overflow' = 0
      BY <2>4, <2>5
    <3>2. overflow = 0 /\ syncLength = 0 /\ lastLength = Overlong
      BY <3>1, <2>2 DEF CleanInv, Followed
    <3>3. syncLength' = unit /\ bits' = {} /\ numBits' = 0
      BY <3>2, <2>1, <2>4, Seeking
    <3>. QED  BY <3>1, <3>3, <2>2, <2>3, <1>1, StartedAligned
  <2>6. sent' # 0 /\ sent' # Halves + 1
    BY <2>2, <1>3
  <2>. QED  BY <1>2, <2>5, <2>6 DEF CleanInv, Followed
<1>7. CASE SendHalf
  <2>1. sent \in 1..Halves /\ sent' = sent + 1 /\ frame' = frame /\ unit' = unit
    BY <1>7 DEF SendHalf
  <2>2. PICK n \in Nat :
          /\ n \in Near(IF IsLong(sent) THEN 2 * unit ELSE unit) /\ n < Modulus
          /\ (n <= 2 * unit) \in BOOLEAN
          /\ Half(IsHigh(sent), n, clean /\ n <= 2 * unit)
    BY <1>1, <1>7, RemoteSteps
  <2>3. /\ clean' => clean /\ n <= 2 * unit /\ overflow' = 0
        /\ overflow = 0 => lastLength' = n
        /\ ProcessPeriod(IsHigh(sent), lastLength')
    BY <1>1, <2>2, HalfCases
  <2>4. ASSUME clean'
        PROVE  overflow' = 0 /\ (sent # Halves => Aligned') /\ (sent = Halves => report' = frame')
    <3>1. clean /\ n <= 2 * unit /\ overflow' = 0
      BY <2>3, <2>4
    <3>2. overflow = 0 /\ Aligned
      BY <3>1, <2>1 DEF CleanInv, Followed
    <3>3. ProcessPeriod(IsHigh(sent), n)
      BY <3>2, <2>3
    <3>4. (sent # Halves => Aligned') /\ (sent = Halves => report' = frame)
      BY <3>1, <3>2, <3>3, <2>1, <2>2, <1>1, HalfFollowed
    <3>. QED  BY <3>1, <3>4, <2>1
  <2>5. /\ sent' # 0 /\ (sent' \in 1..Halves => sent # Halves)
        /\ (sent' = Halves + 1 => sent = Halves)
    BY <2>1, <1>3
  <2>. QED  BY <1>2, <2>4, <2>5 DEF CleanInv, Followed
<1>8. CASE Spoilt
  <2>1. PICK level \in BOOLEAN, n \in Nat : Half(level, n, FALSE)
    BY <1>1, <1>8, RemoteSteps
  <2>2. clean' => FALSE
    BY <1>1, <2>1, HalfCases
  <2>. QED  BY <1>2, <2>2 DEF CleanInv, Followed
<1>9. CASE OutOfOrder
  <2>1. ~clean'
    BY <1>9 DEF OutOfOrder
  <2>. QED  BY <1>2, <2>1 DEF CleanInv, Followed
<1>10. CASE UNCHANGED vars
  BY <1>2, <1>10 DEF vars, decoderVars, CleanInv, Followed, Aligned, Received, IsLong, IsHigh, BitOf
<1>. QED  BY <1>4, <1>5, <1>6, <1>7, <1>8, <1>9, <1>10 DEF Next

\* The decoder follows an undisturbed frame half by half, wherever the timer's
\* overflows fall in it.
THEOREM CleanInvInductive == ASSUME Tolerated PROVE Spec => []CleanInv
<1>1. Init => CleanInv
  BY InitClean
<1>2. CleanInv /\ [Next]_vars => CleanInv'
  BY NextClean, Tolerated
<1>. QED  BY <1>1, <1>2, PTL DEF Spec

\* A frame that comes undisturbed, none of its halves being longer than twice its
\* sync pulse, is reported, whatever the decoder was doing before its gap, for
\* every remote whose jitter is otherwise a quarter of its sync pulse at the most.
\* The upper bound of a long half is the code's: ProcessPeriod drops a frame of
\* this remote at the first half that exceeds twice the sync pulse by one tick.
THEOREM CleanReported == ASSUME Tolerated PROVE Spec => []CleanFramesReported
<1>1. CleanInv => CleanFramesReported
  BY DEF CleanInv, Followed, CleanFramesReported
<1>. QED  BY <1>1, CleanInvInductive, PTL, Tolerated

-----------------------------------------------------------------------------
(* Only codes that were sent.                                               *)

\* A decoder that started inside the frame stays behind and reports nothing.
LEMMA StaysBehind ==
  ASSUME DecoderTypes, sent \in 1..Halves, syncLength # 0, numBits < BitOf(sent),
         NEW length, ProcessPeriod(IsHigh(sent), length), sent' = sent + 1
  PROVE  report' = NoCode /\ (syncLength' # 0 => numBits' < (sent' - 1) \div 2)
<1>1. IsHigh(sent) \in BOOLEAN
  BY DEF IsHigh
<1>2. /\ BitOf(sent) \in 0..(NumBits - 1) /\ sent' - 1 = sent
      /\ IsHigh(sent) => sent \div 2 = BitOf(sent) + 1
      /\ ~IsHigh(sent) => sent \div 2 = BitOf(sent)
  BY HalvesOfBits
<1>3. CASE DropCode
  BY <1>3 DEF DropCode
<1>4. CASE ~IsHigh(sent) /\ LowHalf(length)
  BY <1>2, <1>4 DEF LowHalf
<1>5. CASE IsHigh(sent) /\ HighHalf
  <2>1. /\ numBits' = numBits + 1
        /\ numBits' < NumBits => report' = NoCode /\ syncLength' = syncLength
    BY <1>5, HighHalfTypes
  <2>2. numBits \in 0..NumBits
    BY DEF DecoderTypes
  <2>. QED  BY <2>1, <2>2, <1>2, <1>5, Bounds
<1>. QED  BY <1>1, <1>3, <1>4, <1>5, ProcessCases

LEMMA LowReportsNothing ==
  ASSUME NEW length, ProcessPeriod(FALSE, length)
  PROVE  report' = NoCode
BY ProcessCases DEF SeekSync, DropCode, LowHalf

LEMMA InitFrame == Init => FrameInv
<1>1. Halves + 1 \notin 1..Halves /\ Halves + 1 # 0
  BY Bounds
<1>. QED  BY <1>1, InitDecoder DEF Init, FrameInv, Behind, OnlySentCodes

LEMMA NextFrame ==
  ASSUME FrameInv, [Next]_vars, Tolerated
  PROVE  FrameInv'
<1>1. DecoderInv /\ TypeOK /\ DecoderTypes /\ IsHigh(sent) \in BOOLEAN /\ clean \in BOOLEAN
  BY TypesOfDecoder DEF FrameInv, DecoderInv, TypeOK, IsHigh
<1>2. DecoderInv'
  BY <1>1, NextDecoder
<1>3. Halves \in Nat /\ Halves >= 2
  BY Bounds
<1>4. ASSUME syncLength' = 0, report' = NoCode
      PROVE  FrameInv'
  BY <1>2, <1>4 DEF FrameInv, Behind, OnlySentCodes
<1>5. ASSUME NEW level \in BOOLEAN, Unfit(lastLength'), ProcessPeriod(level, lastLength')
      PROVE  FrameInv'
  <2>1. lastLength' \in 0..(Modulus - 1)
    BY <1>2 DEF DecoderInv, TypeOK
  <2>. QED  BY <2>1, <1>1, <1>4, <1>5, UnfitDropped
<1>6. ASSUME disguised'
      PROVE  FrameInv'
  BY <1>2, <1>6 DEF FrameInv, OnlySentCodes
<1>7. CASE Gap
  <2>1. PICK g \in Gaps : g \in Nat /\ g > Modulus /\ Half(FALSE, g, TRUE)
    BY <1>1, <1>7, RemoteSteps
  <2>2. /\ overflow' = 0 => lastLength' = Overlong
        /\ ProcessPeriod(FALSE, lastLength')
    BY <1>1, <2>1, HalfCases
  <2>3. CASE overflow' = 0
    <3>1. Unfit(Overlong)
      BY Bounds DEF Unfit
    <3>. QED  BY <3>1, <2>2, <2>3, <1>5
  <2>4. CASE overflow' # 0
    <3>1. report' = NoCode
      BY <2>2, LowReportsNothing
    <3>2. sent' = 0
      BY <1>7 DEF Gap
    <3>3. sent' \notin 1..Halves
      BY <3>2, <1>3
    <3>. QED  BY <3>1, <3>3, <2>4, <1>2 DEF FrameInv, Behind, OnlySentCodes
  <2>. QED  BY <2>3, <2>4
<1>8. CASE BreakOff
  <2>1. sent \in 1..Halves /\ sent' = Halves + 1 /\ report' = report /\ disguised' = disguised
    BY <1>8 DEF BreakOff, decoderVars
  <2>2. sent # Halves + 1 /\ sent' # 0 /\ sent' \notin 1..Halves
    BY <2>1, <1>3
  <2>3. report # NoCode => disguised
    BY <2>1, <2>2 DEF FrameInv, OnlySentCodes
  <2>. QED  BY <2>1, <2>2, <2>3, <1>2 DEF FrameInv, Behind, OnlySentCodes
<1>9. CASE SendSync
  <2>1. unit \in Nat /\ unit < Modulus
    BY <1>1, UnitLength
  <2>2. sent = 0 /\ sent' = 1 /\ Half(TRUE, unit, clean) /\ frame' = frame /\ unit' = unit
        /\ disguised' = disguised
    BY <1>9 DEF SendSync
  <2>3. sent' = sent + 1 /\ sent' # 0
    BY <2>2
  <2>4. /\ overflow = 0 => lastLength' = unit
        /\ overflow # 0 => Unfit(lastLength')
        /\ ProcessPeriod(TRUE, lastLength')
    BY <1>1, <2>1, <2>2, HalfCases
  <2>5. CASE overflow # 0
    BY <2>4, <2>5, <1>5
  <2>7. CASE disguised
    BY <2>2, <2>7, <1>6
  <2>6. CASE overflow = 0 /\ ~disguised
    <3>1. syncLength = 0
      BY <2>2, <2>6 DEF FrameInv, Behind
    <3>2. report' = NoCode
      BY <3>1, <2>4, Seeking
    <3>3. CASE syncLength' = 0
      BY <3>2, <3>3, <1>4
    <3>4. CASE syncLength' # 0
      <4>1. syncLength' = unit /\ bits' = {} /\ numBits' = 0
        BY <3>1, <3>4, <2>4, <2>6, Seeking
      <4>2. Aligned'
        BY <4>1, <2>2, <2>3, <1>1, StartedAligned
      <4>. QED  BY <4>2, <3>2, <2>3, <1>2 DEF FrameInv, Behind, OnlySentCodes
    <3>. QED  BY <3>3, <3>4
  <2>. QED  BY <2>5, <2>6, <2>7
<1>10. CASE SendHalf
  <2>1. sent \in 1..Halves /\ sent' = sent + 1 /\ frame' = frame /\ unit' = unit
        /\ disguised' = disguised
    BY <1>10 DEF SendHalf
  <2>2. PICK n \in Nat :
          /\ n \in Near(IF IsLong(sent) THEN 2 * unit ELSE unit) /\ n < Modulus
          /\ (n <= 2 * unit) \in BOOLEAN
          /\ Half(IsHigh(sent), n, clean /\ n <= 2 * unit)
    BY <1>1, <1>10, RemoteSteps
  <2>3. /\ overflow = 0 => lastLength' = n
        /\ overflow # 0 => Unfit(lastLength')
        /\ ProcessPeriod(IsHigh(sent), lastLength')
    BY <1>1, <2>2, HalfCases
  <2>4. sent' # 0 /\ sent' - 1 = sent /\ (sent # Halves => sent' # Halves + 1)
        /\ (sent = Halves => sent' = Halves + 1)
    BY <2>1, <1>3
  <2>5. CASE overflow # 0
    BY <2>3, <2>5, <1>1, <1>5
  <2>6. CASE disguised
    BY <2>1, <2>6, <1>6
  <2>7. CASE overflow = 0 /\ syncLength = 0
    <3>1. report' = NoCode
      BY <2>3, <2>7, <1>1, Seeking
    <3>2. ASSUME syncLength' # 0
          PROVE  numBits' < (sent' - 1) \div 2
      <4>1. IsHigh(sent) /\ numBits' = 0
        BY <3>2, <2>3, <2>7, <1>1, Seeking
      <4>2. sent \div 2 = BitOf(sent) + 1 /\ BitOf(sent) \in 0..(NumBits - 1)
        BY <4>1, <2>1, HalvesOfBits
      <4>. QED  BY <4>1, <4>2, <2>4, Bounds
    <3>. QED  BY <3>1, <3>2, <2>4, <1>2 DEF FrameInv, Behind, OnlySentCodes
  <2>8. CASE overflow = 0 /\ syncLength # 0 /\ numBits < (sent - 1) \div 2
    <3>1. numBits < BitOf(sent)
      BY <2>8 DEF BitOf
    <3>2. report' = NoCode /\ (syncLength' # 0 => numBits' < (sent' - 1) \div 2)
      BY <3>1, <2>1, <2>3, <2>8, <1>1, StaysBehind
    <3>. QED  BY <3>2, <2>4, <1>2 DEF FrameInv, Behind, OnlySentCodes
  <2>9. CASE overflow = 0 /\ Aligned
    <3>1. ProcessPeriod(IsHigh(sent), n) /\ syncLength = unit
      BY <2>3, <2>9 DEF Aligned
    <3>2. CASE n <= 2 * unit
      <4>1. /\ sent # Halves => Aligned' /\ report' = NoCode
            /\ sent = Halves => report' = frame /\ syncLength' = 0
        BY <3>1, <3>2, <2>1, <2>2, <2>9, <1>1, HalfFollowed
      <4>. QED  BY <4>1, <2>1, <2>4, <1>2 DEF FrameInv, Behind, OnlySentCodes
    <3>3. CASE n > 2 * unit
      BY <3>1, <3>3, <1>1, <1>4, OverlongDropped
    <3>4. unit \in Nat
      BY <1>1, UnitLength
    <3>. QED  BY <3>2, <3>3, <3>4
  <2>. QED  BY <2>1, <2>5, <2>6, <2>7, <2>8, <2>9 DEF FrameInv, Behind
<1>11. CASE Spoilt
  <2>1. PICK level \in BOOLEAN, n \in Nat : Half(level, n, FALSE)
    BY <1>1, <1>11, RemoteSteps
  <2>2. ProcessPeriod(level, lastLength')
    BY <1>1, <2>1, HalfCases
  <2>3. disguised' = (disguised \/ ~Unfit(lastLength'))
    BY <1>11 DEF Spoilt
  <2>4. CASE Unfit(lastLength')
    BY <2>2, <2>4, <1>5
  <2>5. CASE ~Unfit(lastLength')
    <3>1. disguised'
      BY <2>3, <2>5, Zenon
    <3>. QED  BY <3>1, <1>6
  <2>. QED  BY <2>4, <2>5
<1>12. CASE OutOfOrder
  <2>1. Unfit(lastLength') /\ ProcessPeriod(FALSE, lastLength')
    BY <1>1, <1>12, WrongOrder
  <2>. QED  BY <2>1, <1>5
<1>13. CASE UNCHANGED vars
  BY <1>2, <1>13 DEF vars, decoderVars, FrameInv, Behind, OnlySentCodes, Aligned, Received,
                     IsLong, IsHigh, BitOf
<1>. QED  BY <1>7, <1>8, <1>9, <1>10, <1>11, <1>13, <1>12 DEF Next

\* A decoder that an overflow handled late sends looking for a sync pulse in the
\* middle of a frame stays behind it until the gap, unless noise was measured like
\* a half of the frame.
THEOREM FrameInvInductive == ASSUME Tolerated PROVE Spec => []FrameInv
<1>1. Init => FrameInv
  BY InitFrame
<1>2. FrameInv /\ [Next]_vars => FrameInv'
  BY NextFrame, Tolerated
<1>. QED  BY <1>1, <1>2, PTL DEF Spec

\* A code is reported only at the end of a frame and is the code of that frame,
\* for noise of any length, wherever edges are added, lost or served in the wrong
\* order, frames broken off and overflows handled late, unless since the gap noise
\* was measured like a half of a frame: the code has no checksum that could tell
\* then.
THEOREM OnlySentReported == ASSUME Tolerated PROVE Spec => []OnlySentCodes
<1>1. FrameInv => OnlySentCodes
  BY DEF FrameInv
<1>. QED  BY <1>1, FrameInvInductive, PTL, Tolerated

=============================================================================
