------------------------------- MODULE Radio -------------------------------
(***************************************************************************)
(* RFDecoder: the capture interrupt measures each half of a period on a free *)
(* running 16 bit timer, the update interrupt counts the timer's overflows,  *)
(* and ProcessPeriod puts a code together from the lengths.                  *)
(*                                                                         *)
(* The capture interrupt has the higher priority: an edge that follows an    *)
(* overflow closely is handled before it, or in the middle of its handler,   *)
(* and the overflow then counts for the next half.  A remote sends frames: a *)
(* gap, a sync pulse, and per bit a low and a high half, of which one is     *)
(* long.  Noise may come at any time: it ends a half early or late, adds     *)
(* edges, and comes too fast for the handler, which then loses an edge or    *)
(* takes two in the wrong order.  The timer and the lengths are scaled down  *)
(* together.                                                                 *)
(***************************************************************************)
EXTENDS Integers

CONSTANTS
  Modulus,   \* 2^16, the timer's period
  MaxOverflow,  \* 0xff, where m_overflow stops
  SyncMin, SyncMax,  \* SYNCLENGTH_MIN, SYNCLENGTH_MAX
  NumBits,   \* the bits of a code, 12
  Latency,   \* bound: how long an edge or an overflow waits for its handler
  Syncs,     \* the lengths of a sync pulse
  Jitter,    \* how much a half may differ from the sync pulse or from twice that
  Gaps,      \* the lengths of the gap between frames
  Noise      \* the lengths between two edges where there is noise

ASSUME RadioAssumption ==
  /\ NumBits \in Nat \ {0} /\ Latency \in Nat
  /\ Modulus \in Nat /\ MaxOverflow \in Nat /\ MaxOverflow > 1
  /\ SyncMin \in Nat \ {0} /\ SyncMax \in Nat
  /\ 2 * SyncMax + Latency <= Modulus /\ 2 * SyncMax + SyncMin <= Modulus
  /\ 2 * Latency <= SyncMin
  /\ Syncs \subseteq (SyncMin + 1)..(SyncMax - 1)
  /\ Jitter \in 0..SyncMin
  /\ Gaps \subseteq Nat /\ \A g \in Gaps : g > Modulus
  /\ Noise \subseteq Nat

VARIABLES
  lastCapture,  \* m_lastCapture: the timer at the last edge
  lastLength,   \* m_lastLength
  overflow,     \* m_overflow at the last edge, once its interrupts are over
  syncLength,   \* m_syncLength
  lowLong,      \* m_lowLong
  bits,         \* m_code, the bits received, as the set of those that are 1
  numBits,      \* m_bits
  report,       \* the code of a CodeReceived in this step
  frame,        \* the code the remote sends
  unit,         \* the length of its sync pulse
  sent,         \* the halves of the frame that are sent
  clean,        \* history: since the gap no noise, no overflow handled late, and no
                \* half of more than twice the sync pulse
  disguised     \* history: since the gap noise was measured like a half of a frame

decoderVars == <<syncLength, lowLong, bits, numBits, report>>
vars == <<lastCapture, lastLength, overflow, decoderVars, frame, unit, sent, clean, disguised>>

Overlong == Modulus - 1
Codes == SUBSET (0..(NumBits - 1))
NoCode == {NumBits}

-----------------------------------------------------------------------------
(* ProcessPeriod.                                                           *)

MinShort == syncLength \div 2
MaxShort == syncLength + (syncLength \div 4)
MinLong == syncLength + (syncLength \div 2) - (syncLength \div 8)
MaxLong == 2 * syncLength

Invalid(length) ==
  length < MinShort \/ (length > MaxShort /\ length < MinLong) \/ length > MaxLong

SeekSync(level, length) ==
  /\ IF level /\ SyncMin < length /\ length < SyncMax /\ lastLength = Overlong
       THEN syncLength' = length /\ bits' = {} /\ numBits' = 0
       ELSE UNCHANGED <<syncLength, bits, numBits>>
  /\ report' = NoCode
  /\ UNCHANGED lowLong

\* Mutant: a code goes on behind an invalid half.
DropPeriodOnly == report' = NoCode /\ UNCHANGED <<syncLength, lowLong, bits, numBits>>

\* An invalid length: back to sync seek.
DropCode ==
  /\ syncLength' = 0
  /\ report' = NoCode
  /\ UNCHANGED <<lowLong, bits, numBits>>

LowHalf(length) ==
  /\ lowLong' = (length > MaxShort)
  /\ report' = NoCode
  /\ UNCHANGED <<syncLength, bits, numBits>>

\* Mutant: one bit too many is waited for.
HighHalfOneMore ==
  /\ bits' = IF lowLong THEN bits ELSE bits \cup {numBits}
  /\ numBits' = numBits + 1
  /\ IF numBits' > NumBits
       THEN report' = bits' /\ syncLength' = 0
       ELSE report' = NoCode /\ UNCHANGED syncLength
  /\ UNCHANGED lowLong

\* A short low half and a long high one are a 1.
HighHalf ==
  /\ bits' = IF lowLong THEN bits ELSE bits \cup {numBits}
  /\ numBits' = numBits + 1
  /\ IF numBits' = NumBits
       THEN report' = bits' /\ syncLength' = 0
       ELSE report' = NoCode /\ UNCHANGED syncLength
  /\ UNCHANGED lowLong

ProcessPeriod(level, length) ==
  CASE syncLength = 0 -> SeekSync(level, length)
    [] syncLength # 0 /\ Invalid(length) -> DropCode
    [] syncLength # 0 /\ ~Invalid(length) /\ ~level -> LowHalf(length)
    [] OTHER -> IF lowLong = (length >= MinLong) THEN DropCode ELSE HighHalf

-----------------------------------------------------------------------------
(* CaptureCallback and PeriodEllapsed.                                      *)

\* Mutant: any overflow makes a half overlong.
MeasuredAnyOverflow(capture, seen) ==
  IF seen > 0 THEN Overlong ELSE (capture - lastCapture) % Modulus

\* The length of a half with seen overflows counted in it.
Measured(capture, seen) ==
  IF seen > 1 \/ (seen = 1 /\ capture > lastCapture)
    THEN Overlong
    ELSE (capture - lastCapture) % Modulus

\* The overflows counted after as many as n, and those the decoder goes on with
\* where a capture interrupts the handler of the last one: before it has begun,
\* between its test of the update flag, which the capture's handler then serves
\* too, and its reset, or between its test of m_overflow and the end of ++.
Counted(n) == IF n < MaxOverflow THEN n ELSE MaxOverflow
CountedLate(seen) == {1, 2, IF seen < MaxOverflow THEN seen + 1 ELSE 0}

\* Some time after the edge before, the input's level ends.  All overflows have
\* been counted, or the last one follows, or the one that was late still waits.
Half(level, length, undisturbed) ==
  LET time == lastCapture + length
      capture == time % Modulus
      wraps == time \div Modulus
  IN /\ \/ /\ lastLength' = Measured(capture, Counted(overflow + wraps))
           /\ overflow' = 0
           /\ clean' = undisturbed
        \/ /\ wraps > 0 /\ capture < Latency
           /\ LET seen == Counted(overflow + wraps - 1)
              IN lastLength' = Measured(capture, seen) /\ overflow' \in CountedLate(seen)
           /\ clean' = FALSE
        \/ /\ wraps = 0 /\ capture < Latency /\ overflow # 0
           /\ lastLength' = Measured(capture, 0)
           /\ UNCHANGED overflow
           /\ clean' = FALSE
     /\ ProcessPeriod(level, lastLength')
     /\ lastCapture' = capture

-----------------------------------------------------------------------------
(* The remote.                                                              *)

Halves == 2 * NumBits
Near(n) == (n - Jitter)..(n + Jitter)
\* Half k of the frame, the sync pulse being half 0.
BitOf(k) == (k - 1) \div 2
IsHigh(k) == k % 2 = 0
IsLong(k) == IsHigh(k) = (BitOf(k) \in frame)

\* The gap ends with the sync pulse's first edge.
Gap ==
  /\ sent = Halves + 1
  /\ sent' = 0
  /\ frame' \in Codes /\ unit' \in Syncs
  /\ \E g \in Gaps : Half(FALSE, g, TRUE)
  /\ disguised' = FALSE

\* A frame may break off.
BreakOff ==
  /\ sent \in 1..Halves /\ IsHigh(sent - 1)
  /\ sent' = Halves + 1
  /\ clean' = FALSE
  /\ UNCHANGED <<lastCapture, lastLength, overflow, decoderVars, frame, unit, disguised>>

SendSync ==
  /\ sent = 0
  /\ sent' = 1
  /\ Half(TRUE, unit, clean)
  /\ UNCHANGED <<frame, unit, disguised>>

SendHalf ==
  /\ sent \in 1..Halves
  /\ sent' = sent + 1
  /\ \E n \in Near(IF IsLong(sent) THEN 2 * unit ELSE unit) :
        Half(IsHigh(sent), n, clean /\ n <= 2 * unit)
  /\ UNCHANGED <<frame, unit, disguised>>

\* A length that is no sync pulse, and fits behind none.
Unfit(length) == 2 * length < SyncMin \/ length >= 2 * SyncMax - 1

\* Noise makes an edge, in the gap too.  Behind it the remote's level is the same,
\* or the next; where edges came too fast and one was lost, either level ended.
Spoilt ==
  /\ sent' \in {sent, IF sent > Halves THEN sent ELSE sent + 1}
  /\ \E level \in BOOLEAN, n \in Noise : Half(level, n, FALSE)
  /\ disguised' = (disguised \/ ~Unfit(lastLength'))
  /\ UNCHANGED <<frame, unit>>

\* HAL_TIM_IRQHandler finds both captures and serves the fall first: the rise is
\* measured from the fall that came after it.  An overflow in between is counted
\* behind both.
OutOfOrder ==
  /\ ~clean
  /\ \E ago \in 1..Latency :
       /\ lastLength' = (Modulus - ago) % Modulus
       /\ lastCapture' = (lastCapture - ago) % Modulus
       /\ overflow' = IF lastCapture < ago THEN 0 ELSE overflow
  /\ ProcessPeriod(FALSE, lastLength')
  /\ UNCHANGED <<frame, unit, sent, clean, disguised>>

Init ==
  /\ lastCapture = 0 /\ lastLength = 0 /\ overflow = 0
  /\ syncLength = 0 /\ lowLong = FALSE /\ bits = {} /\ numBits = 0
  /\ report = NoCode
  /\ frame = {} /\ unit \in Syncs /\ sent = Halves + 1
  /\ clean = FALSE /\ disguised = FALSE

Next == Gap \/ BreakOff \/ SendSync \/ SendHalf \/ Spoilt \/ OutOfOrder

Spec == Init /\ [][Next]_vars

-----------------------------------------------------------------------------
(* Properties.                                                              *)

TypeOK ==
  /\ lastCapture \in 0..(Modulus - 1) /\ lastLength \in 0..(Modulus - 1)
  /\ overflow \in 0..MaxOverflow
  /\ syncLength \in {0} \cup (SyncMin + 1)..(SyncMax - 1)
  /\ lowLong \in BOOLEAN /\ bits \in Codes /\ numBits \in 0..NumBits
  /\ syncLength # 0 => numBits < NumBits
  /\ report \in Codes \cup {NoCode}
  /\ frame \in Codes /\ unit \in Syncs /\ sent \in 0..(Halves + 1)
  /\ clean \in BOOLEAN /\ disguised \in BOOLEAN

\* Unless noise was measured like a half of a frame, which no checksum can tell, a
\* code is reported at the end of a frame only and is the code of that frame: even
\* where a frame breaks off, and where an overflow handled late makes a gap inside
\* a frame and the decoder takes a half in its middle for a sync pulse.
OnlySentCodes == report # NoCode => disguised \/ (sent = Halves + 1 /\ report = frame)

\* A frame that comes undisturbed is reported, wherever the timer's overflows fall
\* in it and whatever the decoder was doing before, if none of its halves is longer
\* than twice its sync pulse: ProcessPeriod drops the frame then.
CleanFramesReported == sent = Halves + 1 /\ clean => report = frame
=============================================================================
