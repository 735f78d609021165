------------------------ MODULE PulsingOutputProofs ------------------------
(***************************************************************************)
(* Proofs about PulsingOutput, for any lengths: after a Reset the output is  *)
(* off but for the one interleaving that is recorded, and, where the main    *)
(* loop's passes are shorter than a pulse and pulses not longer than pauses,  *)
(* as in the firmware, every pulse and every pause has its length.           *)
(***************************************************************************)
EXTENDS PulsingOutput, TLAPS

\* Set works on an inactive output; it has driven the pin when it sets m_active.
\* Reset has the pin off unless a tick has switched it on in between.
Written ==
  /\ pc \in {"setPin", "setActive"} => ~active /\ elapsed <= MaxLag
  /\ pc = "setActive" => pin
  /\ pc = "resetActive" /\ ~raced => ~pin

IInv == TypeOK /\ Written /\ OffWhenReset

\* m_changedAt tells how long a pulse or a pause has lasted: a pause exactly, but
\* for the one Reset is just ending, and a pulse but for the age of Set's now.
Timed ==
  /\ pc = "setActive" \/ (active /\ pin) => width <= elapsed /\ elapsed <= width + MaxLag
  /\ active /\ pin => elapsed < PulseLen
  /\ active /\ ~pin => elapsed < PauseLen
  /\ active /\ ~pin /\ pc = "idle" => elapsed = width

-----------------------------------------------------------------------------

LEMMA Lengths == /\ PulseLen \in Nat /\ CycleLen \in Nat /\ MaxLag \in Nat
                 /\ PulseLen > 0 /\ PauseLen \in Nat /\ PauseLen > 0
                 /\ PulseLen < CycleLen /\ PauseLen < CycleLen
                 /\ Longest = CycleLen + MaxLag
BY PulseAssumption DEF PauseLen, Longest

\* What a tick does, by whether it ends a pulse, a pause, or nothing.
LEMMA TickCases ==
  ASSUME TypeOK, Tick
  PROVE  /\ pc' = pc /\ active' = active
         /\ pc \in {"setPin", "setActive"} => elapsed < MaxLag
         /\ PulseEnds => /\ elapsed' = elapsed + 1 - PulseLen /\ pin' = FALSE /\ width' = 0
                         /\ raced' = raced
         /\ PauseEnds => /\ elapsed' = elapsed + 1 - PauseLen /\ pin' = TRUE /\ width' = 0
                         /\ raced' = (raced \/ pc = "resetActive")
         /\ ~PulseEnds /\ ~PauseEnds =>
              /\ elapsed' = Capped(elapsed + 1) /\ width' = Capped(width + 1)
              /\ pin' = pin /\ raced' = raced
<1>1. pin \in BOOLEAN /\ raced \in BOOLEAN
  BY DEF TypeOK
<1>2. pc' = pc /\ active' = active /\ (pc \in {"setPin", "setActive"} => elapsed < MaxLag)
  BY DEF Tick
<1>3. raced' = (raced \/ (pc = "resetActive" /\ PauseEnds))
  BY DEF Tick
<1>4. CASE PulseEnds
  <2>1. pin = TRUE /\ ~PauseEnds
    BY <1>1, <1>4 DEF PulseEnds, PauseEnds
  <2>2. elapsed' = elapsed + 1 - PulseLen /\ pin' = FALSE
    BY <1>4, <2>1 DEF Tick
  <2>3. width' = 0
    BY <2>1, <2>2 DEF Tick
  <2>4. raced' = raced
    BY <1>1, <1>3, <2>1, Zenon
  <2> QED BY <1>2, <1>4, <2>1, <2>2, <2>3, <2>4
<1>5. CASE PauseEnds
  <2>1. pin = FALSE /\ ~PulseEnds
    BY <1>1, <1>5 DEF PulseEnds, PauseEnds
  <2>2. elapsed' = elapsed + 1 - PauseLen /\ pin' = TRUE
    BY <1>5, <2>1 DEF Tick
  <2>3. width' = 0
    BY <2>1, <2>2 DEF Tick
  <2>4. raced' = (raced \/ pc = "resetActive")
    BY <1>1, <1>3, <1>5, Zenon
  <2> QED BY <1>2, <1>5, <2>1, <2>2, <2>3, <2>4
<1>6. CASE ~PulseEnds /\ ~PauseEnds
  <2>1. elapsed' = Capped(elapsed + 1) /\ pin' = pin
    BY <1>6 DEF Tick
  <2>2. width' = Capped(width + 1)
    BY <2>1 DEF Tick
  <2>3. raced' = raced
    BY <1>1, <1>3, <1>6, Zenon
  <2> QED BY <1>2, <1>6, <2>1, <2>2, <2>3
<1> QED BY <1>4, <1>5, <1>6

LEMMA TypeStep == TypeOK /\ [Next]_vars => TypeOK'
<1> SUFFICES ASSUME TypeOK, [Next]_vars PROVE TypeOK'
  OBVIOUS
<1>1. CASE Tick
  <2>0. elapsed \in 0..Longest /\ width \in 0..Longest /\ pin \in BOOLEAN /\ raced \in BOOLEAN
    BY DEF TypeOK
  <2>1. CASE PulseEnds
    <3>1. elapsed + 1 >= PulseLen
      BY <2>1 DEF PulseEnds
    <3>2. elapsed' = elapsed + 1 - PulseLen /\ width' = 0 /\ pin' = FALSE /\ raced' = raced
      BY <1>1, <2>1, TickCases
    <3>3. elapsed' \in 0..Longest /\ width' \in 0..Longest
      BY <2>0, <3>1, <3>2, Lengths
    <3> QED BY <1>1, <2>0, <3>2, <3>3, TickCases DEF TypeOK
  <2>2. CASE PauseEnds
    <3>1. elapsed + 1 >= PauseLen
      BY <2>2 DEF PauseEnds
    <3>2. /\ elapsed' = elapsed + 1 - PauseLen /\ width' = 0 /\ pin' = TRUE
          /\ raced' = (raced \/ pc = "resetActive")
      BY <1>1, <2>2, TickCases
    <3>3. elapsed' \in 0..Longest /\ width' \in 0..Longest
      BY <2>0, <3>1, <3>2, Lengths
    <3>4. raced' \in BOOLEAN
      BY <3>2
    <3> QED BY <1>1, <2>0, <3>2, <3>3, <3>4, TickCases DEF TypeOK
  <2>3. CASE ~PulseEnds /\ ~PauseEnds
    <3>1. /\ elapsed' = Capped(elapsed + 1) /\ width' = Capped(width + 1)
          /\ pin' = pin /\ raced' = raced
      BY <1>1, <2>3, TickCases
    <3>2. elapsed' \in 0..Longest /\ width' \in 0..Longest
      BY <2>0, <3>1, Lengths DEF Capped
    <3> QED BY <1>1, <2>0, <3>1, <3>2, TickCases DEF TypeOK
  <2> QED BY <2>1, <2>2, <2>3
<1>2. CASE ~Tick
  <2>1. elapsed' \in 0..Longest /\ width' \in 0..Longest
    BY <1>2, Lengths
    DEF TypeOK, Next, SetTimes, SetPin, SetActive, ResetPin, ResetActive, Drive, vars
  <2>2. /\ pc' \in {"idle", "setPin", "setActive", "resetActive"}
        /\ active' \in BOOLEAN /\ pin' \in BOOLEAN /\ raced' \in BOOLEAN
    BY <1>2 DEF TypeOK, Next, SetTimes, SetPin, SetActive, ResetPin, ResetActive, Drive, vars
  <2> QED BY <2>1, <2>2 DEF TypeOK
<1> QED BY <1>1, <1>2

\* The tick that would leave the output on after a Reset is always recorded.
LEMMA InvStep == IInv /\ [Next]_vars => IInv'
<1> SUFFICES ASSUME IInv, [Next]_vars PROVE Written' /\ OffWhenReset'
  BY TypeStep DEF IInv
<1> USE DEF IInv, Written, OffWhenReset
<1>1. CASE \E lag \in 0..MaxLag : SetTimes(lag)
  BY <1>1, Lengths DEF SetTimes, TypeOK
<1>2. CASE SetPin \/ SetActive \/ ResetPin \/ ResetActive \/ UNCHANGED vars
  BY <1>2 DEF SetPin, SetActive, ResetPin, ResetActive, Drive, vars, TypeOK
<1>3. CASE Tick
  <2>1. CASE PulseEnds \/ PauseEnds
    <3>1. active /\ pc \notin {"setPin", "setActive"}
      BY <2>1 DEF PulseEnds, PauseEnds
    <3> QED BY <1>3, <2>1, <3>1, TickCases
  <2>2. CASE ~PulseEnds /\ ~PauseEnds
    <3>1. /\ pc' = pc /\ active' = active /\ pin' = pin /\ raced' = raced
          /\ pc \in {"setPin", "setActive"} => elapsed < MaxLag
          /\ elapsed' = Capped(elapsed + 1)
      BY <1>3, <2>2, TickCases
    <3>2. elapsed \in Nat
      BY Lengths DEF TypeOK
    <3>3. pc \in {"setPin", "setActive"} => elapsed' <= MaxLag
      BY <3>1, <3>2, Lengths DEF Capped
    <3> QED BY <3>1, <3>3
  <2> QED BY <2>1, <2>2
<1> QED BY <1>1, <1>2, <1>3 DEF Next

\* Types, and what Set and Reset leave behind at each of their writes.
THEOREM OutputInductive == Spec => []IInv
<1>1. Init => IInv
  <2>1. 0 \in 0..Longest
    BY Lengths
  <2>2. Init => TypeOK
    BY <2>1, Zenon DEF Init, TypeOK
  <2> QED BY <2>2 DEF Init, IInv, Written, OffWhenReset
<1> QED BY <1>1, InvStep, PTL DEF Spec

\* Where the output and its caller are, and how far its clock has run.
THEOREM OutputTypes == Spec => []TypeOK
<1>1. IInv => TypeOK
  BY DEF IInv
<1> QED BY <1>1, OutputInductive, PTL

\* The output is off after a Reset, but for a tick between its two writes.
THEOREM OffAfterReset == Spec => []OffWhenReset
<1>1. IInv => OffWhenReset
  BY DEF IInv
<1> QED BY <1>1, OutputInductive, PTL

-----------------------------------------------------------------------------

LEMMA TimedStep ==
  ASSUME MaxLag < PulseLen, PulseLen <= PauseLen, IInv, Timed, [Next]_vars
  PROVE  Timed'
<1>1. CASE \E lag \in 0..MaxLag : SetTimes(lag)
  BY <1>1 DEF SetTimes, Timed
<1>2. CASE SetPin
  BY <1>2, Lengths DEF SetPin, Drive, Timed, IInv, TypeOK, Written
<1>3. CASE SetActive
  BY <1>3, Lengths DEF SetActive, Timed, IInv, TypeOK, Written
<1>4. CASE ResetPin
  BY <1>4, Lengths DEF ResetPin, Drive, Timed, IInv, TypeOK
<1>5. CASE ResetActive \/ UNCHANGED vars
  BY <1>5 DEF ResetActive, Timed, vars
<1>6. CASE Tick
  <2>0. TypeOK /\ Written /\ elapsed \in Nat /\ width \in Nat /\ elapsed <= Longest
    BY Lengths DEF IInv, TypeOK
  <2>1. CASE PulseEnds
    <3>1. active /\ pin /\ elapsed + 1 = PulseLen
      BY <2>0, <2>1, Lengths DEF PulseEnds, Timed
    <3>2. active' = active /\ pc' = pc /\ pin' = FALSE /\ elapsed' = 0 /\ width' = 0 /\ pc # "setActive"
      BY <1>6, <2>0, <2>1, <3>1, TickCases, Lengths DEF Written
    <3> QED BY <3>2, Lengths DEF Timed
  <2>2. CASE PauseEnds
    <3>1. active /\ ~pin /\ elapsed + 1 = PauseLen
      BY <2>0, <2>2, Lengths DEF PauseEnds, Timed
    <3>2. active' = active /\ pc' = pc /\ pin' = TRUE /\ elapsed' = 0 /\ width' = 0
      BY <1>6, <2>0, <2>2, <3>1, TickCases, Lengths
    <3> QED BY <3>2, Lengths DEF Timed
  <2>3. CASE ~PulseEnds /\ ~PauseEnds
    <3>1. /\ active' = active /\ pc' = pc /\ pin' = pin
          /\ elapsed' = Capped(elapsed + 1) /\ width' = Capped(width + 1)
      BY <1>6, <2>0, <2>3, TickCases
    <3>2. active \/ pc = "setActive" => elapsed + 1 <= Longest /\ elapsed' = elapsed + 1
      BY <1>6, <2>0, <2>3, <3>1, TickCases, Lengths DEF Capped, Timed, Written, PulseEnds, PauseEnds
    <3>3. width <= elapsed /\ (active \/ pc = "setActive") => width' = width + 1
      BY <2>0, <3>1, <3>2, Lengths DEF Capped
    <3>4. /\ active /\ pin => elapsed + 1 < PulseLen
          /\ active /\ ~pin => elapsed + 1 < PauseLen
      BY <2>0, <2>3, Lengths DEF PulseEnds, PauseEnds
    <3> QED BY <2>0, <3>1, <3>2, <3>3, <3>4, Lengths DEF Timed
  <2> QED BY <2>1, <2>2, <2>3
<1> QED BY <1>1, <1>2, <1>3, <1>4, <1>5, <1>6 DEF Next

\* A pulse lasts PulseLen ticks, less at most the age of the time it was started
\* with, and a pause exactly PauseLen, if a pass of the main loop is shorter than
\* a pulse and a pulse not longer than a pause.
THEOREM PulsesKeepShape ==
  ASSUME MaxLag < PulseLen, PulseLen <= PauseLen
  PROVE  Spec => PulseShape
<1>1. Init => Timed
  BY DEF Init, Timed
<1>2. IInv /\ Timed /\ [Next]_vars => Timed'
  BY TimedStep
<1>3. IInv /\ Timed /\ [Next]_vars =>
        [Tick => /\ PulseEnds => width + 1 \in (PulseLen - MaxLag)..PulseLen
                 /\ PauseEnds => width + 1 = PauseLen \/ pc = "resetActive"]_vars
  <2> SUFFICES ASSUME IInv, Timed
               PROVE  /\ PulseEnds => width + 1 \in (PulseLen - MaxLag)..PulseLen
                      /\ PauseEnds => width + 1 = PauseLen \/ pc = "resetActive"
    OBVIOUS
  <2>1. elapsed \in Nat /\ width \in Nat /\ pc \in {"idle", "setPin", "setActive", "resetActive"}
    BY Lengths DEF IInv, TypeOK
  <2>2. active => pc \in {"idle", "resetActive"}
    BY <2>1 DEF IInv, Written
  <2> QED BY <2>1, <2>2, Lengths DEF Timed, PulseEnds, PauseEnds
<1> QED BY <1>1, <1>2, <1>3, OutputInductive, PTL DEF Spec, PulseShape
=============================================================================
