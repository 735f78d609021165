--------------------------- MODULE PulsingOutput ---------------------------
(***************************************************************************)
(* The gate opener output: PulsingOutput, driven by the main loop (Set and  *)
(* Reset, from ChangeState) and by the SysTick interrupt (Tick).            *)
(*                                                                         *)
(* The main loop only sets an inactive output and only resets it otherwise; *)
(* it writes the fields of the object one by one, with interrupts enabled,  *)
(* so SysTick may run between any two of its writes.  The `now` it passes   *)
(* to Set was read at the top of its pass, before the database was read and *)
(* the decision logged: it is up to MaxLag ticks old.                       *)
(*                                                                         *)
(* Time is relative: `elapsed` is now - m_changedAt as the next Tick (or    *)
(* the current one) reads it.                                               *)
(***************************************************************************)
EXTENDS Integers

CONSTANTS
  PulseLen,   \* m_pulseLen, 500 ms in the firmware
  CycleLen,   \* m_cycleLen, 1500 ms in the firmware
  MaxLag      \* the oldest `now` handed to Set, in ticks

ASSUME PulseAssumption == /\ PulseLen \in Nat \ {0}
                          /\ CycleLen \in Nat
                          /\ CycleLen > PulseLen
                          /\ MaxLag \in Nat

VARIABLES
  pc,       \* where the main loop is in Set or Reset
  active,   \* m_active
  pin,      \* the output is driven active
  elapsed,  \* now - m_changedAt
  width,    \* history: ticks since the output was last switched or driven
  raced     \* history: SysTick switched the output on inside the last Reset

vars == <<pc, active, pin, elapsed, width, raced>>

PauseLen == CycleLen - PulseLen
Longest == CycleLen + MaxLag
Capped(n) == IF n > Longest THEN Longest ELSE n

\* HAL_GPIO_WritePin drives the output; a pulse or a pause starts over.
Drive(on) == pin' = on /\ width' = 0

-----------------------------------------------------------------------------
(* Set(PulseLen, CycleLen, now).                                            *)

\* The lengths and m_changedAt = now, which is lag ticks in the past.
SetTimes(lag) ==
  /\ pc = "idle" /\ ~active
  /\ pc' = "setPin"
  /\ elapsed' = lag
  /\ raced' = FALSE
  /\ UNCHANGED <<active, pin, width>>

SetPin ==
  /\ pc = "setPin"
  /\ pc' = "setActive"
  /\ Drive(TRUE)
  /\ UNCHANGED <<active, elapsed, raced>>

SetActive ==
  /\ pc = "setActive"
  /\ pc' = "idle"
  /\ active' = TRUE
  /\ UNCHANGED <<pin, elapsed, width, raced>>

-----------------------------------------------------------------------------
(* Reset().                                                                 *)

\* Mutant: Reset only clears m_active.
ResetPinLeftAlone ==
  /\ pc = "idle"
  /\ pc' = "resetActive"
  /\ raced' = (~active /\ raced)
  /\ UNCHANGED <<active, pin, elapsed, width>>

ResetPin ==
  /\ pc = "idle"
  /\ pc' = "resetActive"
  /\ Drive(FALSE)
  /\ raced' = (~active /\ raced)
  /\ UNCHANGED <<active, elapsed>>

ResetActive ==
  /\ pc = "resetActive"
  /\ pc' = "idle"
  /\ active' = FALSE
  /\ UNCHANGED <<pin, elapsed, width, raced>>

-----------------------------------------------------------------------------
(* Tick(now), in the SysTick interrupt: one more millisecond.  While Set is *)
(* under way the age of `now` is still bounded by MaxLag.                   *)

PulseEnds == active /\ pin /\ elapsed + 1 >= PulseLen
\* Mutant: the pause is as long as the pulse.
PauseEndsLikePulse == active /\ ~pin /\ elapsed + 1 >= PulseLen

PauseEnds == active /\ ~pin /\ elapsed + 1 >= PauseLen

\* Mutant: m_changedAt moves by the whole cycle at the end of a pause.
TickMovesCycle ==
  /\ pc \in {"setPin", "setActive"} => elapsed < MaxLag
  /\ elapsed' = CASE PulseEnds -> elapsed + 1 - PulseLen
                  [] PauseEnds -> elapsed + 1 - CycleLen
                  [] OTHER -> Capped(elapsed + 1)
  /\ pin' = CASE PulseEnds -> FALSE
              [] PauseEnds -> TRUE
              [] OTHER -> pin
  /\ width' = IF pin' = pin THEN Capped(width + 1) ELSE 0
  /\ raced' = (raced \/ (pc = "resetActive" /\ PauseEnds))
  /\ UNCHANGED <<pc, active>>

\* Mutant: the output pulses once.
TickOnce ==
  /\ pc \in {"setPin", "setActive"} => elapsed < MaxLag
  /\ elapsed' = IF PulseEnds THEN elapsed + 1 - PulseLen ELSE Capped(elapsed + 1)
  /\ pin' = (pin /\ ~PulseEnds)
  /\ width' = IF pin' = pin THEN Capped(width + 1) ELSE 0
  /\ UNCHANGED <<pc, active, raced>>

\* m_changedAt moves by the nominal length, not to now.
Tick ==
  /\ pc \in {"setPin", "setActive"} => elapsed < MaxLag
  /\ elapsed' = CASE PulseEnds -> elapsed + 1 - PulseLen
                  [] PauseEnds -> elapsed + 1 - PauseLen
                  [] OTHER -> Capped(elapsed + 1)
  /\ pin' = CASE PulseEnds -> FALSE
              [] PauseEnds -> TRUE
              [] OTHER -> pin
  /\ width' = IF pin' = pin THEN Capped(width + 1) ELSE 0
  /\ raced' = (raced \/ (pc = "resetActive" /\ PauseEnds))
  /\ UNCHANGED <<pc, active>>

-----------------------------------------------------------------------------

Init ==
  /\ pc = "idle"
  /\ active = FALSE
  /\ pin = FALSE
  /\ elapsed = 0
  /\ width = 0
  /\ raced = FALSE

Next ==
  \/ \E lag \in 0..MaxLag : SetTimes(lag)
  \/ SetPin
  \/ SetActive
  \/ ResetPin
  \/ ResetActive
  \/ Tick

Spec == Init /\ [][Next]_vars /\ WF_vars(Tick)

-----------------------------------------------------------------------------
(* Properties.                                                              *)

TypeOK ==
  /\ pc \in {"idle", "setPin", "setActive", "resetActive"}
  /\ active \in BOOLEAN
  /\ pin \in BOOLEAN
  /\ elapsed \in 0..Longest
  /\ width \in 0..Longest
  /\ raced \in BOOLEAN

\* After Reset the opener output is off, unless the one tick that ends a pause
\* falls between the two writes of that Reset: Reset drives the pin before it
\* clears m_active, so that tick switches the output on for good.
OffWhenReset == pc = "idle" /\ ~active /\ ~raced => ~pin

\* SysTick ends a pulse after PulseLen ticks, or earlier by no more than the age
\* of the `now` the pulse was started with, and a pause after exactly PauseLen.
PulseShape ==
  [][Tick =>
       /\ PulseEnds => width + 1 \in (PulseLen - MaxLag)..PulseLen
       /\ PauseEnds => width + 1 = PauseLen \/ pc = "resetActive"]_vars

\* While the output is active it keeps pulsing.
KeepsPulsing == []<>(~active \/ pin) /\ []<>(~active \/ ~pin)
=============================================================================
